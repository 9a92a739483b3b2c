------------------------------ MODULE FatProofs ------------------------------
(***************************************************************************)
(* Proofs about Fat, for every size of the volume and of the cache, any    *)
(* number of threads, any image and any set of sectors that can fail: the  *)
(* cache's books are kept and the driver's state is of its types           *)
(* (CacheAlwaysKept), between calls the directory, and with no file open   *)
(* every sector, is on the disk (AllStored), and open files have entries   *)
(* under names that differ (DirectoryAlwaysKept).  The order: what each    *)
(* operator of the cache and of the driver does to a volume, as one of     *)
(* three relations between the volume before and after it (Kept, Moves,    *)
(* Good); the inductive invariant IInv and a lemma for each action; the    *)
(* table; then DirInv and a lemma for each action.                         *)
(***************************************************************************)
EXTENDS Fat, FiniteSetTheorems, SequenceTheorems, WellFoundedInduction, TLAPS

(***************************************************************************)
(* Natural numbers: the least member of a set.                             *)
(***************************************************************************)
Below == {ss \in Nat \X Nat : ss[1] < ss[2]}

\* y < x as a pair of the relation.
LEMMA BelowPairs ==
    ASSUME NEW x \in Nat, NEW y \in Nat, y < x
    PROVE  <<y, x>> \in Below
<1> DEFINE z == <<y, x>>
<1>1. z \in Nat \X Nat /\ z[1] = y /\ z[2] = x
    OBVIOUS
<1>2. z \in Below
    <2> HIDE DEF z
    <2> QED
        BY <1>1 DEF Below
<1> QED
    BY <1>2

\* A set of naturals that is not empty has a least member: the induction used here.
LEMMA LeastNumber ==
    ASSUME NEW T, T \subseteq Nat, T # {}
    PROVE  \E x \in T : \A y \in T : x <= y
<1>1. IsWellFoundedOn(Below, Nat)
    BY NatLessThanWellFounded DEF OpToRel, Below
<1>2. PICK x \in T : \A y \in T : ~ (<<y, x>> \in Below)
    BY <1>1, WFMin, Zenon
<1>3. \A y \in T : ~(y < x)
    BY <1>2, BelowPairs
<1> QED
    BY <1>3

\* The lowest member is one.
LEMMA LowestIn ==
    ASSUME NEW S, S \subseteq Nat, S # {}
    PROVE  Lowest(S) \in S
BY LeastNumber DEF Lowest

\* The lowest of one is that one.
LEMMA LowestOfOne ==
    ASSUME NEW e \in Nat
    PROVE  Lowest({e}) = e
BY LowestIn

(***************************************************************************)
(* Where the sectors of the volume are.                                    *)
(***************************************************************************)
LEMMA DivFacts ==
    ASSUME NEW a \in Nat, NEW n \in Nat \ {0}
    PROVE  /\ a \div n \in Nat /\ a % n \in 0..(n - 1)
           /\ a = (n * (a \div n)) + (a % n)
OBVIOUS

\* Division keeps the order.
LEMMA DivMonotonic ==
    ASSUME NEW a \in Nat, NEW b \in Nat, NEW n \in Nat \ {0}, a <= b
    PROVE  a \div n <= b \div n
<1> DEFINE x == a \div n
           y == b \div n
<1>1. x \in Nat /\ y \in Nat /\ a >= n * x /\ b < (n * y) + n
    BY DivFacts
<1>2. ASSUME x > y PROVE FALSE
    <2>1. x - y - 1 \in Nat /\ x = y + 1 + (x - y - 1)
        BY <1>1, <1>2
    <2>2. PICK k \in Nat : x = y + 1 + k
        BY <2>1
    <2> HIDE DEF x, y
    <2>3. n * x = (n * y) + n + (n * k)
        BY <1>1, <2>2
    <2>4. n * k \in Nat /\ n * y \in Nat
        BY <1>1, <2>2
    <2> QED
        BY <1>1, <2>3, <2>4
<1> QED
    BY <1>1, <1>2

\* The directory, the information sector and the table are different sectors.
LEMMA Geometry ==
    /\ FatSize \in Nat \ {0} /\ Clusters \subseteq Nat \ {0, 1}
    /\ Sectors \subseteq Nat /\ Sectors \cup {Far} \subseteq Int /\ Far \notin Sectors
    /\ Info \in Sectors /\ Dir \in Sectors /\ FatSectors \subseteq Sectors
    /\ Info # Dir /\ Info \notin FatSectors /\ Dir \notin FatSectors
    /\ Slots \subseteq Nat
<1>1. ((NumClusters + 1) \div PerSector) \in Nat
    BY DivFacts, SizesAssumption
<1> QED
    BY <1>1, SizesAssumption DEF FatSize, Clusters, Sectors, Far, Info, Dir, FatSectors, Slots

\* The entry of a cluster is in a sector of the table; that of an error is nowhere.
LEMMA SectorOfLink ==
    ASSUME NEW c \in Link
    PROVE  /\ SectorOf(c) \in FatSectors \cup {Far}
           /\ c # Failed => SectorOf(c) \in FatSectors
           /\ c % PerSector \in Slots
<1>1. CASE c = Failed
    <2>1. SectorOf(c) = Far
        BY <1>1 DEF Failed, SectorOf
    <2>2. (-1) % PerSector \in 0..(PerSector - 1)
        BY SizesAssumption
    <2> QED
        BY <1>1, <2>1, <2>2 DEF Failed, Slots
<1>2. CASE c # Failed
    <2>1. c \in Nat /\ c <= NumClusters + 1
        BY <1>2, SizesAssumption DEF Link, None, Clusters
    <2>2. c \div PerSector <= (NumClusters + 1) \div PerSector
        BY <2>1, DivMonotonic, SizesAssumption
    <2>3. c \div PerSector \in Nat /\ c % PerSector \in 0..(PerSector - 1)
        BY <2>1, DivFacts, SizesAssumption
    <2>4. (NumClusters + 1) \div PerSector \in Nat
        BY DivFacts, SizesAssumption
    <2>5. SectorOf(c) = 2 + (c \div PerSector)
        BY <2>1 DEF SectorOf
    <2> QED
        BY <2>2, <2>3, <2>4, <2>5 DEF FatSectors, FatSize, Slots
<1> QED
    BY <1>1, <1>2

\* Every sector, and the one that is none, has a map.
LEMMA Hashed ==
    ASSUME NEW s \in Sectors \cup {Far}
    PROVE  MapSector(s) \in 0..(MapSize - 1)
BY Geometry, MapSizeAssumption DEF MapSector

(***************************************************************************)
(* The list of entries in order of use: each member once.                  *)
(***************************************************************************)
Listed(l, S) ==
    /\ l \in Seq(Entries)
    /\ \A i, j \in 1..Len(l) : l[i] = l[j] => i = j
    /\ \A i \in 1..Len(l) : l[i] \in S
    /\ \A e \in S : \E i \in 1..Len(l) : l[i] = e

\* A list of distinct entries, as the model's own invariant puts it.
LEMMA ListedIs ==
    ASSUME NEW l \in Seq(Entries), NEW S
    PROVE  Listed(l, S) <=> IsInjective(l) /\ ToSet(l) = S
<1>1. DOMAIN l = 1..Len(l)
    BY LenProperties
<1> QED
    BY <1>1 DEF Listed, IsInjective, ToSet

\* Taking the i-th element out of a sequence (SequencesExt).
LEMMA RemoveAtFacts ==
    ASSUME NEW S, NEW s \in Seq(S), NEW i \in DOMAIN s
    PROVE  /\ RemoveAt(s, i) \in Seq(S)
           /\ Len(RemoveAt(s, i)) = Len(s) - 1
           /\ \A j \in 1..(Len(s) - 1) :
                RemoveAt(s, i)[j] = IF j < i THEN s[j] ELSE s[j + 1]
<1>1. Len(s) \in Nat /\ DOMAIN s = 1..Len(s) /\ i \in 1..Len(s)
    BY LenProperties
<1>2. \A j \in 1..Len(s) : s[j] \in S
    BY ElementOfSeq
<1> DEFINE a == SubSeq(s, 1, i - 1)
           b == SubSeq(s, i + 1, Len(s))
<1>3. a \in Seq(S) /\ Len(a) = i - 1 /\ \A j \in 1..(i - 1) : a[j] = s[j]
    BY <1>1, <1>2, SubSeqProperties
<1>4. b \in Seq(S) /\ Len(b) = Len(s) - i /\ \A j \in 1..(Len(s) - i) : b[j] = s[j + i]
    BY <1>1, <1>2, SubSeqProperties
<1>5. /\ a \o b \in Seq(S)
      /\ Len(a \o b) = Len(a) + Len(b)
      /\ \A j \in 1..(Len(a) + Len(b)) :
            (a \o b)[j] = IF j <= Len(a) THEN a[j] ELSE b[j - Len(a)]
    BY <1>3, <1>4, ConcatProperties
<1>6. RemoveAt(s, i) = a \o b
    BY DEF RemoveAt
<1> HIDE DEF a, b
<1>7. \A j \in 1..(Len(s) - 1) : (a \o b)[j] = IF j < i THEN s[j] ELSE s[j + 1]
    <2> TAKE j \in 1..(Len(s) - 1)
    <2>1. CASE j < i
        BY <2>1, <1>1, <1>3, <1>4, <1>5
    <2>2. CASE ~(j < i)
        <3>1. j - Len(a) \in 1..(Len(s) - i) /\ ~(j <= Len(a)) /\ j - Len(a) + i = j + 1
            BY <2>2, <1>1, <1>3
        <3>2. j \in 1..(Len(a) + Len(b))
            BY <1>1, <1>3, <1>4
        <3>3. (a \o b)[j] = b[j - Len(a)]
            BY <3>1, <3>2, <1>5
        <3>4. b[j - Len(a)] = s[j + 1]
            BY <3>1, <1>4
        <3> QED
            BY <3>3, <3>4, <2>2
    <2> QED
        BY <2>1, <2>2
<1>8. Len(a \o b) = Len(s) - 1
    BY <1>1, <1>3, <1>4, <1>5
<1> QED
    BY <1>5, <1>6, <1>7, <1>8

\* Where the elements of a list come from when the i-th becomes the last.
LEMMA Rotated ==
    ASSUME NEW n \in Nat, NEW i \in 1..n
    PROVE  \E from \in [1..n -> 1..n] :
               /\ \A j \in 1..n : from[j] = IF j = n THEN i ELSE IF j < i THEN j ELSE j + 1
               /\ \A j, k \in 1..n : from[j] = from[k] => j = k
               /\ \A k \in 1..n : \E j \in 1..n : from[j] = k
<1> DEFINE from == [j \in 1..n |-> IF j = n THEN i ELSE IF j < i THEN j ELSE j + 1]
<1>1. \A j \in 1..n : from[j] = IF j = n THEN i ELSE IF j < i THEN j ELSE j + 1
    OBVIOUS
<1>2. from \in [1..n -> 1..n]
    OBVIOUS
<1> HIDE DEF from
<1>3. \A j, k \in 1..n : from[j] = from[k] => j = k
    BY <1>1
<1>4. \A k \in 1..n : \E j \in 1..n : from[j] = k
    <2> TAKE k \in 1..n
    <2>1. CASE k = i
        <3>1. n \in 1..n /\ from[n] = i
            BY <1>1
        <3> QED
            BY <2>1, <3>1
    <2>2. CASE k < i
        <3>1. from[k] = k
            BY <2>2, <1>1
        <3> QED
            BY <3>1
    <2>3. CASE k > i
        <3>1. k - 1 \in 1..n /\ from[k - 1] = k
            BY <2>3, <1>1
        <3> QED
            BY <3>1
    <2> QED
        BY <2>1, <2>2, <2>3
<1> QED
    BY <1>1, <1>2, <1>3, <1>4

\* An entry becomes the last.
LEMMA ListTouched ==
    ASSUME NEW l, NEW S, Listed(l, S), NEW e \in S, NEW i \in 1..Len(l), l[i] = e
    PROVE  /\ Listed(Append(RemoveAt(l, i), e), S) /\ Append(RemoveAt(l, i), e) # <<>>
           /\ Len(Append(RemoveAt(l, i), e)) = Len(l) /\ Append(RemoveAt(l, i), e)[Len(l)] = e
<1>1. /\ l \in Seq(Entries) /\ Len(l) \in Nat /\ i \in DOMAIN l /\ e \in Entries
    BY LenProperties, ElementOfSeq DEF Listed
<1> DEFINE r == RemoveAt(l, i)
           a == Append(r, e)
           n == Len(l)
<1>2. /\ r \in Seq(Entries) /\ Len(r) = n - 1
      /\ \A j \in 1..(n - 1) : r[j] = IF j < i THEN l[j] ELSE l[j + 1]
    BY <1>1, RemoveAtFacts, Zenon
<1> HIDE DEF r
<1>3. /\ a \in Seq(Entries) /\ a # <<>> /\ Len(a) = Len(r) + 1
      /\ a[Len(r) + 1] = e /\ \A j \in 1..Len(r) : a[j] = r[j]
    BY <1>1, <1>2, AppendProperties
<1> HIDE DEF a
<1>4. PICK from \in [1..n -> 1..n] :
          /\ \A j \in 1..n : from[j] = IF j = n THEN i ELSE IF j < i THEN j ELSE j + 1
          /\ \A j, k \in 1..n : from[j] = from[k] => j = k
          /\ \A k \in 1..n : \E j \in 1..n : from[j] = k
    BY <1>1, Rotated, ZenonT(60)
<1>5. Len(a) = n /\ a[n] = e /\ \A j \in 1..(n - 1) : a[j] = IF j < i THEN l[j] ELSE l[j + 1]
    <2> HIDE DEF n
    <2>1. Len(r) + 1 = n
        BY <1>1, <1>2 DEF n
    <2> QED
        BY <1>2, <1>3, <2>1
<1>6. \A j \in 1..n : a[j] = l[from[j]]
    <2> TAKE j \in 1..n
    <2>1. CASE j = n
        BY <2>1, <1>4, <1>5
    <2>2. CASE j # n
        <3>1. j \in 1..(n - 1)
            BY <2>2, <1>1
        <3> QED
            BY <2>2, <3>1, <1>4, <1>5
    <2> QED
        BY <2>1, <2>2
<1>7. \A j, k \in 1..Len(a) : a[j] = a[k] => j = k
    <2> TAKE j \in 1..Len(a), k \in 1..Len(a)
    <2>1. j \in 1..n /\ k \in 1..n
        BY <1>5
    <2>2. l[from[j]] = l[from[k]] => from[j] = from[k]
        BY <1>4, <2>1, ZenonT(60) DEF Listed
    <2> QED
        BY <1>4, <1>6, <2>1, <2>2
<1>8. \A f \in S : \E j \in 1..Len(a) : a[j] = f
    <2> TAKE f \in S
    <2>1. PICK k \in 1..n : l[k] = f
        BY DEF Listed
    <2>2. PICK j \in 1..n : from[j] = k
        BY <1>4
    <2> QED
        BY <2>1, <2>2, <1>5, <1>6
<1>9. \A j \in 1..Len(a) : a[j] \in S
    BY <1>4, <1>5, <1>6, ZenonT(60) DEF Listed
<1> QED
    BY <1>3, <1>5, <1>7, <1>8, <1>9 DEF Listed, a, r

\* The first leaves the list.
LEMMA ListShortened ==
    ASSUME NEW l, NEW S, Listed(l, S), l # <<>>
    PROVE  /\ Head(l) \in S /\ Listed(Tail(l), S \ {Head(l)}) /\ Len(Tail(l)) = Len(l) - 1
           /\ Len(l) > 1 => Tail(l) # <<>>
<1>1. Len(l) \in Nat \ {0} /\ Head(l) = l[1]
    BY LenProperties, EmptySeq, HeadTailProperties DEF Listed
<1> DEFINE t == Tail(l)
<1>2. /\ t \in Seq(Entries) /\ Len(t) = Len(l) - 1
      /\ \A j \in 1..Len(t) : t[j] = l[j + 1]
    BY HeadTailProperties DEF Listed
<1> HIDE DEF t
<1>3. \A j \in 1..Len(t) : j + 1 \in 1..Len(l) /\ j + 1 # 1
    BY <1>1, <1>2
<1>4. \A i, j \in 1..Len(t) : t[i] = t[j] => i = j
    BY <1>1, <1>2, <1>3 DEF Listed
<1>5. \A i \in 1..Len(t) : t[i] \in S \ {l[1]}
    <2> TAKE i \in 1..Len(t)
    <2>1. /\ i + 1 \in 1..Len(l) /\ i + 1 # 1 /\ 1 \in 1..Len(l)
          /\ t[i] = l[i + 1]
        BY <1>1, <1>2, <1>3
    <2> QED
        BY <2>1 DEF Listed
<1>6. \A e \in S \ {l[1]} : \E i \in 1..Len(t) : t[i] = e
    <2> TAKE e \in S \ {l[1]}
    <2>1. PICK k \in 1..Len(l) : l[k] = e
        BY DEF Listed
    <2>2. k # 1 /\ k - 1 \in 1..Len(t) /\ t[k - 1] = l[k]
        BY <2>1, <1>1, <1>2
    <2> QED
        BY <2>1, <2>2
<1>7. Len(l) > 1 => t # <<>>
    BY <1>1, <1>2, EmptySeq
<1>8. l[1] \in S
    BY <1>1 DEF Listed
<1> QED
    BY <1>1, <1>2, <1>4, <1>5, <1>6, <1>7, <1>8 DEF Listed, t

\* An entry that was not in the list becomes the first.
LEMMA ListLengthened ==
    ASSUME NEW l, NEW S, Listed(l, S), NEW e \in Entries, e \notin S
    PROVE  Listed(<<e>> \o l, S \cup {e}) /\ <<e>> \o l # <<>> /\ Len(<<e>> \o l) = Len(l) + 1
<1>1. Len(l) \in Nat
    BY LenProperties DEF Listed
<1> DEFINE o == <<e>>
           c == o \o l
<1>2. o \in Seq(Entries) /\ Len(o) = 1 /\ o[1] = e
    OBVIOUS
<1> HIDE DEF o
<1>3. /\ c \in Seq(Entries) /\ Len(c) = 1 + Len(l)
      /\ \A j \in 1..(Len(o) + Len(l)) : c[j] = IF j <= Len(o) THEN o[j] ELSE l[j - Len(o)]
    <2>1. l \in Seq(Entries)
        BY DEF Listed
    <2>2. /\ o \o l \in Seq(Entries) /\ Len(o \o l) = Len(o) + Len(l)
          /\ \A j \in 1..(Len(o) + Len(l)) :
                (o \o l)[j] = IF j <= Len(o) THEN o[j] ELSE l[j - Len(o)]
        BY <1>2, <2>1, ConcatProperties, Zenon
    <2> QED
        BY <2>2, <1>2 DEF c
<1> HIDE DEF c
<1>4. c[1] = e /\ \A j \in 2..Len(c) : c[j] = l[j - 1] /\ j - 1 \in 1..Len(l)
    BY <1>1, <1>2, <1>3
<1>5. \A i, j \in 1..Len(c) : c[i] = c[j] => i = j
    <2> TAKE i \in 1..Len(c), j \in 1..Len(c)
    <2>1. CASE i = 1 /\ j = 1
        BY <2>1
    <2>2. CASE i = 1 /\ j # 1
        BY <2>2, <1>1, <1>3, <1>4 DEF Listed
    <2>3. CASE i # 1 /\ j = 1
        BY <2>3, <1>1, <1>3, <1>4 DEF Listed
    <2>4. CASE i # 1 /\ j # 1
        <3>1. i \in 2..Len(c) /\ j \in 2..Len(c)
            BY <2>4, <1>1, <1>3
        <3>2. c[i] = c[j] => i - 1 = j - 1
            BY <3>1, <1>4 DEF Listed
        <3> QED
            BY <3>1, <3>2
    <2> QED
        BY <2>1, <2>2, <2>3, <2>4
<1>6. \A i \in 1..Len(c) : c[i] \in S \cup {e}
    <2> TAKE i \in 1..Len(c)
    <2>1. CASE i = 1
        BY <2>1, <1>4
    <2>2. CASE i # 1
        <3>1. i \in 2..Len(c)
            BY <2>2, <1>1, <1>3
        <3> QED
            BY <3>1, <1>4 DEF Listed
    <2> QED
        BY <2>1, <2>2
<1>7. \A f \in S \cup {e} : \E i \in 1..Len(c) : c[i] = f
    <2> TAKE f \in S \cup {e}
    <2>1. CASE f = e
        <3>1. 1 \in 1..Len(c)
            BY <1>1, <1>3
        <3> QED
            BY <2>1, <3>1, <1>4
    <2>2. CASE f # e
        <3>1. PICK k \in 1..Len(l) : l[k] = f
            BY <2>2 DEF Listed
        <3>2. k + 1 \in 2..Len(c) /\ k + 1 \in 1..Len(c) /\ (k + 1) - 1 = k
            BY <1>1, <1>3
        <3> QED
            BY <3>1, <3>2, <1>4
    <2> QED
        BY <2>1, <2>2
<1>8. c # <<>>
    BY <1>1, <1>3, EmptySeq
<1> QED
    BY <1>3, <1>5, <1>6, <1>7, <1>8 DEF Listed, c, o

(***************************************************************************)
(* A sound cache and its disk, over which the driver's operators work.     *)
(***************************************************************************)
Bytes == UNION {Data(s) : s \in Sectors}
Vol == [flags : [Entries -> SUBSET Flags], sector : [Entries -> Sectors \cup {Far, NoSector}],
        buffer : [Entries -> Bytes \cup {NoData}], lru : Seq(Entries),
        map : [0..(MapSize - 1) -> SUBSET Entries], used : SUBSET Entries,
        disk : [Sectors -> Bytes], bad : SUBSET (Sectors \cup {Far}),
        free : Nat, next : Nat, panic : BOOLEAN]
States == {{}, {"inuse"}, {"inuse", "dirty"}, {"buf"}}
Unlent(flags) == {e \in Entries : "buf" \notin flags[e]}

ListOK(d) == Listed(d.lru, Unlent(d.flags)) /\ d.lru # <<>>
FlagsOK(d) == \A e \in Entries : d.flags[e] \in States
UsedOK(d) == d.used = {e \in Entries : "inuse" \in d.flags[e]}
MapOK(d) == \A n \in 0..(MapSize - 1), e \in Entries :
                e \in d.map[n] <=> e \in d.used /\ MapSector(d.sector[e]) = n
HeldOK(d) ==
    /\ \A e \in d.used : d.sector[e] \in Sectors /\ d.buffer[e] \in Data(d.sector[e])
    /\ \A e, f \in d.used : d.sector[e] = d.sector[f] => e = f
    /\ \A e \in d.used : "dirty" \notin d.flags[e] => d.buffer[e] = d.disk[d.sector[e]]
DiskOK(d) == (\A s \in Sectors : d.disk[s] \in Data(s)) /\ Far \in d.bad
Good(d) == /\ d \in Vol /\ ListOK(d) /\ FlagsOK(d) /\ UsedOK(d) /\ MapOK(d) /\ HeldOK(d)
           /\ DiskOK(d)

\* What is used here as a good cache includes the soundness the model states.
LEMMA GoodIsSound ==
    ASSUME NEW d, Good(d)
    PROVE  CacheSound(d)
<1> USE DEF Good
<1>1. ListSound(d)
    BY ListedIs DEF ListOK, ListSound, Listed, Unlent
<1>2. MapsSound(d)
    <2>1. DOMAIN d.map = 0..(MapSize - 1) /\ \A n \in 0..(MapSize - 1) : d.map[n] \subseteq Entries
        BY DEF Vol
    <2>2. d.used \subseteq Entries
        BY DEF Vol
    <2> QED
        BY <2>1, <2>2 DEF MapOK, UsedOK, MapsSound
<1> QED
    BY <1>1, <1>2 DEF CacheSound, FlagsOK, HeldOK, States

\* A sector that can be had: in use, and its entry is the only one.
LEMMA FoundIs ==
    ASSUME NEW d, Good(d), NEW s \in Sectors \cup {Far}
    PROVE  /\ Found(d, s) = {e \in d.used : d.sector[e] = s}
           /\ Found(d, s) \subseteq Nat
           /\ s = Far => Found(d, s) = {}
<1>1. MapSector(s) \in 0..(MapSize - 1)
    BY Hashed
<1>2. d.map[MapSector(s)] \subseteq Entries /\ d.used \subseteq Entries
    BY <1>1 DEF Good, Vol
<1>3. Found(d, s) = {e \in d.used : d.sector[e] = s}
    BY <1>1, <1>2 DEF Good, MapOK, Found
<1>4. Entries \subseteq Nat
    BY EntriesAssumption DEF Entries
<1>5. \A e \in d.used : d.sector[e] # Far
    BY Geometry DEF Good, HeldOK
<1> QED
    BY <1>2, <1>3, <1>4, <1>5

\* The list is as long as it was, and e the last in it.
LastUsed(d, r, e) == Len(r.lru) = Len(d.lru) /\ r.lru[Len(d.lru)] = e

\* touch_cache_entry: the list has the same entries.
LEMMA TouchIs ==
    ASSUME NEW d, d \in Vol, ListOK(d), NEW e \in Entries, "buf" \notin d.flags[e]
    PROVE  /\ Touch(d, e) \in Vol
           /\ ListOK(Touch(d, e))
           /\ Touch(d, e) = [d EXCEPT !.lru = Touch(d, e).lru]
           /\ LastUsed(d, Touch(d, e), e)
<1> DEFINE i == Place(d, e)
           l == Append(RemoveAt(d.lru, i), e)
<1>1. e \in Unlent(d.flags)
    BY DEF Unlent
<1>2. i \in 1..Len(d.lru) /\ d.lru[i] = e
    <2>1. DOMAIN d.lru = 1..Len(d.lru)
        BY LenProperties DEF Vol
    <2> QED
        BY <1>1, <2>1 DEF ListOK, Listed, Place
<1> HIDE DEF i
<1>3. Listed(l, Unlent(d.flags)) /\ l # <<>> /\ Len(l) = Len(d.lru) /\ l[Len(d.lru)] = e
    BY <1>1, <1>2, ListTouched DEF ListOK
<1>4. Touch(d, e) = [d EXCEPT !.lru = l]
    BY DEF Touch, i
<1> HIDE DEF l
<1>5. [d EXCEPT !.lru = l] \in Vol /\ [d EXCEPT !.lru = l].flags = d.flags
      /\ [d EXCEPT !.lru = l].lru = l
    BY <1>3 DEF Vol, Listed
<1> QED
    BY <1>3, <1>4, <1>5 DEF ListOK, LastUsed

\* Fields of the record that the cache leaves to the driver.
SameRest(d, r) == r.bad = d.bad /\ r.free = d.free /\ r.next = d.next /\ r.panic = d.panic

\* dc_writeback_callback: the disk has what the entry held.
LEMMA WriteBackIs ==
    ASSUME NEW d, d \in Vol, FlagsOK(d), UsedOK(d), HeldOK(d), NEW e \in Entries,
           NEW r, r = WriteBack(d, e)
    PROVE  /\ r \in Vol /\ SameRest(d, r)
           /\ r.flags = d.flags /\ r.sector = d.sector /\ r.buffer = d.buffer
           /\ r.lru = d.lru /\ r.map = d.map /\ r.used = d.used
           /\ r.disk = IF "dirty" \in d.flags[e]
                       THEN [d.disk EXCEPT ![d.sector[e]] = d.buffer[e]] ELSE d.disk
<1>1. CASE "dirty" \notin d.flags[e]
    BY <1>1 DEF WriteBack, SameRest
<1>2. CASE "dirty" \in d.flags[e]
    <2>1. e \in d.used
        BY <1>2 DEF FlagsOK, UsedOK, States
    <2>2. d.sector[e] \in Sectors /\ d.buffer[e] \in Bytes
        BY <2>1 DEF HeldOK, Bytes
    <2> DEFINE k == [d.disk EXCEPT ![d.sector[e]] = d.buffer[e]]
    <2>3. k \in [Sectors -> Bytes]
        BY <2>2 DEF Vol
    <2>4. r = [d EXCEPT !.disk = k]
        BY <1>2 DEF WriteBack
    <2> HIDE DEF k
    <2>5. /\ r \in Vol /\ r.disk = k /\ SameRest(d, r)
          /\ r.flags = d.flags /\ r.sector = d.sector /\ r.buffer = d.buffer
          /\ r.lru = d.lru /\ r.map = d.map /\ r.used = d.used
        BY <2>3, <2>4 DEF Vol, SameRest
    <2> QED
        BY <1>2, <2>5 DEF k
<1> QED
    BY <1>1, <1>2

\* cache_bitmap_clear_bit.
LEMMA ClearBitIs ==
    ASSUME NEW d, d \in Vol, NEW s \in Sectors \cup {Far}, NEW e \in Entries,
           NEW r, r = ClearBit(d, s, e)
    PROVE  /\ r \in Vol /\ SameRest(d, r)
           /\ r.flags = d.flags /\ r.sector = d.sector /\ r.buffer = d.buffer
           /\ r.lru = d.lru /\ r.disk = d.disk
           /\ r.used = d.used \ {e}
           /\ r.map = [d.map EXCEPT ![MapSector(s)] = @ \ {e}]
<1> DEFINE m == [d.map EXCEPT ![MapSector(s)] = @ \ {e}]
           u == d.used \ {e}
<1>1. r = [d EXCEPT !.map = m, !.used = u]
    BY DEF ClearBit, Vol
<1>2. m \in [0..(MapSize - 1) -> SUBSET Entries] /\ u \subseteq Entries
    BY Hashed DEF Vol
<1> HIDE DEF m, u
<1>3. /\ r \in Vol /\ SameRest(d, r) /\ r.used = u /\ r.map = m
      /\ r.flags = d.flags /\ r.sector = d.sector /\ r.buffer = d.buffer
      /\ r.lru = d.lru /\ r.disk = d.disk
    BY <1>1, <1>2 DEF Vol, SameRest
<1> QED
    BY <1>3 DEF m, u

\* cache_bitmap_set_bit.
LEMMA SetBitIs ==
    ASSUME NEW d, d \in Vol, NEW s \in Sectors \cup {Far}, NEW e \in Entries,
           NEW r, r = SetBit(d, s, e)
    PROVE  /\ r \in Vol /\ SameRest(d, r)
           /\ r.flags = d.flags /\ r.sector = d.sector /\ r.buffer = d.buffer
           /\ r.lru = d.lru /\ r.disk = d.disk
           /\ r.used = d.used \cup {e}
           /\ r.map = [d.map EXCEPT ![MapSector(s)] = @ \cup {e}]
<1> DEFINE m == [d.map EXCEPT ![MapSector(s)] = @ \cup {e}]
           u == d.used \cup {e}
<1>1. r = [d EXCEPT !.map = m, !.used = u]
    BY DEF SetBit, Vol
<1>2. m \in [0..(MapSize - 1) -> SUBSET Entries] /\ u \subseteq Entries
    BY Hashed DEF Vol
<1> HIDE DEF m, u
<1>3. /\ r \in Vol /\ SameRest(d, r) /\ r.used = u /\ r.map = m
      /\ r.flags = d.flags /\ r.sector = d.sector /\ r.buffer = d.buffer
      /\ r.lru = d.lru /\ r.disk = d.disk
    BY <1>1, <1>2 DEF Vol, SameRest
<1> QED
    BY <1>3 DEF m, u

\* An entry's own fields, whatever becomes of the maps.
With(d, e, f, s, b) == [d EXCEPT !.flags[e] = f, !.sector[e] = s, !.buffer[e] = b]

\* The fields of an entry set all together.
LEMMA EntryIs ==
    ASSUME NEW d, d \in Vol, NEW e \in Entries,
           NEW f, f \in SUBSET Flags, NEW s \in Sectors \cup {Far, NoSector}, NEW b \in Bytes \cup {NoData},
           NEW r, r = With(d, e, f, s, b)
    PROVE  /\ r \in Vol /\ SameRest(d, r)
           /\ r.flags = [d.flags EXCEPT ![e] = f]
           /\ r.sector = [d.sector EXCEPT ![e] = s]
           /\ r.buffer = [d.buffer EXCEPT ![e] = b]
           /\ r.lru = d.lru /\ r.disk = d.disk /\ r.map = d.map /\ r.used = d.used
<1> DEFINE x == [d.flags EXCEPT ![e] = f]
           y == [d.sector EXCEPT ![e] = s]
           z == [d.buffer EXCEPT ![e] = b]
<1>1. r = [d EXCEPT !.flags = x, !.sector = y, !.buffer = z]
    BY DEF Vol, With
<1>2. /\ x \in [Entries -> SUBSET Flags] /\ y \in [Entries -> Sectors \cup {Far, NoSector}]
      /\ z \in [Entries -> Bytes \cup {NoData}]
    BY DEF Vol
<1> HIDE DEF x, y, z
<1>3. /\ r \in Vol /\ SameRest(d, r) /\ r.flags = x /\ r.sector = y /\ r.buffer = z
      /\ r.lru = d.lru /\ r.disk = d.disk /\ r.map = d.map /\ r.used = d.used
    BY <1>1, <1>2 DEF Vol, SameRest
<1> QED
    BY <1>3 DEF x, y, z

\* The entry of another sector, taken for this one.
LEMMA EvictedIs ==
    ASSUME NEW d, Good(d), NEW e \in Entries, "buf" \notin d.flags[e],
           NEW r, r = Evicted(d, e)
    PROVE  /\ r \in Vol /\ SameRest(d, r)
           /\ r.flags = d.flags /\ r.sector = d.sector /\ r.buffer = d.buffer /\ r.lru = d.lru
           /\ r.used = d.used \ {e}
           /\ \A n \in 0..(MapSize - 1), f \in Entries : f \in r.map[n] <=> f \in d.map[n] /\ f # e
           /\ r.disk = IF "dirty" \in d.flags[e]
                       THEN [d.disk EXCEPT ![d.sector[e]] = d.buffer[e]] ELSE d.disk
<1>1. CASE d.flags[e] = {}
    <2>1. e \notin d.used /\ r = d
        BY <1>1 DEF Evicted, Good, UsedOK
    <2>2. \A n \in 0..(MapSize - 1) : e \notin d.map[n]
        BY <2>1 DEF Good, MapOK
    <2> QED
        BY <1>1, <2>1, <2>2 DEF SameRest, Good
<1>2. CASE d.flags[e] # {}
    <2>1. e \in d.used
        BY <1>2 DEF Good, FlagsOK, UsedOK, States
    <2> DEFINE w == WriteBack(d, e)
    <2>2. /\ w \in Vol /\ SameRest(d, w)
          /\ w.flags = d.flags /\ w.sector = d.sector /\ w.buffer = d.buffer
          /\ w.lru = d.lru /\ w.map = d.map /\ w.used = d.used
          /\ w.disk = IF "dirty" \in d.flags[e]
                      THEN [d.disk EXCEPT ![d.sector[e]] = d.buffer[e]] ELSE d.disk
        BY WriteBackIs DEF Good
    <2>3. r = ClearBit(w, w.sector[e], e)
        BY <1>2 DEF Evicted
    <2> HIDE DEF w
    <2>4. w.sector[e] = d.sector[e] /\ d.sector[e] \in Sectors
        BY <2>1, <2>2 DEF Good, HeldOK
    <2>5. /\ r \in Vol /\ SameRest(w, r)
          /\ r.flags = w.flags /\ r.sector = w.sector /\ r.buffer = w.buffer
          /\ r.lru = w.lru /\ r.disk = w.disk
          /\ r.used = w.used \ {e}
          /\ r.map = [w.map EXCEPT ![MapSector(d.sector[e])] = @ \ {e}]
        BY <2>2, <2>3, <2>4, ClearBitIs
    <2>6. \A n \in 0..(MapSize - 1), f \in Entries : f \in r.map[n] <=> f \in d.map[n] /\ f # e
        <3> TAKE n \in 0..(MapSize - 1), f \in Entries
        <3>1. r.map[n] = IF n = MapSector(d.sector[e]) THEN d.map[n] \ {e} ELSE d.map[n]
            BY <2>2, <2>5, ZenonT(60) DEF Vol
        <3>2. n # MapSector(d.sector[e]) => e \notin d.map[n]
            BY DEF Good, MapOK
        <3> QED
            BY <3>1, <3>2
    <2> QED
        BY <2>2, <2>5, <2>6 DEF SameRest
<1> QED
    BY <1>1, <1>2

\* An entry used again: nothing else changes.
LEMMA TouchKeeps ==
    ASSUME NEW d, Good(d), NEW e \in Entries, "buf" \notin d.flags[e],
           NEW r, r = Touch(d, e)
    PROVE  /\ Good(r) /\ SameRest(d, r)
           /\ r.flags = d.flags /\ r.sector = d.sector /\ r.buffer = d.buffer
           /\ r.map = d.map /\ r.used = d.used /\ r.disk = d.disk
           /\ LastUsed(d, r, e)
<1>1. r \in Vol /\ ListOK(r) /\ r = [d EXCEPT !.lru = r.lru] /\ LastUsed(d, r, e)
    BY TouchIs DEF Good
<1> DEFINE l == r.lru
<1>2. r = [d EXCEPT !.lru = l]
    BY <1>1
<1> HIDE DEF l
<1>3. /\ SameRest(d, r)
      /\ r.flags = d.flags /\ r.sector = d.sector /\ r.buffer = d.buffer
      /\ r.map = d.map /\ r.used = d.used /\ r.disk = d.disk
    BY <1>2 DEF SameRest, Good, Vol
<1> QED
    BY <1>1, <1>3 DEF Good, FlagsOK, UsedOK, MapOK, HeldOK, DiskOK, SameRest

\* dc_cache_probe on a miss: the first entry is written if dirty, and is the sector's.
LEMMA VictimIs ==
    ASSUME NEW d, Good(d), NEW s \in Sectors \cup {Far}, NEW e \in Entries, "buf" \notin d.flags[e],
           NEW r, r = Victim(d, s, e).d
    PROVE  /\ r \in Vol /\ ListOK(r) /\ SameRest(d, r) /\ LastUsed(d, r, e)
           /\ r.flags = [d.flags EXCEPT ![e] = {"inuse"}]
           /\ r.sector = [d.sector EXCEPT ![e] = s]
           /\ r.buffer = [d.buffer EXCEPT ![e] = NoData]
           /\ r.used = d.used \cup {e}
           /\ \A n \in 0..(MapSize - 1), f \in Entries :
                  f \in r.map[n] <=> IF f = e THEN n = MapSector(s) ELSE f \in d.map[n]
           /\ r.disk = IF "dirty" \in d.flags[e]
                       THEN [d.disk EXCEPT ![d.sector[e]] = d.buffer[e]] ELSE d.disk
<1> DEFINE t == Touch(d, e)
           v == Evicted(t, e)
           m == SetBit(v, s, e)
<1>1. /\ Good(t) /\ SameRest(d, t) /\ LastUsed(d, t, e)
      /\ t.flags = d.flags /\ t.sector = d.sector /\ t.buffer = d.buffer
      /\ t.map = d.map /\ t.used = d.used /\ t.disk = d.disk
    BY TouchKeeps
<1> HIDE DEF t
<1>2. /\ v \in Vol /\ SameRest(t, v)
      /\ v.flags = t.flags /\ v.sector = t.sector /\ v.buffer = t.buffer /\ v.lru = t.lru
      /\ v.used = t.used \ {e}
      /\ \A n \in 0..(MapSize - 1), f \in Entries : f \in v.map[n] <=> f \in t.map[n] /\ f # e
      /\ v.disk = IF "dirty" \in t.flags[e]
                  THEN [t.disk EXCEPT ![t.sector[e]] = t.buffer[e]] ELSE t.disk
    <2>1. Good(t) /\ "buf" \notin t.flags[e]
        BY <1>1
    <2> QED
        BY <2>1, EvictedIs
<1> HIDE DEF v
<1>3. /\ m \in Vol /\ SameRest(v, m)
      /\ m.flags = v.flags /\ m.sector = v.sector /\ m.buffer = v.buffer
      /\ m.lru = v.lru /\ m.disk = v.disk
      /\ m.used = v.used \cup {e}
      /\ m.map = [v.map EXCEPT ![MapSector(s)] = @ \cup {e}]
    BY <1>2, SetBitIs
<1>4. r = With(m, e, {"inuse"}, s, NoData)
    BY DEF Victim, m, v, t, With
<1> HIDE DEF m
<1>5. /\ r \in Vol /\ SameRest(m, r)
      /\ r.flags = [m.flags EXCEPT ![e] = {"inuse"}]
      /\ r.sector = [m.sector EXCEPT ![e] = s]
      /\ r.buffer = [m.buffer EXCEPT ![e] = NoData]
      /\ r.lru = m.lru /\ r.disk = m.disk /\ r.map = m.map /\ r.used = m.used
    <2>1. {"inuse"} \in SUBSET Flags
        BY DEF Flags
    <2> QED
        <3>1. s \in Sectors \cup {Far, NoSector} /\ NoData \in Bytes \cup {NoData} /\ m \in Vol
            BY <1>3
        <3> DEFINE f == {"inuse"}
        <3>2. f \in SUBSET Flags /\ r = With(m, e, f, s, NoData)
            BY <1>4, <2>1
        <3> HIDE DEF f
        <3>3. /\ r \in Vol /\ SameRest(m, r)
              /\ r.flags = [m.flags EXCEPT ![e] = f]
              /\ r.sector = [m.sector EXCEPT ![e] = s]
              /\ r.buffer = [m.buffer EXCEPT ![e] = NoData]
              /\ r.lru = m.lru /\ r.disk = m.disk /\ r.map = m.map /\ r.used = m.used
            BY <3>1, <3>2, EntryIs
        <3> QED
            BY <3>3 DEF f
<1>6. \A n \in 0..(MapSize - 1), f \in Entries :
          f \in r.map[n] <=> IF f = e THEN n = MapSector(s) ELSE f \in d.map[n]
    <2>1. MapSector(s) \in 0..(MapSize - 1)
        BY Hashed
    <2>2. \A n \in 0..(MapSize - 1) :
              m.map[n] = IF n = MapSector(s) THEN v.map[n] \cup {e} ELSE v.map[n]
        BY <1>2, <1>3, <2>1 DEF Vol
    <2> TAKE n \in 0..(MapSize - 1), f \in Entries
    <2>3. f \in v.map[n] <=> f \in d.map[n] /\ f # e
        BY <1>1, <1>2
    <2>4. r.map[n] = IF n = MapSector(s) THEN v.map[n] \cup {e} ELSE v.map[n]
        BY <1>5, <2>2
    <2> QED
        BY <2>3, <2>4
<1>7. Unlent(r.flags) = Unlent(t.flags)
    <2>1. t.flags \in [Entries -> SUBSET Flags]
        BY <1>1 DEF Good, Vol
    <2>2. r.flags = [t.flags EXCEPT ![e] = {"inuse"}]
        BY <1>2, <1>3, <1>5
    <2> QED
        BY <1>1, <2>1, <2>2 DEF Unlent
<1>8. ListOK(r)
    BY <1>1, <1>2, <1>3, <1>5, <1>7 DEF ListOK, Good
<1>9. r.used = d.used \cup {e} /\ LastUsed(d, r, e)
    BY <1>1, <1>2, <1>3, <1>5 DEF LastUsed
<1> QED
    BY <1>1, <1>2, <1>3, <1>5, <1>6, <1>8, <1>9 DEF SameRest

\* cache_discard_entry: the entry holds nothing.
LEMMA DiscardEntryIs ==
    ASSUME NEW d, d \in Vol, NEW e \in Entries, NEW s \in Sectors \cup {Far}, d.sector[e] = s,
           NEW r, r = DiscardEntry(d, e)
    PROVE  /\ r \in Vol /\ SameRest(d, r)
           /\ r.flags = [d.flags EXCEPT ![e] = {}]
           /\ r.sector = [d.sector EXCEPT ![e] = NoSector]
           /\ r.buffer = [d.buffer EXCEPT ![e] = NoData]
           /\ r.lru = d.lru /\ r.disk = d.disk /\ r.used = d.used \ {e}
           /\ r.map = [d.map EXCEPT ![MapSector(s)] = @ \ {e}]
<1> DEFINE c == ClearBit(d, d.sector[e], e)
           f == {}
<1>1. /\ c \in Vol /\ SameRest(d, c)
      /\ c.flags = d.flags /\ c.sector = d.sector /\ c.buffer = d.buffer
      /\ c.lru = d.lru /\ c.disk = d.disk
      /\ c.used = d.used \ {e}
      /\ c.map = [d.map EXCEPT ![MapSector(s)] = @ \ {e}]
    BY ClearBitIs
<1>2. r = With(c, e, f, NoSector, NoData)
    BY DEF DiscardEntry, With
<1> HIDE DEF c
<1>3. f \in SUBSET Flags /\ NoSector \in Sectors \cup {Far, NoSector} /\ NoData \in Bytes \cup {NoData}
    OBVIOUS
<1> HIDE DEF f
<1>4. /\ r \in Vol /\ SameRest(c, r)
      /\ r.flags = [c.flags EXCEPT ![e] = f]
      /\ r.sector = [c.sector EXCEPT ![e] = NoSector]
      /\ r.buffer = [c.buffer EXCEPT ![e] = NoData]
      /\ r.lru = c.lru /\ r.disk = c.disk /\ r.map = c.map /\ r.used = c.used
    BY <1>1, <1>2, <1>3, EntryIs
<1> QED
    BY <1>1, <1>4 DEF SameRest, f

(***************************************************************************)
(* What the driver sees of a sector is what its entry holds, or else what  *)
(* is stored; and what an operation leaves as it was.                      *)
(***************************************************************************)
LEMMA ContentsIs ==
    ASSUME NEW d, Good(d), NEW s \in Sectors
    PROVE  /\ Holders(d, s) = {e \in d.used : d.sector[e] = s}
           /\ \A e \in d.used : d.sector[e] = s => Contents(d, s) = d.buffer[e]
           /\ (\A e \in d.used : d.sector[e] # s) => Contents(d, s) = d.disk[s]
           /\ Contents(d, s) \in Data(s)
<1>1. Holders(d, s) = {e \in d.used : d.sector[e] = s}
    BY DEF Good, UsedOK, Holders, Vol
<1>2. ASSUME NEW e \in d.used, d.sector[e] = s
      PROVE  Contents(d, s) = d.buffer[e] /\ Contents(d, s) \in Data(s)
    <2>1. Holders(d, s) = {e}
        BY <1>1, <1>2 DEF Good, HeldOK
    <2>2. e \in Nat
        BY <1>2, EntriesAssumption DEF Good, Vol, Entries
    <2>3. Lowest(Holders(d, s)) = e
        BY <2>1, <2>2, LowestOfOne
    <2> QED
        BY <1>2, <2>1, <2>3 DEF Contents, Good, HeldOK
<1>3. (\A e \in d.used : d.sector[e] # s) => Contents(d, s) = d.disk[s] /\ Contents(d, s) \in Data(s)
    BY <1>1 DEF Contents, Good, DiskOK
<1> QED
    BY <1>1, <1>2, <1>3

SameContents(d, r) == \A t \in Sectors : Contents(r, t) = Contents(d, t)
NoNewDirt(d, r) ==
    \A e \in Entries : "dirty" \in r.flags[e] => "dirty" \in d.flags[e] /\ r.sector[e] = d.sector[e]
Kept(d, r) == Good(r) /\ SameRest(d, r) /\ SameContents(d, r) /\ NoNewDirt(d, r)

\* One such change after another.
LEMMA KeptAgain ==
    ASSUME NEW a, NEW b, NEW c, Kept(a, b), Kept(b, c)
    PROVE  Kept(a, c)
BY DEF Kept, SameRest, SameContents, NoNewDirt

\* Two caches that hold a sector alike show the same of it.
LEMMA HeldAlike ==
    ASSUME NEW d, Good(d), NEW r, Good(r), NEW t \in Sectors, NEW g \in d.used, g \in r.used,
           d.sector[g] = t, r.sector[g] = t, r.buffer[g] = d.buffer[g]
    PROVE  Contents(r, t) = Contents(d, t)
BY ContentsIs

(***************************************************************************)
(* An entry that is written if it is dirty, and then holds no sector.      *)
(***************************************************************************)
Written(d, r, e) ==
    r.disk = IF "dirty" \in d.flags[e] THEN [d.disk EXCEPT ![d.sector[e]] = d.buffer[e]] ELSE d.disk
Emptied(d, r, e, f) ==
    /\ r.flags = [d.flags EXCEPT ![e] = f]
    /\ \A g \in Entries : g # e => r.sector[g] = d.sector[g] /\ r.buffer[g] = d.buffer[g]
    /\ r.used = d.used \ {e}
    /\ \A n \in 0..(MapSize - 1), g \in Entries : g \in r.map[n] <=> g # e /\ g \in d.map[n]

\* Writing an entry before it is emptied loses nothing.
LEMMA EmptiedKeeps ==
    ASSUME NEW d, Good(d), NEW e \in Entries, NEW f \in {{}, {"buf"}},
           NEW r, r \in Vol, ListOK(r), SameRest(d, r), Written(d, r, e), Emptied(d, r, e, f)
    PROVE  Kept(d, r)
<1>1. /\ d.flags \in [Entries -> SUBSET Flags] /\ d.used \subseteq Entries
      /\ d.sector \in [Entries -> Sectors \cup {Far, NoSector}]
      /\ d.buffer \in [Entries -> Bytes \cup {NoData}] /\ d.disk \in [Sectors -> Bytes]
    BY DEF Good, Vol
<1>2. FlagsOK(r)
    BY <1>1 DEF Good, FlagsOK, States, Emptied
<1>3. UsedOK(r)
    BY <1>1 DEF Good, UsedOK, Emptied
<1>4. MapOK(r)
    BY <1>1 DEF Good, MapOK, Emptied
<1>5. \A g \in d.used : g # e => r.sector[g] = d.sector[g] /\ r.buffer[g] = d.buffer[g]
                                 /\ r.flags[g] = d.flags[g] /\ r.disk[d.sector[g]] = d.disk[d.sector[g]]
    <2> TAKE g \in d.used
    <2> HAVE g # e
    <2>1. r.sector[g] = d.sector[g] /\ r.buffer[g] = d.buffer[g] /\ r.flags[g] = d.flags[g]
        BY <1>1 DEF Emptied
    <2>2. CASE "dirty" \in d.flags[e]
        <3>1. e \in d.used
            BY <2>2 DEF Good, FlagsOK, UsedOK, States
        <3>2. d.sector[e] # d.sector[g]
            BY <3>1 DEF Good, HeldOK
        <3> QED
            BY <1>1, <2>1, <2>2, <3>2 DEF Written
    <2> QED
        BY <2>1, <2>2 DEF Written
<1>6. HeldOK(r)
    BY <1>5 DEF Good, HeldOK, Emptied
<1>7. DiskOK(r)
    <2>1. \A s \in Sectors : r.disk[s] \in Data(s)
        <3> TAKE s \in Sectors
        <3>1. CASE "dirty" \in d.flags[e] /\ s = d.sector[e]
            <4>1. e \in d.used
                BY <3>1 DEF Good, FlagsOK, UsedOK, States
            <4> QED
                BY <1>1, <3>1, <4>1 DEF Good, HeldOK, Written
        <3>2. CASE ~("dirty" \in d.flags[e] /\ s = d.sector[e])
            BY <1>1, <3>2 DEF Good, DiskOK, Written
        <3> QED
            BY <3>1, <3>2
    <2> QED
        BY <2>1 DEF Good, DiskOK, SameRest
<1>8. Good(r)
    BY <1>2, <1>3, <1>4, <1>6, <1>7 DEF Good
<1>9. SameContents(d, r)
    <2> SUFFICES ASSUME NEW t \in Sectors PROVE Contents(r, t) = Contents(d, t)
        BY DEF SameContents
    <2>1. CASE \E g \in d.used : g # e /\ d.sector[g] = t
        <3> PICK g \in d.used : g # e /\ d.sector[g] = t
            BY <2>1
        <3>1. g \in r.used /\ r.sector[g] = t /\ r.buffer[g] = d.buffer[g]
            BY <1>5 DEF Emptied
        <3> QED
            BY <1>8, <3>1, HeldAlike
    <2>2. CASE e \in d.used /\ d.sector[e] = t
        <3>1. \A g \in r.used : r.sector[g] # t
            BY <2>2, <1>5 DEF Good, HeldOK, Emptied
        <3>2. Contents(r, t) = r.disk[t]
            BY <3>1, <1>8, ContentsIs
        <3>3. r.disk[t] = d.buffer[e]
            BY <2>2, <1>1 DEF Good, HeldOK, Written
        <3>4. Contents(d, t) = d.buffer[e]
            BY <2>2, ContentsIs
        <3> QED
            BY <3>2, <3>3, <3>4
    <2>3. CASE \A g \in d.used : d.sector[g] # t
        <3>1. \A g \in r.used : r.sector[g] # t
            BY <2>3, <1>5 DEF Emptied
        <3>2. Contents(r, t) = r.disk[t] /\ Contents(d, t) = d.disk[t]
            BY <3>1, <2>3, <1>8, ContentsIs
        <3>3. "dirty" \in d.flags[e] => e \in d.used
            BY DEF Good, FlagsOK, UsedOK, States
        <3> QED
            BY <2>3, <3>2, <3>3, <1>1 DEF Written
    <2> QED
        BY <2>1, <2>2, <2>3
<1>10. NoNewDirt(d, r)
    BY <1>1 DEF NoNewDirt, Emptied
<1> QED
    BY <1>8, <1>9, <1>10 DEF Kept

(***************************************************************************)
(* An entry that is written if it is dirty, and then filled with a sector. *)
(***************************************************************************)
Loaded(d, r, e, s) ==
    /\ r.flags = [d.flags EXCEPT ![e] = {"inuse"}]
    /\ r.sector = [d.sector EXCEPT ![e] = s]
    /\ r.buffer = [d.buffer EXCEPT ![e] = r.disk[s]]
    /\ r.used = d.used \cup {e}
    /\ \A n \in 0..(MapSize - 1), g \in Entries :
           g \in r.map[n] <=> IF g = e THEN n = MapSector(s) ELSE g \in d.map[n]

\* Filling an entry from the disk shows what was seen before.
LEMMA LoadedKeeps ==
    ASSUME NEW d, Good(d), NEW e \in Entries, NEW s \in Sectors, \A g \in d.used : d.sector[g] # s,
           NEW r, r \in Vol, ListOK(r), SameRest(d, r), Written(d, r, e), Loaded(d, r, e, s)
    PROVE  Kept(d, r)
<1>1. /\ d.flags \in [Entries -> SUBSET Flags] /\ d.used \subseteq Entries
      /\ d.sector \in [Entries -> Sectors \cup {Far, NoSector}]
      /\ d.buffer \in [Entries -> Bytes \cup {NoData}] /\ d.disk \in [Sectors -> Bytes]
    BY DEF Good, Vol
<1>2. FlagsOK(r)
    BY <1>1 DEF Good, FlagsOK, States, Loaded
<1>3. UsedOK(r)
    BY <1>1 DEF Good, UsedOK, Loaded
<1>4. MapOK(r)
    <2>1. \A g \in Entries : r.sector[g] = IF g = e THEN s ELSE d.sector[g]
        BY <1>1 DEF Loaded
    <2>2. \A g \in Entries : g \in r.used <=> g = e \/ g \in d.used
        BY <1>1 DEF Loaded
    <2>3. \A n \in 0..(MapSize - 1), g \in Entries :
              g \in r.map[n] <=> IF g = e THEN n = MapSector(s) ELSE g \in d.map[n]
        BY DEF Loaded
    <2> QED
        BY <2>1, <2>2, <2>3 DEF Good, MapOK
<1>5. \A g \in d.used : g # e => r.sector[g] = d.sector[g] /\ r.buffer[g] = d.buffer[g]
                                 /\ r.flags[g] = d.flags[g] /\ r.disk[d.sector[g]] = d.disk[d.sector[g]]
    <2> TAKE g \in d.used
    <2> HAVE g # e
    <2>1. r.sector[g] = d.sector[g] /\ r.buffer[g] = d.buffer[g] /\ r.flags[g] = d.flags[g]
        BY <1>1 DEF Loaded
    <2>2. CASE "dirty" \in d.flags[e]
        <3>1. e \in d.used
            BY <2>2 DEF Good, FlagsOK, UsedOK, States
        <3>2. d.sector[e] # d.sector[g]
            BY <3>1 DEF Good, HeldOK
        <3> QED
            BY <1>1, <2>1, <2>2, <3>2 DEF Written
    <2> QED
        BY <2>1, <2>2 DEF Written
<1>6. \A t \in Sectors : r.disk[t] \in Data(t)
    <2> TAKE t \in Sectors
    <2>1. CASE "dirty" \in d.flags[e] /\ t = d.sector[e]
        <3>1. e \in d.used
            BY <2>1 DEF Good, FlagsOK, UsedOK, States
        <3> QED
            BY <1>1, <2>1, <3>1 DEF Good, HeldOK, Written
    <2>2. CASE ~("dirty" \in d.flags[e] /\ t = d.sector[e])
        BY <1>1, <2>2 DEF Good, DiskOK, Written
    <2> QED
        BY <2>1, <2>2
<1>7. r.sector[e] = s /\ r.buffer[e] = r.disk[s] /\ r.flags[e] = {"inuse"} /\ e \in r.used
      /\ \A g \in r.used : g # e => g \in d.used
    BY <1>1 DEF Loaded
<1>8. r.disk[s] = d.disk[s]
    <2>1. "dirty" \in d.flags[e] => e \in d.used
        BY DEF Good, FlagsOK, UsedOK, States
    <2> QED
        BY <2>1, <1>1 DEF Written
<1>9. HeldOK(r)
    <2>1. \A g \in r.used : r.sector[g] \in Sectors /\ r.buffer[g] \in Data(r.sector[g])
        BY <1>5, <1>6, <1>7 DEF Good, HeldOK
    <2>2. \A g, h \in r.used : r.sector[g] = r.sector[h] => g = h
        BY <1>5, <1>7 DEF Good, HeldOK
    <2>3. \A g \in r.used : "dirty" \notin r.flags[g] => r.buffer[g] = r.disk[r.sector[g]]
        BY <1>5, <1>7 DEF Good, HeldOK
    <2> QED
        BY <2>1, <2>2, <2>3 DEF HeldOK
<1>10. Good(r)
    BY <1>2, <1>3, <1>4, <1>6, <1>9 DEF Good, DiskOK, SameRest
<1>11. SameContents(d, r)
    <2> SUFFICES ASSUME NEW t \in Sectors PROVE Contents(r, t) = Contents(d, t)
        BY DEF SameContents
    <2>1. CASE \E g \in d.used : g # e /\ d.sector[g] = t
        <3> PICK g \in d.used : g # e /\ d.sector[g] = t
            BY <2>1
        <3>1. g \in r.used /\ r.sector[g] = t /\ r.buffer[g] = d.buffer[g]
            BY <1>5 DEF Loaded
        <3> QED
            BY <1>10, <3>1, HeldAlike
    <2>2. CASE e \in d.used /\ d.sector[e] = t
        <3>1. \A g \in r.used : r.sector[g] # t
            BY <2>2, <1>5, <1>7 DEF Good, HeldOK
        <3>2. Contents(r, t) = r.disk[t]
            BY <3>1, <1>10, ContentsIs
        <3>3. r.disk[t] = d.buffer[e]
            BY <2>2, <1>1 DEF Good, HeldOK, Written
        <3>4. Contents(d, t) = d.buffer[e]
            BY <2>2, ContentsIs
        <3> QED
            BY <3>2, <3>3, <3>4
    <2>3. CASE (\A g \in d.used : d.sector[g] # t) /\ t # s
        <3>1. \A g \in r.used : r.sector[g] # t
            BY <2>3, <1>5, <1>7
        <3>2. Contents(r, t) = r.disk[t] /\ Contents(d, t) = d.disk[t]
            BY <3>1, <2>3, <1>10, ContentsIs
        <3>3. "dirty" \in d.flags[e] => e \in d.used
            BY DEF Good, FlagsOK, UsedOK, States
        <3> QED
            BY <2>3, <3>2, <3>3, <1>1 DEF Written
    <2>4. CASE t = s
        <3>1. Contents(r, t) = r.buffer[e]
            BY <2>4, <1>7, <1>10, ContentsIs
        <3>2. Contents(d, t) = d.disk[t]
            BY <2>4, ContentsIs
        <3> QED
            BY <2>4, <3>1, <3>2, <1>7, <1>8
    <2> QED
        BY <2>1, <2>2, <2>3, <2>4
<1>12. NoNewDirt(d, r)
    BY <1>1 DEF NoNewDirt, Loaded
<1> QED
    BY <1>10, <1>11, <1>12 DEF Kept

(***************************************************************************)
(* cache_sector: nothing the driver can see changes, and if there is an    *)
(* entry it holds the sector and is the last of the list.  The one that    *)
(* was the last before stays, unless it is the only one.                   *)
(***************************************************************************)
SameRoom(d, r) == Len(r.lru) = Len(d.lru)
Had(d, s, p) ==
    /\ Kept(d, p.d) /\ SameRoom(d, p.d)
    /\ p.e \in Entries \cup {NoEntry}
    /\ p.e # NoEntry => p.e \in p.d.used /\ p.d.sector[p.e] = s /\ s \in Sectors
                       /\ LastUsed(d, p.d, p.e)
    /\ p.e = NoEntry => s \in d.bad
    /\ \A g \in d.used : g = d.lru[Len(d.lru)] /\ Len(d.lru) > 1 =>
           g \in p.d.used /\ p.d.sector[g] = d.sector[g]

\* cache_sector: the sector is had or there is none, and nothing else is seen to change.
LEMMA CacheSectorHas ==
    ASSUME NEW d, Good(d), NEW s \in Sectors \cup {Far}
    PROVE  Had(d, s, CacheSector(d, s))
<1> DEFINE found == Found(d, s)
           e == IF found # {} THEN Lowest(found) ELSE Head(d.lru)
           v == Victim(d, s, e).d
           p == CacheSector(d, s)
<1>1. /\ found = {g \in d.used : d.sector[g] = s} /\ found \subseteq Nat
      /\ s = Far => found = {}
    BY FoundIs
<1> HIDE DEF found
<1>2. CASE found # {}
    <2>1. e \in found
        BY <1>1, <1>2, LowestIn
    <2> HIDE DEF e
    <2>2. e \in d.used /\ e \in Entries /\ d.sector[e] = s /\ "buf" \notin d.flags[e]
        BY <1>1, <2>1 DEF Good, Vol, FlagsOK, UsedOK, States
    <2>3. p = Hit(d, e)
        BY <1>2 DEF CacheSector, Filled, Probe, Hit, found, e
    <2> HIDE DEF p
    <2>4. p.d = Touch(d, e) /\ p.e = e
        BY <2>3 DEF Hit
    <2>5. /\ Good(p.d) /\ SameRest(d, p.d)
          /\ p.d.flags = d.flags /\ p.d.sector = d.sector /\ p.d.buffer = d.buffer
          /\ p.d.map = d.map /\ p.d.used = d.used /\ p.d.disk = d.disk
          /\ LastUsed(d, p.d, p.e)
        BY <2>2, <2>4, TouchKeeps
    <2>6. Kept(d, p.d)
        BY <2>5 DEF Kept, SameContents, Contents, Holders, NoNewDirt
    <2>7. e # NoEntry /\ s \in Sectors
        BY <1>1, <1>2, <2>2, EntriesAssumption DEF Entries, NoEntry
    <2> QED
        BY <2>2, <2>4, <2>5, <2>6, <2>7 DEF Had, SameRoom, LastUsed, p
<1>3. CASE found = {}
    <2>1. /\ e \in Entries /\ "buf" \notin d.flags[e]
          /\ \A g \in d.used : g = d.lru[Len(d.lru)] /\ Len(d.lru) > 1 => g # e
        <3>1. Head(d.lru) \in Unlent(d.flags)
            BY ListShortened DEF Good, ListOK
        <3>2. Len(d.lru) \in Nat /\ (Len(d.lru) > 1 => Head(d.lru) = d.lru[1])
            BY LenProperties, EmptySeq, HeadTailProperties DEF Good, ListOK, Listed
        <3>3. Len(d.lru) > 1 => d.lru[Len(d.lru)] # d.lru[1]
            BY <3>2 DEF Good, ListOK, Listed
        <3> QED
            BY <1>3, <3>1, <3>2, <3>3 DEF Unlent
    <2> HIDE DEF e
    <2>2. /\ v \in Vol /\ ListOK(v) /\ SameRest(d, v) /\ LastUsed(d, v, e)
          /\ v.flags = [d.flags EXCEPT ![e] = {"inuse"}]
          /\ v.sector = [d.sector EXCEPT ![e] = s]
          /\ v.buffer = [d.buffer EXCEPT ![e] = NoData]
          /\ v.used = d.used \cup {e}
          /\ \A n \in 0..(MapSize - 1), f \in Entries :
                 f \in v.map[n] <=> IF f = e THEN n = MapSector(s) ELSE f \in d.map[n]
          /\ v.disk = IF "dirty" \in d.flags[e]
                      THEN [d.disk EXCEPT ![d.sector[e]] = d.buffer[e]] ELSE d.disk
        BY <2>1, VictimIs, SMTT(60)
    <2>3. Probe(d, s) = [d |-> v, e |-> e, hit |-> FALSE]
        BY <1>3 DEF Probe, Victim, found, e
    <2> HIDE DEF v
    <2>4. v.bad = d.bad
        BY <2>2 DEF SameRest
    <2>5. /\ d.flags \in [Entries -> SUBSET Flags] /\ d.used \subseteq Entries
          /\ d.sector \in [Entries -> Sectors \cup {Far, NoSector}]
          /\ d.buffer \in [Entries -> Bytes \cup {NoData}] /\ d.disk \in [Sectors -> Bytes]
        BY DEF Good, Vol
    <2>6. v.sector[e] = s /\ v.flags[e] = {"inuse"}
        BY <2>1, <2>2, <2>5
    <2>7. CASE s \in v.bad
        <3> DEFINE r == DiscardEntry(v, e)
        <3>1. p.d = r /\ p.e = NoEntry
            BY <2>3, <2>6, <2>7 DEF CacheSector, Filled, DiscardBuf
        <3>2. /\ r \in Vol /\ SameRest(v, r)
              /\ r.flags = [v.flags EXCEPT ![e] = {}]
              /\ r.sector = [v.sector EXCEPT ![e] = NoSector]
              /\ r.buffer = [v.buffer EXCEPT ![e] = NoData]
              /\ r.lru = v.lru /\ r.disk = v.disk /\ r.used = v.used \ {e}
              /\ r.map = [v.map EXCEPT ![MapSector(s)] = @ \ {e}]
            <4>1. v.sector[e] \in Sectors \cup {Far} /\ v \in Vol /\ v.sector[e] = s
                BY <2>2, <2>6
            <4>2. r = DiscardEntry(v, e)
                OBVIOUS
            <4> HIDE DEF r
            <4> QED
                BY <2>1, <4>1, <4>2, DiscardEntryIs, SMTT(60)
        <3> HIDE DEF r, p
        <3>3. \A n \in 0..(MapSize - 1), g \in Entries : g \in r.map[n] <=> g # e /\ g \in d.map[n]
            <4> TAKE n \in 0..(MapSize - 1), g \in Entries
            <4>1. r.map[n] = IF n = MapSector(s) THEN v.map[n] \ {e} ELSE v.map[n]
                <5>1. v.map \in [0..(MapSize - 1) -> SUBSET Entries]
                    BY <2>2 DEF Vol
                <5> QED
                    BY <3>2, <5>1
            <4> QED
                BY <2>2, <4>1
        <3>4. r.used = d.used \ {e}
            BY <2>2, <3>2
        <3>5. r.flags = [d.flags EXCEPT ![e] = {}] /\ r.sector = [d.sector EXCEPT ![e] = NoSector]
              /\ r.buffer = [d.buffer EXCEPT ![e] = NoData]
            BY <2>2, <2>5, <3>2, SMTT(60)
        <3>6. Emptied(d, r, e, {})
            BY <2>5, <3>3, <3>4, <3>5 DEF Emptied
        <3>7. Unlent(r.flags) = Unlent(v.flags)
            BY <2>1, <2>2, <2>5, <3>2 DEF Unlent
        <3>8. ListOK(r) /\ SameRest(d, r) /\ Written(d, r, e)
            BY <2>2, <3>2, <3>7 DEF ListOK, SameRest, Written
        <3>9. Kept(d, r)
            BY <2>1, <3>2, <3>6, <3>8, EmptiedKeeps
        <3>10. SameRoom(d, r)
            BY <2>2, <3>2 DEF LastUsed, SameRoom
        <3>11. \A g \in d.used : g # e => g \in r.used /\ r.sector[g] = d.sector[g]
            BY <2>5, <3>6 DEF Emptied
        <3> QED
            BY <2>1, <2>4, <2>7, <3>1, <3>9, <3>10, <3>11 DEF Had, p
    <2>8. CASE s \notin v.bad
        <3>1. s \in Sectors
            BY <2>4, <2>8 DEF Good, DiskOK
        <3> DEFINE r == [v EXCEPT !.buffer[e] = v.disk[s]]
                   b == [v.buffer EXCEPT ![e] = v.disk[s]]
        <3>2. p.d = r /\ p.e = e
            BY <2>3, <2>8 DEF CacheSector, Filled
        <3>3. r = [v EXCEPT !.buffer = b]
            BY <2>2 DEF Vol
        <3>4. b \in [Entries -> Bytes \cup {NoData}]
            BY <2>1, <2>2, <3>1 DEF Vol
        <3> HIDE DEF r, b, p
        <3>5. /\ r \in Vol /\ SameRest(v, r) /\ r.buffer = b
              /\ r.flags = v.flags /\ r.sector = v.sector /\ r.lru = v.lru
              /\ r.map = v.map /\ r.used = v.used /\ r.disk = v.disk
            BY <2>2, <3>3, <3>4 DEF Vol, SameRest
        <3>6. r.buffer = [d.buffer EXCEPT ![e] = r.disk[s]]
            BY <2>1, <2>2, <2>5, <3>5 DEF b
        <3>7. Loaded(d, r, e, s)
            BY <2>2, <3>5, <3>6 DEF Loaded
        <3>8. ListOK(r) /\ SameRest(d, r) /\ Written(d, r, e)
            BY <2>2, <3>5 DEF ListOK, SameRest, Written
        <3>9. \A g \in d.used : d.sector[g] # s
            BY <1>1, <1>3
        <3>10. Kept(d, r)
            BY <2>1, <3>1, <3>5, <3>7, <3>8, <3>9, LoadedKeeps
        <3>11. e \in r.used /\ r.sector[e] = s
            BY <2>1, <2>2, <2>5, <3>5
        <3>12. e # NoEntry
            BY <2>1, EntriesAssumption DEF Entries, NoEntry
        <3>13. LastUsed(d, r, e) /\ SameRoom(d, r)
            BY <2>2, <3>5 DEF LastUsed, SameRoom
        <3>14. \A g \in d.used : g # e => g \in r.used /\ r.sector[g] = d.sector[g]
            BY <2>2, <2>5, <3>5
        <3> QED
            BY <2>1, <3>1, <3>2, <3>10, <3>11, <3>12, <3>13, <3>14 DEF Had, p
    <2> QED
        BY <2>7, <2>8
<1> QED
    BY <1>2, <1>3

(***************************************************************************)
(* The other operations.  One that writes leaves the other sectors alone.  *)
(***************************************************************************)
Changed(d, r, s) ==
    /\ Good(r)
    /\ \A t \in Sectors : t # s => Contents(r, t) = Contents(d, t)
    /\ \A e \in Entries : "dirty" \in r.flags[e] =>
           r.sector[e] = s \/ ("dirty" \in d.flags[e] /\ r.sector[e] = d.sector[e])

\* dc_dirty_buf: the data are seen, in this sector only.
LEMMA DirtyBufChanges ==
    ASSUME NEW d, Good(d), NEW e \in d.used, NEW s \in Sectors, d.sector[e] = s, NEW data \in Data(s),
           NEW r, r = DirtyBuf(d, e, data)
    PROVE  /\ Changed(d, r, s) /\ SameRest(d, r) /\ Contents(r, s) = data
           /\ r.lru = d.lru /\ r.used = d.used /\ r.sector = d.sector
<1> DEFINE b == [d.buffer EXCEPT ![e] = data]
           f == [d.flags EXCEPT ![e] = {"inuse", "dirty"}]
<1>1. /\ d.flags \in [Entries -> SUBSET Flags] /\ d.used \subseteq Entries /\ e \in Entries
      /\ d.sector \in [Entries -> Sectors \cup {Far, NoSector}]
      /\ d.buffer \in [Entries -> Bytes \cup {NoData}] /\ d.disk \in [Sectors -> Bytes]
    BY DEF Good, Vol
<1>2. d.flags[e] \in {{"inuse"}, {"inuse", "dirty"}}
    BY <1>1 DEF Good, FlagsOK, UsedOK, States
<1>3. r = [d EXCEPT !.buffer = b, !.flags = f]
    <2>1. (IF "inuse" \in d.flags[e] THEN d.flags[e] \cup {"dirty"} ELSE d.flags[e]) = {"inuse", "dirty"}
        BY <1>2
    <2>2. r = [d EXCEPT !.buffer[e] = data, !.flags[e] = {"inuse", "dirty"}]
        BY <1>1, <2>1 DEF DirtyBuf, Good, Vol
    <2> QED
        BY <2>2 DEF Good, Vol
<1>4. b \in [Entries -> Bytes \cup {NoData}] /\ f \in [Entries -> SUBSET Flags]
    <2>1. data \in Bytes
        BY DEF Bytes
    <2>2. {"inuse", "dirty"} \in SUBSET Flags
        BY DEF Flags
    <2> QED
        BY <1>1, <2>1, <2>2
<1> HIDE DEF b, f
<1>5. /\ r \in Vol /\ SameRest(d, r) /\ r.buffer = b /\ r.flags = f
      /\ r.sector = d.sector /\ r.lru = d.lru /\ r.map = d.map /\ r.used = d.used /\ r.disk = d.disk
    BY <1>3, <1>4 DEF Good, Vol, SameRest
<1>6. \A g \in Entries : /\ g # e => r.flags[g] = d.flags[g] /\ r.buffer[g] = d.buffer[g]
                         /\ g = e => r.flags[g] = {"inuse", "dirty"} /\ r.buffer[g] = data
    BY <1>1, <1>5 DEF b, f
<1>7. Unlent(r.flags) = Unlent(d.flags)
    BY <1>2, <1>6 DEF Unlent
<1>8. ListOK(r)
    BY <1>5, <1>7 DEF Good, ListOK
<1>9. FlagsOK(r)
    BY <1>6 DEF Good, FlagsOK, States
<1>10. UsedOK(r)
    BY <1>1, <1>2, <1>5, <1>6 DEF Good, UsedOK
<1>11. MapOK(r) /\ DiskOK(r)
    BY <1>5 DEF Good, MapOK, DiskOK, SameRest
<1>12. HeldOK(r)
    BY <1>1, <1>5, <1>6 DEF Good, HeldOK
<1>13. Good(r)
    BY <1>5, <1>8, <1>9, <1>10, <1>11, <1>12 DEF Good
<1>14. \A t \in Sectors : t # s => Contents(r, t) = Contents(d, t)
    <2> TAKE t \in Sectors
    <2> HAVE t # s
    <2>1. CASE \E g \in d.used : d.sector[g] = t
        <3> PICK g \in d.used : d.sector[g] = t
            BY <2>1
        <3>1. g \in r.used /\ r.sector[g] = t /\ r.buffer[g] = d.buffer[g]
            BY <1>1, <1>5, <1>6
        <3> QED
            BY <1>13, <3>1, HeldAlike
    <2>2. CASE \A g \in d.used : d.sector[g] # t
        <3>1. \A g \in r.used : r.sector[g] # t
            BY <2>2, <1>5
        <3>2. Contents(r, t) = r.disk[t]
            BY <3>1, <1>13, ContentsIs
        <3>3. Contents(d, t) = d.disk[t]
            BY <2>2, ContentsIs
        <3> QED
            BY <3>2, <3>3, <1>5
    <2> QED
        BY <2>1, <2>2
<1>15. Contents(r, s) = data
    BY <1>1, <1>5, <1>6, <1>13, ContentsIs
<1>16. \A g \in Entries : "dirty" \in r.flags[g] =>
           r.sector[g] = s \/ ("dirty" \in d.flags[g] /\ r.sector[g] = d.sector[g])
    BY <1>5, <1>6
<1> QED
    BY <1>5, <1>13, <1>14, <1>15, <1>16 DEF Changed

Clean(d) == \A e \in Entries : "dirty" \notin d.flags[e]

\* dc_commit_all: nothing is dirty, and nothing is seen to change.
LEMMA CommitAllCleans ==
    ASSUME NEW d, Good(d), NEW r, r = CommitAll(d)
    PROVE  Kept(d, r) /\ SameRoom(d, r) /\ Clean(r)
<1> DEFINE dirty == {e \in d.used : "dirty" \in d.flags[e]}
           holder(s) == CHOOSE e \in dirty : d.sector[e] = s
           k == [s \in Sectors |-> IF \E e \in dirty : d.sector[e] = s
                                   THEN d.buffer[holder(s)] ELSE d.disk[s]]
           f == [e \in Entries |-> IF e \in dirty THEN d.flags[e] \ {"dirty"} ELSE d.flags[e]]
<1>1. /\ d.flags \in [Entries -> SUBSET Flags] /\ d.used \subseteq Entries
      /\ d.sector \in [Entries -> Sectors \cup {Far, NoSector}]
      /\ d.buffer \in [Entries -> Bytes \cup {NoData}] /\ d.disk \in [Sectors -> Bytes]
    BY DEF Good, Vol
<1>2. r = [d EXCEPT !.disk = k, !.flags = f]
    BY <1>1 DEF CommitAll, Good, Vol
<1>3. \A e \in dirty : holder(d.sector[e]) = e
    BY DEF Good, HeldOK
<1>4. \A s \in Sectors :
          /\ k[s] \in Data(s)
          /\ \A e \in d.used : d.sector[e] = s => k[s] = d.buffer[e]
          /\ (\A e \in d.used : d.sector[e] # s) => k[s] = d.disk[s]
    <2> TAKE s \in Sectors
    <2>1. ASSUME NEW e \in d.used, d.sector[e] = s
          PROVE  k[s] = d.buffer[e]
        <3>1. CASE e \in dirty
            <4>1. holder(s) = e
                BY <2>1, <3>1, <1>3
            <4> HIDE DEF holder
            <4>2. k[s] = d.buffer[holder(s)]
                BY <2>1, <3>1
            <4> QED
                BY <4>1, <4>2
        <3>2. CASE e \notin dirty
            <4>1. \A g \in dirty : d.sector[g] # s
                BY <2>1, <3>2 DEF Good, HeldOK
            <4>2. k[s] = d.disk[s]
                BY <4>1
            <4> QED
                BY <2>1, <3>2, <4>2 DEF Good, HeldOK
        <3> QED
            BY <3>1, <3>2
    <2>2. ASSUME \A e \in d.used : d.sector[e] # s
          PROVE  k[s] = d.disk[s]
        BY <2>2
    <2> HIDE DEF k
    <2> QED
        BY <2>1, <2>2 DEF Good, HeldOK, DiskOK
<1>5. \A e \in Entries : f[e] = d.flags[e] \ {"dirty"}
    BY <1>1 DEF Good, UsedOK, FlagsOK, States
<1>6. k \in [Sectors -> Bytes] /\ f \in [Entries -> SUBSET Flags]
    <2>1. DOMAIN k = Sectors /\ k = [s \in DOMAIN k |-> k[s]]
        OBVIOUS
    <2> HIDE DEF k
    <2>2. \A s \in Sectors : k[s] \in Bytes
        BY <1>4 DEF Bytes
    <2>3. k \in [Sectors -> Bytes]
        BY <2>1, <2>2
    <2> QED
        BY <1>1, <1>5, <2>3
<1> HIDE DEF k, f, dirty, holder
<1>7. /\ r \in Vol /\ SameRest(d, r) /\ r.disk = k /\ r.flags = f /\ r.buffer = d.buffer
      /\ r.sector = d.sector /\ r.lru = d.lru /\ r.map = d.map /\ r.used = d.used
    BY <1>2, <1>6 DEF Good, Vol, SameRest
<1>8. Unlent(r.flags) = Unlent(d.flags)
    BY <1>5, <1>7 DEF Unlent
<1>9. ListOK(r)
    BY <1>7, <1>8 DEF Good, ListOK
<1>10. FlagsOK(r)
    BY <1>5, <1>7 DEF Good, FlagsOK, States
<1>11. UsedOK(r)
    BY <1>5, <1>7 DEF Good, UsedOK
<1>12. MapOK(r)
    BY <1>7 DEF Good, MapOK
<1>13. DiskOK(r) /\ HeldOK(r)
    BY <1>4, <1>7 DEF Good, HeldOK, DiskOK, SameRest
<1>14. Good(r)
    BY <1>7, <1>9, <1>10, <1>11, <1>12, <1>13 DEF Good
<1>15. SameContents(d, r)
    <2> SUFFICES ASSUME NEW t \in Sectors PROVE Contents(r, t) = Contents(d, t)
        BY DEF SameContents
    <2>1. CASE \E g \in d.used : d.sector[g] = t
        <3> PICK g \in d.used : d.sector[g] = t
            BY <2>1
        <3>1. g \in r.used /\ r.sector[g] = t /\ r.buffer[g] = d.buffer[g]
            BY <1>7
        <3> QED
            BY <1>14, <3>1, HeldAlike
    <2>2. CASE \A g \in d.used : d.sector[g] # t
        <3>1. \A g \in r.used : r.sector[g] # t
            BY <2>2, <1>7
        <3>2. Contents(r, t) = r.disk[t]
            BY <3>1, <1>14, ContentsIs
        <3>3. Contents(d, t) = d.disk[t]
            BY <2>2, ContentsIs
        <3> QED
            BY <3>2, <3>3, <2>2, <1>4, <1>7
    <2> QED
        BY <2>1, <2>2
<1>16. Clean(r)
    BY <1>5, <1>7 DEF Clean
<1> QED
    BY <1>7, <1>14, <1>15, <1>16 DEF Kept, SameRoom, NoNewDirt, Clean

\* dc_discard_all: no sector is held; what was not dirty stays as it was.
LEMMA DiscardAllEmpties ==
    ASSUME NEW d, Good(d), NEW r, r = DiscardAll(d)
    PROVE  /\ Good(r) /\ SameRest(d, r) /\ SameRoom(d, r) /\ Clean(r)
           /\ Clean(d) => SameContents(d, r)
<1> DEFINE f == [e \in Entries |-> IF e \in d.used THEN {} ELSE d.flags[e]]
           s == [e \in Entries |-> IF e \in d.used THEN NoSector ELSE d.sector[e]]
           b == [e \in Entries |-> IF e \in d.used THEN NoData ELSE d.buffer[e]]
           m == [n \in 0..(MapSize - 1) |-> d.map[n] \ {e \in d.used : MapSector(d.sector[e]) = n}]
           u == {}
<1>1. /\ d.flags \in [Entries -> SUBSET Flags] /\ d.used \subseteq Entries
      /\ d.sector \in [Entries -> Sectors \cup {Far, NoSector}]
      /\ d.buffer \in [Entries -> Bytes \cup {NoData}]
      /\ d.map \in [0..(MapSize - 1) -> SUBSET Entries]
    BY DEF Good, Vol
<1>2. r = [d EXCEPT !.flags = f, !.sector = s, !.buffer = b, !.map = m, !.used = u]
    BY <1>1 DEF DiscardAll, Good, Vol
<1>3. /\ f \in [Entries -> SUBSET Flags] /\ s \in [Entries -> Sectors \cup {Far, NoSector}]
      /\ b \in [Entries -> Bytes \cup {NoData}] /\ m \in [0..(MapSize - 1) -> SUBSET Entries]
      /\ u \in SUBSET Entries
    BY <1>1
<1>4. \A e \in Entries : f[e] \in {{}, {"buf"}} /\ ("buf" \in f[e] <=> "buf" \in d.flags[e])
    BY <1>1 DEF Good, UsedOK, FlagsOK, States
<1>5. \A n \in 0..(MapSize - 1), e \in Entries : e \notin m[n]
    BY <1>1 DEF Good, MapOK
<1> HIDE DEF f, s, b, m, u
<1>6. /\ r \in Vol /\ SameRest(d, r) /\ r.flags = f /\ r.map = m /\ r.used = u
      /\ r.lru = d.lru /\ r.disk = d.disk
    BY <1>2, <1>3 DEF Good, Vol, SameRest
<1>7. Unlent(r.flags) = Unlent(d.flags)
    BY <1>4, <1>6 DEF Unlent
<1>8. ListOK(r)
    BY <1>6, <1>7 DEF Good, ListOK
<1>9. FlagsOK(r) /\ UsedOK(r)
    BY <1>4, <1>6 DEF FlagsOK, UsedOK, States, u
<1>10. MapOK(r)
    BY <1>5, <1>6 DEF MapOK, u
<1>11. HeldOK(r) /\ DiskOK(r)
    BY <1>6 DEF HeldOK, u, Good, DiskOK, SameRest
<1>12. Good(r)
    BY <1>6, <1>8, <1>9, <1>10, <1>11 DEF Good
<1>13. Clean(d) => SameContents(d, r)
    <2> SUFFICES ASSUME Clean(d), NEW t \in Sectors PROVE Contents(r, t) = Contents(d, t)
        BY DEF SameContents
    <2>1. Contents(r, t) = d.disk[t]
        BY <1>6, <1>12, ContentsIs DEF u
    <2>2. ASSUME NEW e \in d.used, d.sector[e] = t
          PROVE  Contents(d, t) = d.disk[t]
        <3>1. d.buffer[e] = d.disk[t]
            BY <1>1, <2>2 DEF Clean, Good, HeldOK
        <3> QED
            BY <2>2, <3>1, ContentsIs
    <2>3. CASE \A e \in d.used : d.sector[e] # t
        BY <2>1, <2>3, ContentsIs
    <2> QED
        BY <2>1, <2>2, <2>3
<1> QED
    BY <1>4, <1>6, <1>12, <1>13 DEF Clean, SameRoom

\* dc_get_buffer: an entry is lent, and no dirty sector lost with it.
LEMMA GetBufferKeeps ==
    ASSUME NEW d, Good(d), CanLend(d), NEW r, r = GetBuffer(d)
    PROVE  Kept(d, r) /\ Len(r.lru) = Len(d.lru) - 1
<1> DEFINE e == Head(d.lru)
           l == Tail(d.lru)
           c == [d EXCEPT !.lru = l]
           w == WriteBack(c, e)
           x == Unlisted(w, e)
           f == {"buf"}
           F == [x.flags EXCEPT ![e] = f]
<1>1. /\ e \in Unlent(d.flags) /\ Listed(l, Unlent(d.flags) \ {e}) /\ l # <<>>
      /\ Len(l) = Len(d.lru) - 1
    BY ListShortened DEF Good, ListOK, CanLend
<1>2. r = [x EXCEPT !.flags[e] = f]
    BY DEF GetBuffer
<1> HIDE DEF e, l
<1>3. e \in Entries /\ "buf" \notin d.flags[e]
    BY <1>1 DEF Unlent
<1>4. /\ c \in Vol /\ SameRest(d, c) /\ c.lru = l
      /\ c.flags = d.flags /\ c.sector = d.sector /\ c.buffer = d.buffer
      /\ c.map = d.map /\ c.used = d.used /\ c.disk = d.disk
    BY <1>1 DEF Good, Vol, SameRest, Listed
<1> HIDE DEF c
<1>5. FlagsOK(c) /\ UsedOK(c) /\ HeldOK(c) /\ MapOK(c)
    BY <1>4 DEF Good, FlagsOK, UsedOK, HeldOK, MapOK
<1>6. /\ w \in Vol /\ SameRest(c, w)
      /\ w.flags = c.flags /\ w.sector = c.sector /\ w.buffer = c.buffer
      /\ w.lru = c.lru /\ w.map = c.map /\ w.used = c.used
      /\ w.disk = IF "dirty" \in c.flags[e]
                  THEN [c.disk EXCEPT ![c.sector[e]] = c.buffer[e]] ELSE c.disk
    BY <1>3, <1>4, <1>5, WriteBackIs
<1> HIDE DEF w
<1>7. /\ x \in Vol /\ SameRest(w, x) /\ x.lru = w.lru /\ x.disk = w.disk
      /\ \A g \in Entries : g # e => /\ x.flags[g] = w.flags[g]
                                     /\ x.sector[g] = w.sector[g] /\ x.buffer[g] = w.buffer[g]
      /\ x.used = w.used \ {e}
      /\ \A n \in 0..(MapSize - 1), g \in Entries : g \in x.map[n] <=> g # e /\ g \in w.map[n]
    <2>1. CASE w.flags[e] = {}
        <3>1. x = w
            BY <2>1 DEF Unlisted
        <3>2. e \notin w.used /\ \A n \in 0..(MapSize - 1) : e \notin w.map[n]
            BY <2>1, <1>3, <1>5, <1>6 DEF UsedOK, MapOK
        <3> HIDE DEF x
        <3> QED
            BY <1>6, <3>1, <3>2 DEF SameRest
    <2>2. CASE w.flags[e] # {}
        <3>1. x = DiscardEntry(w, e)
            BY <2>2 DEF Unlisted
        <3>2. e \in w.used
            BY <2>2, <1>3, <1>4, <1>5, <1>6 DEF FlagsOK, UsedOK, States
        <3> HIDE DEF x
        <3>3. PICK q \in Sectors \cup {Far} : w.sector[e] = q
            BY <3>2, <1>5, <1>6 DEF HeldOK
        <3>4. w \in Vol
            BY <1>6
        <3>5. /\ x \in Vol /\ SameRest(w, x)
              /\ x.flags = [w.flags EXCEPT ![e] = {}]
              /\ x.sector = [w.sector EXCEPT ![e] = NoSector]
              /\ x.buffer = [w.buffer EXCEPT ![e] = NoData]
              /\ x.lru = w.lru /\ x.disk = w.disk /\ x.used = w.used \ {e}
              /\ x.map = [w.map EXCEPT ![MapSector(q)] = @ \ {e}]
            BY <1>3, <3>1, <3>3, <3>4, DiscardEntryIs, SMTT(60)
        <3>6. \A n \in 0..(MapSize - 1), g \in Entries : g \in x.map[n] <=> g # e /\ g \in w.map[n]
            <4> TAKE n \in 0..(MapSize - 1), g \in Entries
            <4>1. x.map[n] = IF n = MapSector(q) THEN w.map[n] \ {e} ELSE w.map[n]
                <5>1. w.map \in [0..(MapSize - 1) -> SUBSET Entries]
                    BY <1>6 DEF Vol
                <5> QED
                    BY <3>5, <5>1
            <4>2. n # MapSector(q) => e \notin w.map[n]
                BY <1>3, <1>5, <1>6, <3>3 DEF MapOK
            <4> QED
                BY <4>1, <4>2
        <3>7. \A g \in Entries : g # e => /\ x.flags[g] = w.flags[g]
                                          /\ x.sector[g] = w.sector[g] /\ x.buffer[g] = w.buffer[g]
            <4>1. /\ w.flags \in [Entries -> SUBSET Flags]
                  /\ w.sector \in [Entries -> Sectors \cup {Far, NoSector}]
                  /\ w.buffer \in [Entries -> Bytes \cup {NoData}]
                BY <1>6 DEF Vol
            <4> QED
                BY <3>5, <4>1
        <3> QED
            BY <3>5, <3>6, <3>7
    <2> QED
        BY <2>1, <2>2
<1> HIDE DEF x
<1>8. F \in [Entries -> SUBSET Flags] /\ r = [x EXCEPT !.flags = F]
    BY <1>2, <1>7 DEF Vol, Flags
<1>9. \A g \in Entries : F[g] = IF g = e THEN f ELSE d.flags[g]
    BY <1>4, <1>6, <1>7 DEF Vol
<1> HIDE DEF F
<1>10. /\ r \in Vol /\ SameRest(x, r) /\ r.flags = F /\ r.sector = x.sector /\ r.buffer = x.buffer
       /\ r.lru = x.lru /\ r.map = x.map /\ r.used = x.used /\ r.disk = x.disk
    BY <1>7, <1>8 DEF Vol, SameRest
<1>11. r.flags = [d.flags EXCEPT ![e] = f]
    <2>1. d.flags \in [Entries -> SUBSET Flags]
        BY DEF Good, Vol
    <2> QED
        BY <1>8, <1>9, <1>10, <2>1
<1>12. Emptied(d, r, e, f)
    BY <1>4, <1>6, <1>7, <1>10, <1>11 DEF Emptied
<1>13. Unlent(r.flags) = Unlent(d.flags) \ {e}
    BY <1>9, <1>10 DEF Unlent
<1>14. ListOK(r) /\ SameRest(d, r) /\ Written(d, r, e)
    BY <1>1, <1>4, <1>6, <1>7, <1>10, <1>13 DEF ListOK, SameRest, Written
<1>15. Kept(d, r)
    BY <1>3, <1>10, <1>12, <1>14, EmptiedKeeps
<1> QED
    BY <1>1, <1>4, <1>6, <1>7, <1>10, <1>15

\* dc_release_buffer: an entry comes back, empty.
LEMMA ReleaseBufferKeeps ==
    ASSUME NEW d, Good(d), NEW e \in Entries, "buf" \in d.flags[e], NEW r, r = ReleaseBuffer(d, e)
    PROVE  Kept(d, r) /\ Len(r.lru) = Len(d.lru) + 1
<1> DEFINE l == <<e>> \o d.lru
           f == [d.flags EXCEPT ![e] = {}]
<1>1. r = [d EXCEPT !.flags = f, !.lru = l]
    BY DEF ReleaseBuffer, Good, Vol
<1>2. Listed(l, Unlent(d.flags) \cup {e}) /\ l # <<>> /\ Len(l) = Len(d.lru) + 1
    BY ListLengthened DEF Good, ListOK, Unlent
<1>3. f \in [Entries -> SUBSET Flags] /\ \A g \in Entries : f[g] = IF g = e THEN {} ELSE d.flags[g]
    BY DEF Good, Vol
<1> HIDE DEF l, f
<1>4. /\ r \in Vol /\ SameRest(d, r) /\ r.flags = f /\ r.lru = l
      /\ r.sector = d.sector /\ r.buffer = d.buffer
      /\ r.map = d.map /\ r.used = d.used /\ r.disk = d.disk
    BY <1>1, <1>2, <1>3, ZenonT(60) DEF Good, Vol, SameRest, Listed
<1>5. Unlent(r.flags) = Unlent(d.flags) \cup {e}
    BY <1>3, <1>4 DEF Unlent
<1>6. "inuse" \notin d.flags[e]
    BY DEF Good, FlagsOK, States
<1>7. ListOK(r) /\ FlagsOK(r) /\ UsedOK(r)
    BY <1>2, <1>3, <1>4, <1>5, <1>6 DEF Good, ListOK, FlagsOK, UsedOK, States
<1>8. MapOK(r) /\ DiskOK(r)
    BY <1>4 DEF Good, MapOK, DiskOK, SameRest
<1>9. \A g \in d.used : g # e /\ r.flags[g] = d.flags[g]
    BY <1>3, <1>4, <1>6 DEF Good, UsedOK
<1>10. HeldOK(r)
    BY <1>4, <1>9 DEF Good, HeldOK
<1>11. Good(r)
    BY <1>4, <1>7, <1>8, <1>10 DEF Good
<1>12. SameContents(d, r)
    <2> SUFFICES ASSUME NEW t \in Sectors PROVE Contents(r, t) = Contents(d, t)
        BY DEF SameContents
    <2>1. Holders(r, t) = Holders(d, t)
        <3>1. Holders(r, t) = {g \in r.used : r.sector[g] = t} /\ Holders(d, t) = {g \in d.used : d.sector[g] = t}
            BY <1>11, ContentsIs
        <3> QED
            BY <1>4, <3>1
    <2> QED
        BY <1>4, <2>1 DEF Contents
<1>13. NoNewDirt(d, r)
    BY <1>3, <1>4 DEF NoNewDirt
<1> QED
    BY <1>2, <1>4, <1>11, <1>12, <1>13 DEF Kept

(***************************************************************************)
(* What the driver's operators do to the volume: it stays sound, only the  *)
(* sectors in S may change, and only they may become dirty.                *)
(***************************************************************************)
Moves(d, r, S) ==
    /\ Good(r) /\ r.bad = d.bad /\ SameRoom(d, r)
    /\ \A t \in Sectors : t \notin S => Contents(r, t) = Contents(d, t)
    /\ \A e \in Entries : "dirty" \in r.flags[e] =>
           r.sector[e] \in S \/ ("dirty" \in d.flags[e] /\ r.sector[e] = d.sector[e])

\* A volume that is seen as it was has moved nowhere.
LEMMA KeptMoves ==
    ASSUME NEW d, NEW r, Kept(d, r), SameRoom(d, r), NEW S
    PROVE  Moves(d, r, S)
BY DEF Kept, Moves, SameRest, SameContents, NoNewDirt

\* Nothing moves.
LEMMA StillMoves ==
    ASSUME NEW d, Good(d), NEW S
    PROVE  Moves(d, d, S)
BY DEF Moves, SameRoom

\* Two moves in the same sectors.
LEMMA MovesAgain ==
    ASSUME NEW a, NEW b, NEW c, NEW S, Moves(a, b, S), Moves(b, c, S)
    PROVE  Moves(a, c, S)
BY DEF Moves, SameRoom

\* A move in some sectors is one in more.
LEMMA MovesMore ==
    ASSUME NEW d, NEW r, NEW S, NEW T, Moves(d, r, S), S \subseteq T
    PROVE  Moves(d, r, T)
BY DEF Moves

\* A sector written.
LEMMA DirtyBufMoves ==
    ASSUME NEW d, Good(d), NEW e \in d.used, NEW s \in Sectors, d.sector[e] = s, NEW data \in Data(s)
    PROVE  Moves(d, DirtyBuf(d, e, data), {s})
<1> DEFINE r == DirtyBuf(d, e, data)
<1>1. Changed(d, r, s) /\ SameRest(d, r) /\ r.lru = d.lru
    BY DirtyBufChanges
<1> HIDE DEF r
<1>2. Moves(d, r, {s})
    BY <1>1 DEF Changed, SameRest, Moves, SameRoom
<1> QED
    BY <1>2 DEF r

\* The driver's own fields are not the cache's concern.
LEMMA RestMoves ==
    ASSUME NEW d, Good(d), NEW r, r \in Vol, r.bad = d.bad,
           r.flags = d.flags, r.sector = d.sector, r.buffer = d.buffer, r.lru = d.lru,
           r.map = d.map, r.used = d.used, r.disk = d.disk, NEW S
    PROVE  Moves(d, r, S)
<1>1. Good(r)
    BY DEF Good, ListOK, FlagsOK, UsedOK, MapOK, HeldOK, DiskOK
<1>2. \A t \in Sectors : Contents(r, t) = Contents(d, t)
    BY DEF Contents, Holders
<1> QED
    BY <1>1, <1>2 DEF Moves, SameRoom

\* The hint for the next search.
LEMMA NextMoves ==
    ASSUME NEW d, Good(d), NEW c \in Nat, NEW S
    PROVE  Moves(d, [d EXCEPT !.next = c], S)
<1> DEFINE r == [d EXCEPT !.next = c]
<1>1. /\ r \in Vol /\ r.bad = d.bad
      /\ r.flags = d.flags /\ r.sector = d.sector /\ r.buffer = d.buffer /\ r.lru = d.lru
      /\ r.map = d.map /\ r.used = d.used /\ r.disk = d.disk
    BY DEF Good, Vol
<1> HIDE DEF r
<1>2. Moves(d, r, S)
    BY <1>1, RestMoves
<1> QED
    BY <1>2 DEF r

\* The count of free clusters.
LEMMA FreeMoves ==
    ASSUME NEW d, Good(d), NEW n \in Nat, NEW S
    PROVE  Moves(d, [d EXCEPT !.free = n], S)
<1> DEFINE r == [d EXCEPT !.free = n]
<1>1. /\ r \in Vol /\ r.bad = d.bad
      /\ r.flags = d.flags /\ r.sector = d.sector /\ r.buffer = d.buffer /\ r.lru = d.lru
      /\ r.map = d.map /\ r.used = d.used /\ r.disk = d.disk
    BY DEF Good, Vol
<1> HIDE DEF r
<1>2. Moves(d, r, S)
    BY <1>1, RestMoves
<1> QED
    BY <1>2 DEF r

\* The panic of the driver, as a flag.
LEMMA PanicMoves ==
    ASSUME NEW d, Good(d), NEW S
    PROVE  Moves(d, [d EXCEPT !.panic = TRUE], S)
<1> DEFINE r == [d EXCEPT !.panic = TRUE]
<1>1. /\ r \in Vol /\ r.bad = d.bad
      /\ r.flags = d.flags /\ r.sector = d.sector /\ r.buffer = d.buffer /\ r.lru = d.lru
      /\ r.map = d.map /\ r.used = d.used /\ r.disk = d.disk
    BY DEF Good, Vol
<1> HIDE DEF r
<1>2. Moves(d, r, S)
    BY <1>1, RestMoves
<1> QED
    BY <1>2 DEF r

\* get_next_cluster32: an entry of the table as it is seen, or an error.
LEMMA TableData ==
    ASSUME NEW d, Good(d), NEW c \in Link, c # Failed
    PROVE  Contents(d, SectorOf(c)) \in [Slots -> Word] /\ c % PerSector \in Slots
<1>1. SectorOf(c) \in FatSectors /\ c % PerSector \in Slots
    BY SectorOfLink
<1>2. Contents(d, SectorOf(c)) \in Data(SectorOf(c))
    BY <1>1, ContentsIs, Geometry
<1> QED
    BY <1>1, <1>2, Geometry DEF Data

\* get_next_cluster32 reads: nothing moves.
LEMMA GetNextIs ==
    ASSUME NEW d, Good(d), NEW c \in Link
    PROVE  /\ Moves(d, GetNext(d, c).d, {}) /\ GetNext(d, c).r \in Link
           /\ GetNext(d, c).r # Failed => c # Failed
<1> DEFINE s == SectorOf(c)
           p == CacheSector(d, s)
<1>1. s \in FatSectors \cup {Far} /\ c % PerSector \in Slots
    BY SectorOfLink
<1>2. s \in Sectors \cup {Far}
    BY <1>1, Geometry
<1>3. GetNext(d, c).d = p.d /\ GetNext(d, c).r = NextIn(p, c)
    BY DEF GetNext, GetNextIn
<1> HIDE DEF s
<1>4. Had(d, s, p)
    BY <1>2, CacheSectorHas
<1> HIDE DEF p
<1>5. CASE p.e = NoEntry
    <2>1. NextIn(p, c) = Failed
        BY <1>5 DEF NextIn
    <2> QED
        BY <2>1, <1>3, <1>4, KeptMoves DEF Had, Link
<1>6. CASE p.e # NoEntry
    <2>1. s \in FatSectors /\ p.e \in p.d.used /\ p.d.sector[p.e] = s
        BY <1>1, <1>4, <1>6, Geometry DEF Had
    <2>2. p.d.buffer[p.e] \in [Slots -> Word]
        BY <2>1, <1>4, Geometry DEF Had, Kept, Good, HeldOK, Data
    <2>3. p.d.buffer[p.e][c % PerSector] \in Word
        BY <1>1, <2>2
    <2>4. NextIn(p, c) \in {None} \cup Clusters
        BY <1>6, <2>3 DEF NextIn, Word
    <2>5. s # Far /\ Failed \notin {None} \cup Clusters
        BY <2>1, Geometry DEF Failed, None
    <2>6. c # Failed
        BY <2>5 DEF s, SectorOf, Failed
    <2> QED
        BY <2>4, <2>5, <2>6, <1>3, <1>4, KeptMoves DEF Had, Link
<1> QED
    BY <1>5, <1>6

(***************************************************************************)
(* Functions defined by recursion over 0..n: there is one, and what its    *)
(* steps keep holds of its last value.                                     *)
(***************************************************************************)
Follows(f, n, a, G) == f[0] = a /\ \A i \in 1..n : f[i] = G[i - 1][f[i - 1]]

\* A function defined step by step exists, by the least number at which it would not.
LEMMA Recursion ==
    ASSUME NEW S, NEW n \in Nat, NEW a \in S, NEW G \in [0..n -> [S -> S]]
    PROVE  \E f \in [0..n -> S] : Follows(f, n, a, G)
<1> USE DEF Follows
<1> DEFINE Upto(k) == \E f \in [0..k -> S] : f[0] = a /\ \A i \in 1..k : f[i] = G[i - 1][f[i - 1]]
           T == {k \in 0..n : ~Upto(k)}
<1>1. SUFFICES ASSUME T # {} PROVE FALSE
    OBVIOUS
<1>2. PICK k \in T : \A y \in T : k <= y
    <2>1. T \subseteq Nat
        OBVIOUS
    <2> HIDE DEF T
    <2> QED
        BY <1>1, <2>1, LeastNumber
<1>3. k \in 0..n /\ ~Upto(k)
    OBVIOUS
<1>4. CASE k = 0
    <2> DEFINE f == [i \in 0..0 |-> a]
    <2>1. f \in [0..0 -> S] /\ f[0] = a /\ \A i \in 1..0 : f[i] = G[i - 1][f[i - 1]]
        OBVIOUS
    <2> QED
        BY <1>3, <1>4, <2>1
<1>5. CASE k # 0
    <2>1. k - 1 \in 0..n /\ ~(k <= k - 1)
        BY <1>3, <1>5
    <2>2. Upto(k - 1)
        BY <1>2, <2>1
    <2>3. PICK f \in [0..(k - 1) -> S] :
              f[0] = a /\ \A i \in 1..(k - 1) : f[i] = G[i - 1][f[i - 1]]
        BY <2>2
    <2> DEFINE g == [i \in 0..k |-> IF i = k THEN G[k - 1][f[k - 1]] ELSE f[i]]
    <2>4. k - 1 \in 0..(k - 1) /\ f[k - 1] \in S /\ G[k - 1][f[k - 1]] \in S
        BY <2>1, <2>3, <1>3
    <2>5. g \in [0..k -> S] /\ g[k] = G[k - 1][f[k - 1]]
          /\ \A i \in 0..(k - 1) : g[i] = f[i]
        BY <2>3, <2>4, <1>3
    <2> HIDE DEF g
    <2>6. g[0] = a
        BY <2>3, <2>4, <2>5, <1>3
    <2>7. \A i \in 1..k : g[i] = G[i - 1][g[i - 1]]
        <3> TAKE i \in 1..k
        <3>1. i - 1 \in 0..(k - 1) /\ g[i - 1] = f[i - 1]
            BY <2>5, <1>3
        <3>2. CASE i = k
            BY <2>5, <3>1, <3>2
        <3>3. CASE i # k
            <4>1. i \in 1..(k - 1) /\ i \in 0..(k - 1)
                BY <3>3, <1>3
            <4> QED
                BY <2>3, <2>5, <3>1, <4>1
        <3> QED
            BY <3>2, <3>3
    <2> QED
        BY <2>5, <2>6, <2>7, <1>3
<1> QED
    BY <1>4, <1>5

\* What every step keeps holds of its last value.
LEMMA RecursionStays ==
    ASSUME NEW S, NEW n \in Nat, NEW f, f[0] \in S,
           \A i \in 1..n : f[i - 1] \in S => f[i] \in S
    PROVE  \A i \in 0..n : f[i] \in S
<1> DEFINE T == {k \in 0..n : f[k] \notin S}
<1>1. SUFFICES ASSUME T # {} PROVE FALSE
    OBVIOUS
<1>2. PICK k \in T : \A y \in T : k <= y
    <2>1. T \subseteq Nat
        OBVIOUS
    <2> HIDE DEF T
    <2> QED
        BY <1>1, <2>1, LeastNumber
<1>3. k \in 1..n /\ k - 1 \in 0..n /\ ~(k <= k - 1)
    BY <1>2
<1> QED
    BY <1>2, <1>3

\* What the driver writes in an entry of the table is a word.
LEMMA MarksAreWords == /\ EndMark \in Word /\ None \in Word /\ Clusters \subseteq Word
                       /\ EndMark \notin Clusters /\ Failed \notin {None} \cup Clusters
BY DEF Word, EndMark, None, Clusters, Failed

(***************************************************************************)
(* Chains of clusters: what each change of the table does to them.         *)
(***************************************************************************)
Typed(T) == T \in [Clusters -> Word]
Cutting(root, at, l) ==
    [c \in Clusters |-> IF root[c] = root[l] /\ at[c] > at[l] THEN None ELSE root[c]]
Without(root, r) == [c \in Clusters |-> IF root[c] = r THEN None ELSE root[c]]

\* The first cluster of a chain is linked to by none.
LEMMA FirstUnlinked ==
    ASSUME NEW T, Typed(T), NEW root, NEW at, Chained(T, root, at),
           NEW r \in Clusters, root[r] = r, NEW c \in Clusters
    PROVE  T[c] # r
<1>1. SUFFICES ASSUME T[c] = r PROVE FALSE
    OBVIOUS
<1>2. root[c] = r /\ r # None /\ at[r] = at[c] + 1 /\ at[r] <= at[c]
    BY <1>1, Geometry DEF Chained, None
<1>3. at[c] \in Nat /\ at[r] \in Nat
    BY DEF Chained
<1> QED
    BY <1>2, <1>3

\* A free cluster is in no chain and is linked to by none.
LEMMA FreeUnlinked ==
    ASSUME NEW T, Typed(T), NEW root, NEW at, Chained(T, root, at),
           NEW a \in Clusters, T[a] = None
    PROVE  /\ root[a] = None
           /\ \A c \in Clusters : T[c] # a /\ root[c] # a
<1>1. root[a] = None
    BY DEF Chained
<1>2. ASSUME NEW c \in Clusters PROVE T[c] # a
    BY DEF Chained
<1>3. ASSUME NEW c \in Clusters PROVE root[c] # a
    BY <1>1, Geometry DEF Chained, None
<1> QED
    BY <1>1, <1>2, <1>3

\* A free cluster becomes a chain of its own.
LEMMA ChainStart ==
    ASSUME NEW T, Typed(T), NEW root, NEW at, Chained(T, root, at),
           NEW a \in Clusters, T[a] = None, NEW n \in Nat
    PROVE  Chained([T EXCEPT ![a] = EndMark], [root EXCEPT ![a] = a], [at EXCEPT ![a] = n])
<1> DEFINE U == [T EXCEPT ![a] = EndMark]
           w == [root EXCEPT ![a] = a]
           y == [at EXCEPT ![a] = n]
<1>1. root \in [Clusters -> {None} \cup Clusters] /\ at \in [Clusters -> Nat]
    BY DEF Chained
<1>2. w \in [Clusters -> {None} \cup Clusters] /\ y \in [Clusters -> Nat]
    BY <1>1
<1>3. /\ U[a] = EndMark /\ w[a] = a /\ y[a] = n
      /\ \A c \in Clusters : c # a => U[c] = T[c] /\ w[c] = root[c] /\ y[c] = at[c]
    BY <1>1 DEF Typed
<1>4. /\ root[a] = None /\ a # None /\ EndMark # None /\ EndMark \notin Clusters
      /\ \A c \in Clusters : T[c] # a /\ root[c] # a
    BY FreeUnlinked, Geometry, MarksAreWords DEF None, EndMark
<1> HIDE DEF U, w, y
<1>5. ASSUME NEW c \in Clusters, w[c] # None
      PROVE  /\ U[c] # None /\ w[w[c]] = w[c] /\ y[w[c]] <= y[c]
             /\ c = w[c] \/ \E e \in Clusters : U[e] = c
    <2>1. CASE c = a
        BY <1>2, <1>3, <1>4, <2>1
    <2>2. CASE c # a
        <3>1. root[c] # None /\ root[c] \in Clusters /\ root[c] # a
            BY <1>1, <1>3, <1>4, <1>5, <2>2
        <3>2. CASE c = root[c]
            BY <1>3, <2>2, <3>1, <3>2 DEF Chained
        <3>3. CASE c # root[c]
            <4>1. PICK e \in Clusters : T[e] = c
                BY <3>1, <3>3 DEF Chained
            <4>2. e # a
                BY <1>4, <4>1, Geometry DEF None
            <4> QED
                BY <1>3, <2>2, <3>1, <4>1, <4>2 DEF Chained
        <3> QED
            BY <3>2, <3>3
    <2> QED
        BY <2>1, <2>2
<1>6. ASSUME NEW c \in Clusters, U[c] \in Clusters
      PROVE  U[U[c]] # None /\ w[U[c]] = w[c] /\ (w[c] # None => y[U[c]] = y[c] + 1)
    BY <1>3, <1>4, <1>6 DEF Chained
<1>7. ASSUME NEW c \in Clusters, NEW e \in Clusters, U[c] = U[e], U[c] \in Clusters
      PROVE  c = e
    BY <1>3, <1>4, <1>7 DEF Chained
<1>8. ASSUME NEW c \in Clusters, NEW e \in Clusters, w[c] = w[e], w[c] # None, y[c] = y[e]
      PROVE  c = e
    BY <1>3, <1>4, <1>8 DEF Chained
<1>9. Chained(U, w, y)
    BY <1>2, <1>5, <1>6, <1>7, <1>8 DEF Chained
<1> QED
    BY <1>9 DEF U, w, y

\* A free cluster is hung behind the end of a chain.
LEMMA ChainAppend ==
    ASSUME NEW T, Typed(T), NEW root, NEW at, Chained(T, root, at),
           NEW a \in Clusters, T[a] = None, NEW l \in Clusters, T[l] = EndMark, root[l] # None
    PROVE  Chained([T EXCEPT ![l] = a, ![a] = EndMark],
                   [root EXCEPT ![a] = root[l]], [at EXCEPT ![a] = at[l] + 1])
<1> DEFINE U == [T EXCEPT ![l] = a, ![a] = EndMark]
           w == [root EXCEPT ![a] = root[l]]
           y == [at EXCEPT ![a] = at[l] + 1]
<1>1. root \in [Clusters -> {None} \cup Clusters] /\ at \in [Clusters -> Nat]
    BY DEF Chained
<1>2. w \in [Clusters -> {None} \cup Clusters] /\ y \in [Clusters -> Nat]
    BY <1>1
<1>3. /\ U[a] = EndMark /\ w[a] = root[l] /\ y[a] = at[l] + 1
      /\ \A c \in Clusters : c # a => w[c] = root[c] /\ y[c] = at[c]
      /\ l # a => U[l] = a
      /\ \A c \in Clusters : c # a /\ c # l => U[c] = T[c]
    BY <1>1 DEF Typed
<1>4. /\ root[a] = None /\ a # None /\ EndMark # None /\ EndMark \notin Clusters
      /\ \A c \in Clusters : T[c] # a /\ root[c] # a
    BY FreeUnlinked, Geometry, MarksAreWords DEF None, EndMark
<1>5. l # a /\ root[l] \in Clusters /\ root[l] # a /\ root[root[l]] = root[l] /\ at[root[l]] <= at[l]
    BY <1>1, <1>4 DEF Chained
<1> HIDE DEF U, w, y
<1>6. ASSUME NEW c \in Clusters, w[c] # None
      PROVE  /\ U[c] # None /\ w[w[c]] = w[c] /\ y[w[c]] <= y[c]
             /\ c = w[c] \/ \E e \in Clusters : U[e] = c
    <2>1. CASE c = a
        <3>1. at[root[l]] \in Nat /\ at[l] \in Nat
            BY <1>1, <1>5
        <3>2. y[w[c]] <= y[c] /\ w[w[c]] = w[c]
            BY <1>3, <1>5, <2>1, <3>1
        <3> QED
            BY <1>3, <1>4, <1>5, <2>1, <3>2
    <2>2. CASE c # a
        <3>1. root[c] # None /\ root[c] \in Clusters /\ root[c] # a /\ w[c] = root[c]
            BY <1>1, <1>3, <1>4, <1>6, <2>2
        <3>2. w[w[c]] = w[c] /\ y[w[c]] <= y[c]
            BY <1>3, <2>2, <3>1 DEF Chained
        <3>3. U[c] # None
            BY <1>3, <1>4, <2>2, <3>1 DEF Chained
        <3>4. CASE c = root[c]
            BY <3>1, <3>2, <3>3, <3>4
        <3>5. CASE c # root[c]
            <4>1. PICK e \in Clusters : T[e] = c
                BY <3>1, <3>5 DEF Chained
            <4>2. e # a /\ e # l
                BY <1>4, <4>1, Geometry DEF None
            <4> QED
                BY <1>3, <3>2, <3>3, <4>1, <4>2
        <3> QED
            BY <3>4, <3>5
    <2> QED
        BY <2>1, <2>2
<1>7. ASSUME NEW c \in Clusters, U[c] \in Clusters
      PROVE  U[U[c]] # None /\ w[U[c]] = w[c] /\ (w[c] # None => y[U[c]] = y[c] + 1)
    <2>1. c # a
        BY <1>3, <1>4, <1>7
    <2>2. CASE c = l
        BY <1>3, <1>4, <1>5, <2>2
    <2>3. CASE c # l
        <3>1. U[c] = T[c] /\ U[c] # a /\ T[U[c]] # None /\ root[U[c]] = root[c]
              /\ (root[c] # None => at[U[c]] = at[c] + 1)
            BY <1>3, <1>4, <1>7, <2>1, <2>3 DEF Chained
        <3>2. U[U[c]] # None
            BY <1>3, <1>4, <1>5, <1>7, <3>1
        <3> QED
            BY <1>3, <1>7, <2>1, <3>1, <3>2
    <2> QED
        BY <2>2, <2>3
<1>8. ASSUME NEW c \in Clusters, NEW e \in Clusters, U[c] = U[e], U[c] \in Clusters
      PROVE  c = e
    <2>1. c # a /\ e # a
        BY <1>3, <1>4, <1>8
    <2> QED
        BY <1>3, <1>4, <1>5, <1>8, <2>1 DEF Chained
<1>9. ASSUME NEW c \in Clusters, root[c] = root[l] PROVE at[c] # at[l] + 1
    <2>1. SUFFICES ASSUME at[c] = at[l] + 1 PROVE FALSE
        OBVIOUS
    <2>2. at[c] \in Nat /\ at[l] \in Nat /\ at[root[l]] \in Nat
        BY <1>1, <1>5
    <2>3. c # root[c]
        BY <1>5, <1>9, <2>1, <2>2
    <2>4. PICK e \in Clusters : T[e] = c
        BY <1>5, <1>9, <2>3 DEF Chained
    <2>5. root[e] = root[l] /\ at[c] = at[e] + 1
        BY <1>9, <2>4 DEF Chained
    <2>6. at[e] = at[l]
        BY <1>1, <2>1, <2>2, <2>5
    <2>7. e = l
        BY <2>5, <2>6 DEF Chained
    <2> QED
        BY <2>4, <2>7, <1>4
<1>10. ASSUME NEW c \in Clusters, NEW e \in Clusters, w[c] = w[e], w[c] # None, y[c] = y[e]
      PROVE  c = e
    BY <1>3, <1>9, <1>10 DEF Chained
<1>11. Chained(U, w, y)
    BY <1>2, <1>6, <1>7, <1>8, <1>10 DEF Chained
<1> QED
    BY <1>11 DEF U, w, y

\* A chain is cut: what follows is in none.
LEMMA ChainCut ==
    ASSUME NEW T, Typed(T), NEW root, NEW at, Chained(T, root, at),
           NEW l \in Clusters, root[l] # None
    PROVE  Chained([T EXCEPT ![l] = EndMark], Cutting(root, at, l), at)
<1> DEFINE U == [T EXCEPT ![l] = EndMark]
           w == Cutting(root, at, l)
<1>1. root \in [Clusters -> {None} \cup Clusters] /\ at \in [Clusters -> Nat]
    BY DEF Chained
<1>2. w \in [Clusters -> {None} \cup Clusters]
    BY <1>1 DEF Cutting
<1>3. /\ U[l] = EndMark /\ EndMark # None /\ EndMark \notin Clusters
      /\ \A c \in Clusters : c # l => U[c] = T[c]
    BY MarksAreWords DEF Typed, EndMark, None
<1>4. \A c \in Clusters : w[c] = IF root[c] = root[l] /\ at[c] > at[l] THEN None ELSE root[c]
    BY DEF Cutting
<1>5. root[l] \in Clusters /\ root[root[l]] = root[l] /\ at[root[l]] <= at[l] /\ at[l] \in Nat
    BY <1>1 DEF Chained
<1> HIDE DEF U, w
<1>6. ASSUME NEW c \in Clusters, w[c] # None
      PROVE  /\ U[c] # None /\ w[w[c]] = w[c] /\ at[w[c]] <= at[c]
             /\ c = w[c] \/ \E e \in Clusters : U[e] = c
    <2>1. w[c] = root[c] /\ root[c] \in Clusters /\ (root[c] = root[l] => ~(at[c] > at[l]))
        BY <1>1, <1>4, <1>6
    <2>2. T[c] # None /\ root[root[c]] = root[c] /\ at[root[c]] <= at[c] /\ at[c] \in Nat
          /\ at[root[c]] \in Nat
        BY <1>1, <2>1, <1>6 DEF Chained
    <2>3. w[root[c]] = root[c]
        BY <1>4, <1>5, <2>1, <2>2
    <2>4. CASE c = root[c]
        BY <1>3, <2>1, <2>2, <2>3, <2>4
    <2>5. CASE c # root[c]
        <3>1. PICK e \in Clusters : T[e] = c
            BY <2>1, <2>5, <1>6 DEF Chained
        <3>2. root[e] = root[c] /\ at[c] = at[e] + 1 /\ at[e] \in Nat
            BY <1>1, <3>1, <2>1, <1>6 DEF Chained
        <3>3. e # l
            BY <1>5, <2>1, <2>2, <3>2
        <3> QED
            BY <1>3, <2>1, <2>2, <2>3, <3>1, <3>3
    <2> QED
        BY <2>4, <2>5
<1>7. ASSUME NEW c \in Clusters, U[c] \in Clusters
      PROVE  U[U[c]] # None /\ w[U[c]] = w[c] /\ (w[c] # None => at[U[c]] = at[c] + 1)
    <2>1. c # l /\ U[c] = T[c] /\ T[c] \in Clusters
        BY <1>3, <1>7
    <2>2. T[T[c]] # None /\ root[T[c]] = root[c] /\ (root[c] # None => at[T[c]] = at[c] + 1)
        BY <2>1 DEF Chained
    <2>3. U[T[c]] # None
        BY <1>3, <2>1, <2>2
    <2>4. CASE root[c] # root[l]
        <3>1. w[c] = root[c] /\ w[T[c]] = root[c]
            BY <1>4, <2>1, <2>2, <2>4
        <3> QED
            BY <2>1, <2>2, <2>3, <3>1
    <2>5. CASE root[c] = root[l]
        <3>1. at[T[c]] = at[c] + 1 /\ at[c] \in Nat
            BY <1>1, <2>2, <2>5
        <3>2. at[c] # at[l]
            BY <2>1, <2>5 DEF Chained
        <3>3. at[c] > at[l] <=> at[T[c]] > at[l]
            BY <1>5, <3>1, <3>2
        <3>4. w[T[c]] = w[c]
            BY <1>4, <2>1, <2>2, <2>5, <3>3
        <3> QED
            BY <2>1, <2>3, <3>1, <3>4
    <2> QED
        BY <2>4, <2>5
<1>8. ASSUME NEW c \in Clusters, NEW e \in Clusters, U[c] = U[e], U[c] \in Clusters
      PROVE  c = e
    BY <1>3, <1>8 DEF Chained
<1>9. ASSUME NEW c \in Clusters, NEW e \in Clusters, w[c] = w[e], w[c] # None, at[c] = at[e]
      PROVE  c = e
    BY <1>4, <1>9 DEF Chained
<1>10. Chained(U, w, at)
    BY <1>1, <1>2, <1>6, <1>7, <1>8, <1>9 DEF Chained
<1> QED
    BY <1>10 DEF U, w

\* A cluster that is in no chain and is linked to by none becomes free.
LEMMA ChainFree ==
    ASSUME NEW T, Typed(T), NEW root, NEW at, Chained(T, root, at),
           NEW f \in Clusters, root[f] = None, \A c \in Clusters : T[c] # f
    PROVE  Chained([T EXCEPT ![f] = None], root, at)
<1> DEFINE U == [T EXCEPT ![f] = None]
<1>1. /\ U[f] = None /\ None \notin Clusters
      /\ \A c \in Clusters : c # f => U[c] = T[c]
    BY Geometry DEF Typed, None
<1>2. root \in [Clusters -> {None} \cup Clusters] /\ at \in [Clusters -> Nat]
    BY DEF Chained
<1> HIDE DEF U
<1>3. ASSUME NEW c \in Clusters, root[c] # None
      PROVE  /\ U[c] # None /\ root[root[c]] = root[c] /\ at[root[c]] <= at[c]
             /\ c = root[c] \/ \E e \in Clusters : U[e] = c
    <2>1. c # f
        BY <1>3
    <2>2. CASE c = root[c]
        BY <1>1, <1>3, <2>1, <2>2 DEF Chained
    <2>3. CASE c # root[c]
        <3>1. PICK e \in Clusters : T[e] = c
            BY <1>3, <2>3 DEF Chained
        <3>2. root[e] = root[c]
            BY <3>1 DEF Chained
        <3> QED
            BY <1>1, <1>3, <2>1, <3>1, <3>2 DEF Chained
    <2> QED
        BY <2>2, <2>3
<1>4. ASSUME NEW c \in Clusters, U[c] \in Clusters
      PROVE  U[U[c]] # None /\ root[U[c]] = root[c] /\ (root[c] # None => at[U[c]] = at[c] + 1)
    BY <1>1, <1>4 DEF Chained
<1>5. ASSUME NEW c \in Clusters, NEW e \in Clusters, U[c] = U[e], U[c] \in Clusters
      PROVE  c = e
    BY <1>1, <1>5 DEF Chained
<1>6. Chained(U, root, at)
    BY <1>2, <1>3, <1>4, <1>5 DEF Chained
<1> QED
    BY <1>6 DEF U

\* A chain is given up.
LEMMA ChainDrop ==
    ASSUME NEW T, Typed(T), NEW root, NEW at, Chained(T, root, at), NEW r \in Clusters
    PROVE  Chained(T, Without(root, r), at)
<1> DEFINE w == Without(root, r)
<1>1. root \in [Clusters -> {None} \cup Clusters] /\ at \in [Clusters -> Nat] /\ r # None
    BY Geometry DEF Chained, None
<1>2. w \in [Clusters -> {None} \cup Clusters]
    BY <1>1 DEF Without
<1>3. \A c \in Clusters : w[c] = IF root[c] = r THEN None ELSE root[c]
    BY DEF Without
<1> HIDE DEF w
<1>4. ASSUME NEW c \in Clusters, w[c] # None
      PROVE  /\ T[c] # None /\ w[w[c]] = w[c] /\ at[w[c]] <= at[c]
             /\ c = w[c] \/ \E e \in Clusters : T[e] = c
    <2>1. w[c] = root[c] /\ root[c] \in Clusters /\ root[c] # r
        BY <1>1, <1>3, <1>4
    <2> QED
        BY <1>3, <1>4, <2>1 DEF Chained
<1>5. ASSUME NEW c \in Clusters, T[c] \in Clusters
      PROVE  T[T[c]] # None /\ w[T[c]] = w[c] /\ (w[c] # None => at[T[c]] = at[c] + 1)
    BY <1>3, <1>5 DEF Chained
<1>6. ASSUME NEW c \in Clusters, NEW e \in Clusters, w[c] = w[e], w[c] # None, at[c] = at[e]
      PROVE  c = e
    BY <1>3, <1>6 DEF Chained
<1>7. \A c, e \in Clusters : T[c] = T[e] /\ T[c] \in Clusters => c = e
    BY DEF Chained
<1>8. Chained(T, w, at)
    BY <1>1, <1>2, <1>4, <1>5, <1>6, <1>7 DEF Chained
<1> QED
    BY <1>8 DEF w

(***************************************************************************)
(* The table as it is seen, and what the driver's operators make of it.    *)
(***************************************************************************)
TableOf(d) == [c \in Clusters |-> Contents(d, SectorOf(c))[c % PerSector]]
LinkIn(T, c) == IF T[c] = EndMark THEN None ELSE T[c]
Holds(d, s) == \E e \in d.used : d.sector[e] = s
Recent(d, s) == d.lru[Len(d.lru)] \in d.used /\ d.sector[d.lru[Len(d.lru)]] = s

\* The sector of a cluster's entry is one of the table's.
LEMMA EntryPlace ==
    ASSUME NEW c \in Clusters
    PROVE  /\ SectorOf(c) \in FatSectors /\ SectorOf(c) \in Sectors /\ c % PerSector \in Slots
           /\ c \in Link /\ c # Failed /\ c # None
<1>1. c \in Link /\ c # Failed /\ c # None
    BY Geometry DEF Link, Failed, None
<1> QED
    BY <1>1, SectorOfLink, Geometry

\* Two entries of the table are in different places.
LEMMA EntriesApart ==
    ASSUME NEW c \in Clusters, NEW e \in Clusters, SectorOf(c) = SectorOf(e),
           c % PerSector = e % PerSector
    PROVE  c = e
<1>1. c \in Nat /\ e \in Nat
    BY Geometry
<1>2. PICK a \in Nat : a = c \div PerSector
    BY <1>1, DivFacts, SizesAssumption
<1>3. PICK b \in Nat : b = e \div PerSector
    BY <1>1, DivFacts, SizesAssumption
<1>4. SectorOf(c) = 2 + a /\ SectorOf(e) = 2 + b
    BY <1>1, <1>2, <1>3 DEF SectorOf
<1>5. a = b
    <2>1. \A i, j \in Nat : 2 + i = 2 + j => i = j
        OBVIOUS
    <2>2. 2 + a = 2 + b
        BY <1>4
    <2> QED
        BY <2>1, <2>2
<1>6. c = (PerSector * a) + (c % PerSector) /\ e = (PerSector * b) + (e % PerSector)
    BY <1>1, <1>2, <1>3, DivFacts, SizesAssumption
<1> QED
    BY <1>5, <1>6

\* The table holds words.
LEMMA TableTyped ==
    ASSUME NEW d, Good(d)
    PROVE  Typed(TableOf(d))
<1>1. ASSUME NEW c \in Clusters PROVE Contents(d, SectorOf(c))[c % PerSector] \in Word
    <2>1. Contents(d, SectorOf(c)) \in [Slots -> Word] /\ c % PerSector \in Slots
        BY EntryPlace, TableData
    <2> QED
        BY <2>1
<1> QED
    BY <1>1 DEF Typed, TableOf

\* It changes only where the sectors do.
LEMMA TableStays ==
    ASSUME NEW d, NEW r, NEW S, Moves(d, r, S), S \cap FatSectors = {}
    PROVE  TableOf(r) = TableOf(d)
<1>1. ASSUME NEW c \in Clusters
      PROVE  Contents(r, SectorOf(c))[c % PerSector] = Contents(d, SectorOf(c))[c % PerSector]
    <2>1. SectorOf(c) \in FatSectors /\ SectorOf(c) \in Sectors
        BY EntryPlace
    <2>2. Contents(r, SectorOf(c)) = Contents(d, SectorOf(c))
        BY <2>1 DEF Moves
    <2> QED
        BY <2>2
<1> QED
    BY <1>1 DEF TableOf

\* A sector that is in the cache is had, though it may be unreadable by now.
LEMMA HeldIsHad ==
    ASSUME NEW d, Good(d), NEW s \in Sectors, Holds(d, s)
    PROVE  CacheSector(d, s).e # NoEntry
<1> DEFINE found == Found(d, s)
           l == Lowest(found)
<1>1. found = {g \in d.used : d.sector[g] = s} /\ found \subseteq Nat
    BY FoundIs
<1>2. found # {}
    BY <1>1 DEF Holds
<1> HIDE DEF found
<1>3. l \in found
    BY <1>1, <1>2, LowestIn
<1>4. l \in Entries
    BY <1>1, <1>3 DEF Good, Vol
<1> HIDE DEF l
<1>5. Probe(d, s) = Hit(d, l)
    BY <1>2 DEF Probe, found, l
<1>6. CacheSector(d, s) = Hit(d, l)
    BY <1>5 DEF CacheSector, Filled, Hit
<1> QED
    BY <1>4, <1>6 DEF Hit, Entries, NoEntry

\* The sector of the entry used last is held.
LEMMA RecentHeld ==
    ASSUME NEW d, NEW s, Recent(d, s)
    PROVE  Holds(d, s)
BY DEF Recent, Holds

\* get_next_cluster32 returns what the table has, or fails.
LEMMA GetNextReads ==
    ASSUME NEW d, Good(d), NEW c \in Clusters
    PROVE  GetNext(d, c).r \in {Failed, LinkIn(TableOf(d), c)}
<1> DEFINE s == SectorOf(c)
           k == c % PerSector
           p == CacheSector(d, s)
<1>1. s \in FatSectors /\ s \in Sectors /\ k \in Slots
    BY EntryPlace
<1>2. GetNext(d, c).r = NextIn(p, c)
    BY DEF GetNext, GetNextIn
<1>3. TableOf(d)[c] = Contents(d, s)[k]
    BY DEF TableOf
<1> HIDE DEF s
<1>4. Had(d, s, p)
    BY <1>1, CacheSectorHas
<1> HIDE DEF p
<1>5. CASE p.e = NoEntry
    BY <1>2, <1>5 DEF NextIn
<1>6. CASE p.e # NoEntry
    <2>1. p.e \in p.d.used /\ p.d.sector[p.e] = s /\ Good(p.d) /\ Contents(p.d, s) = Contents(d, s)
        BY <1>1, <1>4, <1>6 DEF Had, Kept, SameContents
    <2>2. p.d.buffer[p.e] = Contents(d, s)
        BY <1>1, <2>1, ContentsIs
    <2>3. NextIn(p, c) = IF Contents(d, s)[k] = EndMark THEN None ELSE Contents(d, s)[k]
        BY <1>6, <2>2 DEF NextIn
    <2> QED
        BY <1>2, <1>3, <2>3 DEF LinkIn
<1> QED
    BY <1>5, <1>6

\* What a sector read leaves: as seen, nothing; the last entry used is the sector's.
LEMMA SectorRecent ==
    ASSUME NEW d, Good(d), NEW s \in Sectors, NEW p, Had(d, s, p)
    PROVE  /\ p.e # NoEntry => Recent(p.d, s)
           /\ \A t \in Sectors : Recent(d, t) /\ Len(d.lru) > 1 => Holds(p.d, t)
<1>1. ASSUME p.e # NoEntry PROVE Recent(p.d, s)
    BY <1>1 DEF Had, LastUsed, Recent
<1>2. ASSUME NEW t \in Sectors, Recent(d, t), Len(d.lru) > 1 PROVE Holds(p.d, t)
    <2>1. PICK g \in d.used : g = d.lru[Len(d.lru)] /\ d.sector[g] = t
        BY <1>2 DEF Recent
    <2>2. g \in p.d.used /\ p.d.sector[g] = t
        BY <1>2, <2>1 DEF Had
    <2> QED
        BY <2>2 DEF Holds
<1> QED
    BY <1>1, <1>2

(***************************************************************************)
(* Looking for a free cluster (next_write_cluster).                        *)
(***************************************************************************)
LEMMA FreeFromIs ==
    ASSUME NEW data, NEW nr, NEW offset
    PROVE  FreeFrom(data, nr, offset) \in {None} \cup Clusters
<1> DEFINE at(j) == (j + offset) % PerSector
           free == {j \in 0..(PerSector - 1) :
                       data[at(j)] = None /\ (nr * PerSector) + at(j) \in Clusters}
<1>1. free \subseteq Nat
    BY SizesAssumption
<1>2. free # {} => Lowest(free) \in free
    <2> HIDE DEF free
    <2> QED
        BY <1>1, LowestIn
<1>3. free # {} => (nr * PerSector) + at(Lowest(free)) \in Clusters
    <2> HIDE DEF at
    <2> SUFFICES ASSUME free # {} PROVE (nr * PerSector) + at(Lowest(free)) \in Clusters
        OBVIOUS
    <2>1. PICK l : l = Lowest(free)
        OBVIOUS
    <2>2. l \in free
        BY <2>1, <1>2
    <2> QED
        BY <2>1, <2>2
<1>4. FreeFrom(data, nr, offset) = IF free = {} THEN None ELSE (nr * PerSector) + at(Lowest(free))
    BY DEF FreeFrom
<1> HIDE DEF free, at
<1> QED
    BY <1>3, <1>4

\* A free cluster in a sector of the table.
LEMMA FreeFromFinds ==
    ASSUME NEW data, NEW nr \in Nat, NEW offset \in Nat, NEW c,
           c = FreeFrom(data, nr, offset), c # None
    PROVE  c \in Clusters /\ SectorOf(c) = 2 + nr /\ data[c % PerSector] = None
<1> DEFINE at(j) == (j + offset) % PerSector
           free == {j \in 0..(PerSector - 1) :
                       data[at(j)] = None /\ (nr * PerSector) + at(j) \in Clusters}
<1>1. free \subseteq Nat
    BY SizesAssumption
<1>2. FreeFrom(data, nr, offset) = IF free = {} THEN None ELSE (nr * PerSector) + at(Lowest(free))
    BY DEF FreeFrom
<1> HIDE DEF free
<1>3. free # {} /\ c = (nr * PerSector) + at(Lowest(free))
    BY <1>2
<1>4. PICK j \in free : j = Lowest(free)
    BY <1>1, <1>3, LowestIn
<1>5. j \in 0..(PerSector - 1) /\ data[at(j)] = None /\ (nr * PerSector) + at(j) \in Clusters
    BY <1>4 DEF free
<1>6. PICK k : k = at(j)
    OBVIOUS
<1>7. k \in 0..(PerSector - 1)
    <2>1. j + offset \in Nat
        BY <1>5, SizesAssumption
    <2>2. PICK i \in Nat : i = j + offset
        BY <2>1
    <2>3. i % PerSector \in 0..(PerSector - 1)
        BY <2>2, DivFacts, SizesAssumption
    <2> QED
        BY <1>6, <2>2, <2>3
<1>8. c = (nr * PerSector) + k /\ c \in Clusters /\ data[k] = None
    BY <1>3, <1>4, <1>5, <1>6
<1> HIDE DEF at
<1>9. c \div PerSector = nr /\ c % PerSector = k
    <2>1. PICK n \in Nat \ {0} : n = PerSector
        BY SizesAssumption
    <2>2. c = (nr * n) + k /\ k \in 0..(n - 1) /\ c \in Nat
        BY <1>7, <1>8, <2>1, Geometry
    <2>3. PICK a \in Nat : a = c \div n
        BY <2>1, <2>2, DivFacts
    <2>4. PICK b \in 0..(n - 1) : b = c % n
        BY <2>1, <2>2, DivFacts
    <2>5. c = (n * a) + b
        BY <2>1, <2>2, <2>3, <2>4, DivFacts
    <2>6. ~(a > nr)
        <3>1. SUFFICES ASSUME a > nr PROVE FALSE
            OBVIOUS
        <3>2. PICK m \in Nat : a = nr + 1 + m
            <4>1. a - nr - 1 \in Nat /\ a = nr + 1 + (a - nr - 1)
                BY <2>3, <3>1
            <4> QED
                BY <4>1
        <3>3. n * a = (nr * n) + n + (n * m) /\ n * m \in Nat /\ nr * n \in Nat
            BY <2>1, <3>2
        <3> QED
            BY <2>1, <2>2, <2>4, <2>5, <3>3
    <2>7. ~(a < nr)
        <3>1. SUFFICES ASSUME a < nr PROVE FALSE
            OBVIOUS
        <3>2. PICK m \in Nat : nr = a + 1 + m
            <4>1. nr - a - 1 \in Nat /\ nr = a + 1 + (nr - a - 1)
                BY <2>3, <3>1
            <4> QED
                BY <4>1
        <3>3. nr * n = (n * a) + n + (n * m) /\ n * m \in Nat /\ n * a \in Nat
            BY <2>1, <2>3, <3>2
        <3> QED
            BY <2>1, <2>2, <2>4, <2>5, <3>3
    <2>8. a = nr
        BY <2>3, <2>6, <2>7
    <2>9. n * a = nr * n
        BY <2>1, <2>8
    <2>10. b = k
        <3>1. nr * n \in Nat
            BY <2>1
        <3> QED
            BY <2>2, <2>4, <2>5, <2>9, <3>1
    <2> QED
        BY <2>1, <2>3, <2>4, <2>8, <2>10
<1>10. SectorOf(c) = 2 + nr
    <2>1. c \in Nat
        BY <1>8, Geometry
    <2> QED
        BY <1>9, <2>1 DEF SectorOf
<1> QED
    BY <1>8, <1>9, <1>10

\* A search so far: a cluster found is free, and its sector has just been used.
FoundFree(d, acc) ==
    acc.r # None => acc.over /\ TableOf(d)[acc.r] = None /\ Recent(acc.d, SectorOf(acc.r))
Searched(d) ==
    {acc \in [d : Vol, r : {None} \cup Clusters, over : BOOLEAN] :
        Moves(d, acc.d, {}) /\ FoundFree(d, acc)}

\* One sector of the table searched.
LEMMA LookIs ==
    ASSUME NEW d, Good(d), NEW acc \in Searched(d), NEW i \in Nat, NEW start \in Nat
    PROVE  Look(acc, i, start) \in Searched(d)
<1> DEFINE nr == (i + (start \div PerSector)) % FatSize
           s == 2 + nr
           p == CacheSector(acc.d, s)
           offset == IF i = 0 THEN start % PerSector ELSE 0
           c == IF p.e = NoEntry THEN None ELSE FreeFrom(p.d.buffer[p.e], nr, offset)
           e == IF c = None THEN p.d ELSE [p.d EXCEPT !.next = c]
<1>1. CASE acc.over
    BY <1>1 DEF Look
<1>2. CASE ~acc.over
    <2>1. nr \in 0..(FatSize - 1)
        <3>1. (start \div PerSector) \in Nat
            BY DivFacts, SizesAssumption
        <3> DEFINE a == i + (start \div PerSector)
        <3>2. a \in Nat
            BY <3>1
        <3> HIDE DEF a
        <3>3. a % FatSize \in 0..(FatSize - 1)
            BY <3>2, DivFacts, Geometry
        <3> QED
            BY <3>3 DEF a
    <2>2. s \in FatSectors
        BY <2>1, Geometry DEF FatSectors
    <2>3. Look(acc, i, start) = [d |-> e, r |-> c, over |-> p.e = NoEntry \/ c # None]
        BY <1>2 DEF Look, SearchIn
    <2>4. c \in {None} \cup Clusters
        BY FreeFromIs
    <2> HIDE DEF nr, s
    <2>5. Good(acc.d) /\ Moves(d, acc.d, {})
        BY DEF Searched, Moves
    <2>6. s \in Sectors /\ Had(acc.d, s, p)
        BY <2>2, <2>5, CacheSectorHas, Geometry
    <2> HIDE DEF p
    <2>13. Kept(acc.d, p.d) /\ SameRoom(acc.d, p.d)
        BY <2>6 DEF Had
    <2>10. c # None => /\ p.e # NoEntry /\ c \in Clusters /\ SectorOf(c) = s
                       /\ p.d.buffer[p.e][c % PerSector] = None
        <3>1. SUFFICES ASSUME c # None PROVE /\ p.e # NoEntry /\ c \in Clusters /\ SectorOf(c) = s
                                            /\ p.d.buffer[p.e][c % PerSector] = None
            OBVIOUS
        <3>2. offset \in Nat
            BY DivFacts, SizesAssumption
        <3> HIDE DEF offset
        <3>3. p.e # NoEntry /\ c = FreeFrom(p.d.buffer[p.e], nr, offset)
            BY <3>1
        <3>4. nr \in Nat
            BY <2>1, Geometry
        <3> QED
            BY <3>1, <3>2, <3>3, <3>4, FreeFromFinds DEF s
    <2> HIDE DEF offset, c
    <2>7. Moves(d, p.d, {}) /\ Good(p.d)
        <3>1. Moves(acc.d, p.d, {})
            BY <2>13, KeptMoves
        <3>2. Moves(d, p.d, {})
            BY <3>1, <2>5, MovesAgain
        <3> QED
            BY <3>2 DEF Moves
    <2>8. Moves(d, e, {})
        <3>1. CASE c = None
            BY <2>7, <3>1
        <3>2. CASE c # None
            <4>1. c \in Nat
                BY <2>4, <3>2, Geometry
            <4>2. Moves(p.d, [p.d EXCEPT !.next = c], {})
                BY <4>1, <2>7, NextMoves
            <4> QED
                BY <3>2, <4>2, <2>7, MovesAgain
        <3> QED
            BY <3>1, <3>2
    <2> HIDE DEF e
    <2>9. e \in Vol
        BY <2>8 DEF Moves, Good
    <2>11. ASSUME c # None PROVE TableOf(d)[c] = None /\ Recent(e, SectorOf(c))
        <3>1. p.e \in p.d.used /\ p.d.sector[p.e] = s /\ Recent(p.d, s)
            <4>1. p.e # NoEntry
                BY <2>10, <2>11
            <4>2. Recent(p.d, s)
                BY <2>5, <2>6, <4>1, SectorRecent
            <4> QED
                BY <2>6, <4>1, <4>2 DEF Had
        <3>2. Contents(p.d, s) = p.d.buffer[p.e]
            BY <2>6, <2>7, <3>1, ContentsIs
        <3>3. TableOf(p.d) = TableOf(d)
            BY <2>7, TableStays
        <3>4. TableOf(p.d)[c] = Contents(p.d, SectorOf(c))[c % PerSector]
            BY <2>10, <2>11 DEF TableOf
        <3>5. e.lru = p.d.lru /\ e.used = p.d.used /\ e.sector = p.d.sector
            BY <2>7 DEF e, Good, Vol
        <3> QED
            BY <2>10, <2>11, <3>1, <3>2, <3>3, <3>4, <3>5 DEF Recent
    <2>12. FoundFree(d, [d |-> e, r |-> c, over |-> p.e = NoEntry \/ c # None])
        BY <2>11 DEF FoundFree
    <2> QED
        BY <2>3, <2>4, <2>8, <2>9, <2>12 DEF Searched
<1> QED
    BY <1>1, <1>2

\* find_free_cluster32 finds a cluster or none, and changes nothing seen.
LEMMA FindFreeIs ==
    ASSUME NEW d, Good(d), NEW start \in Nat
    PROVE  FindFree(d, start) \in Searched(d)
<1> DEFINE S == Searched(d)
           a == [d |-> d, r |-> None, over |-> FALSE]
           G == [i \in 0..FatSize |-> [acc \in S |-> Look(acc, i, start)]]
           look == CHOOSE look : look = [i \in 0..FatSize |->
                       IF i = 0 THEN [d |-> d, r |-> None, over |-> FALSE]
                       ELSE Look(look[i - 1], i - 1, start)]
<1>1. a \in S
    BY StillMoves DEF Searched, Good, FoundFree
<1>2. FatSize \in Nat
    BY Geometry
<1>3. G \in [0..FatSize -> [S -> S]]
    BY <1>2, LookIs
<1>4. \A i \in 0..FatSize, acc \in S : G[i][acc] = Look(acc, i, start)
    OBVIOUS
<1> HIDE DEF G, S, a
<1>5. PICK f \in [0..FatSize -> S] : Follows(f, FatSize, a, G)
    BY <1>1, <1>2, <1>3, Recursion
<1>6. \A i \in 1..FatSize : f[i] = Look(f[i - 1], i - 1, start)
    BY <1>2, <1>4, <1>5 DEF Follows
<1>7. f = [i \in 0..FatSize |-> IF i = 0 THEN a ELSE Look(f[i - 1], i - 1, start)]
    BY <1>2, <1>5, <1>6 DEF Follows
<1>8. look = [i \in 0..FatSize |-> IF i = 0 THEN a ELSE Look(look[i - 1], i - 1, start)]
    BY <1>7 DEF a
<1>9. FindFree(d, start) = look[FatSize]
    BY DEF FindFree
<1> HIDE DEF look
<1>10. look[0] = a /\ \A i \in 1..FatSize : look[i] = Look(look[i - 1], i - 1, start)
    BY <1>2, <1>8
<1>11. \A i \in 1..FatSize : look[i - 1] \in S => look[i] \in S
    <2> TAKE i \in 1..FatSize
    <2>1. i - 1 \in Nat
        BY <1>2
    <2> QED
        BY <2>1, <1>10, LookIs DEF S
<1>12. \A i \in 0..FatSize : look[i] \in S
    BY <1>1, <1>2, <1>10, <1>11, RecursionStays
<1>13. look[FatSize] \in S
    BY <1>2, <1>12
<1> QED
    BY <1>9, <1>13 DEF S, Searched

\* Moves through several operators, for several sectors.
LEMMA MovesOn ==
    ASSUME NEW a, NEW b, NEW c, NEW S, NEW T, Moves(a, b, S), Moves(b, c, T), NEW U,
           S \subseteq U, T \subseteq U
    PROVE  Moves(a, c, U)
BY MovesMore, MovesAgain

\* A volume that moved is a good one.
LEMMA GoodAfter ==
    ASSUME NEW d, NEW r, NEW S, Moves(d, r, S)
    PROVE  Good(r)
BY DEF Moves

(***************************************************************************)
(* update_fat_entry32 and next_write_cluster.                              *)
(***************************************************************************)
LEMMA UpdateFatIs ==
    ASSUME NEW d, Good(d), NEW c \in Link, NEW v \in Word
    PROVE  /\ Moves(d, UpdateFat(d, c, v).d, FatSectors)
           /\ UpdateFat(d, c, v).ok \in BOOLEAN
<1> DEFINE s == SectorOf(c)
           p == CacheSector(d, s)
           w == [d EXCEPT !.panic = TRUE]
<1>1. CASE c = v \/ c \in {0, 1}
    <2>1. UpdateFat(d, c, v) = [d |-> w, ok |-> FALSE]
        BY <1>1 DEF UpdateFat
    <2>2. Moves(d, w, FatSectors)
        BY PanicMoves
    <2> HIDE DEF w
    <2> QED
        BY <2>1, <2>2
<1>2. CASE ~(c = v \/ c \in {0, 1})
    <2>1. UpdateFat(d, c, v) = UpdateIn(p, c, v)
        BY <1>2 DEF UpdateFat
    <2>2. s \in FatSectors \cup {Far} /\ c % PerSector \in Slots
        BY SectorOfLink
    <2>3. PICK t \in FatSectors \cup {Far} : t = s
        BY <2>2
    <2>4. Had(d, t, p)
        BY <2>3, CacheSectorHas, Geometry
    <2> HIDE DEF s, p
    <2>5. CASE p.e = NoEntry
        <3>1. UpdateIn(p, c, v) = [d |-> p.d, ok |-> FALSE]
            BY <2>5 DEF UpdateIn
        <3> QED
            BY <2>1, <2>4, <3>1, KeptMoves DEF Had
    <2>6. CASE p.e # NoEntry
        <3> DEFINE k == c % PerSector
                   old == p.d.buffer[p.e][k]
                   count == CASE v # None /\ old = None /\ p.d.free > 0 -> p.d.free - 1
                              [] v = None /\ old # None -> p.d.free + 1
                              [] OTHER -> p.d.free
                   x == [p.d EXCEPT !.free = count]
                   data == [p.d.buffer[p.e] EXCEPT ![k] = v]
                   r == DirtyBuf(x, p.e, data)
        <3>1. t \in FatSectors /\ p.e \in p.d.used /\ p.d.sector[p.e] = t /\ Good(p.d)
            BY <2>3, <2>4, <2>6, Geometry DEF Had, Kept
        <3>2. p.d.buffer[p.e] \in [Slots -> Word]
            BY <3>1, Geometry DEF Good, HeldOK, Data
        <3>3. p.d.free \in Nat
            BY <3>1 DEF Good, Vol
        <3>4. UpdateIn(p, c, v) = [d |-> r, ok |-> TRUE]
            BY <2>6 DEF UpdateIn
        <3>5. data \in Data(t)
            <4>1. data \in [Slots -> Word]
                BY <3>2
            <4> HIDE DEF data
            <4> QED
                BY <4>1, <3>1, Geometry DEF Data
        <3>6. count \in Nat
            <4> HIDE DEF old
            <4> QED
                BY <3>3
        <3> HIDE DEF old, k, data, count
        <3>7. Moves(p.d, x, FatSectors)
            BY <3>1, <3>6, FreeMoves
        <3>8. x.used = p.d.used /\ x.sector = p.d.sector
            BY <3>1 DEF Good, Vol
        <3> HIDE DEF x
        <3>9. Moves(x, r, {t})
            BY <3>1, <3>5, <3>7, <3>8, DirtyBufMoves, GoodAfter, Geometry
        <3>10. Moves(d, p.d, FatSectors)
            BY <2>4, KeptMoves DEF Had
        <3> HIDE DEF r
        <3>11. Moves(d, x, FatSectors)
            BY <3>7, <3>10, MovesAgain
        <3>12. Moves(d, r, FatSectors)
            BY <3>1, <3>9, <3>11, MovesOn
        <3> QED
            BY <2>1, <3>4, <3>12
    <2> QED
        BY <2>5, <2>6
<1> QED
    BY <1>1, <1>2

\* update_fat_entry32 sets one entry of the table, or none; it can where the
\* sector is in the cache, and the sector used before it stays there.
LEMMA UpdateFatSets ==
    ASSUME NEW d, Good(d), NEW c \in Clusters, NEW v \in Word, c # v
    PROVE  /\ TableOf(UpdateFat(d, c, v).d) =
                  IF UpdateFat(d, c, v).ok THEN [TableOf(d) EXCEPT ![c] = v] ELSE TableOf(d)
           /\ Holds(d, SectorOf(c)) => UpdateFat(d, c, v).ok
           /\ \A t \in Sectors : Recent(d, t) /\ Len(d.lru) > 1 => Holds(UpdateFat(d, c, v).d, t)
<1> DEFINE s == SectorOf(c)
           k == c % PerSector
           p == CacheSector(d, s)
           u == UpdateFat(d, c, v)
           old == p.d.buffer[p.e][k]
           count == CASE v # None /\ old = None /\ p.d.free > 0 -> p.d.free - 1
                      [] v = None /\ old # None -> p.d.free + 1
                      [] OTHER -> p.d.free
           x == [p.d EXCEPT !.free = count]
           data == [p.d.buffer[p.e] EXCEPT ![k] = v]
           r == DirtyBuf(x, p.e, data)
<1>1. s \in FatSectors /\ s \in Sectors /\ k \in Slots
    BY EntryPlace
<1>2. u = UpdateIn(p, c, v)
    BY Geometry DEF UpdateFat
<1>3. \A e \in Clusters : TableOf(d)[e] = Contents(d, SectorOf(e))[e % PerSector]
    BY DEF TableOf
<1>4. Holds(d, s) => p.e # NoEntry
    BY <1>1, HeldIsHad
<1>5. UpdateIn(p, c, v) = IF p.e = NoEntry THEN [d |-> p.d, ok |-> FALSE] ELSE [d |-> r, ok |-> TRUE]
    BY DEF UpdateIn
<1> HIDE DEF u
<1>6. PICK t : t = s
    OBVIOUS
<1>7. Had(d, t, p)
    BY <1>1, <1>6, CacheSectorHas
<1> HIDE DEF p, s
<1>8. Moves(d, p.d, {}) /\ Good(p.d)
    BY <1>7, KeptMoves DEF Had, Kept
<1>9. \A q \in Sectors : Recent(d, q) /\ Len(d.lru) > 1 => Holds(p.d, q)
    BY <1>1, <1>6, <1>7, SectorRecent
<1>10. CASE p.e = NoEntry
    <2>1. u.d = p.d /\ ~u.ok
        BY <1>2, <1>5, <1>10
    <2>2. TableOf(p.d) = TableOf(d)
        BY <1>8, TableStays
    <2> QED
        BY <1>4, <1>9, <1>10, <2>1, <2>2 DEF u, s
<1>11. CASE p.e # NoEntry
    <2>1. p.e \in p.d.used /\ p.d.sector[p.e] = t
        BY <1>7, <1>11 DEF Had
    <2>2. p.d.buffer[p.e] = Contents(d, t)
        BY <1>1, <1>6, <1>8, <2>1, ContentsIs DEF Moves
    <2>3. Contents(d, t) \in [Slots -> Word]
        <3>1. Contents(d, t) \in Data(t)
            BY <1>1, <1>6, ContentsIs
        <3> QED
            BY <1>1, <1>6, <3>1, Geometry DEF Data
    <2>4. data = [Contents(d, t) EXCEPT ![k] = v] /\ data \in Data(t)
        <3>1. data \in [Slots -> Word]
            BY <2>2, <2>3
        <3>2. data = [Contents(d, t) EXCEPT ![k] = v]
            BY <2>2
        <3> HIDE DEF data
        <3> QED
            BY <1>1, <1>6, <3>1, <3>2, Geometry DEF Data
    <2>5. count \in Nat
        <3>1. p.d.free \in Nat
            BY <1>8 DEF Good, Vol
        <3> HIDE DEF old
        <3> QED
            BY <3>1
    <2> HIDE DEF data, count, old
    <2>6. Moves(p.d, x, {}) /\ Good(x)
        <3>1. Moves(p.d, x, {})
            BY <1>8, <2>5, FreeMoves
        <3> QED
            BY <3>1, GoodAfter
    <2>7. x.used = p.d.used /\ x.sector = p.d.sector
        BY <1>8 DEF Good, Vol
    <2> HIDE DEF x
    <2>8. /\ Changed(x, r, t) /\ Contents(r, t) = data /\ r.used = x.used /\ r.sector = x.sector
        BY <1>1, <1>6, <2>1, <2>4, <2>6, <2>7, DirtyBufChanges
    <2> HIDE DEF r
    <2>9. u.d = r /\ u.ok
        BY <1>2, <1>5, <1>11
    <2>10. ASSUME NEW e \in Clusters
           PROVE  Contents(r, SectorOf(e))[e % PerSector] = IF e = c THEN v ELSE TableOf(d)[e]
        <3>1. SectorOf(e) \in Sectors /\ e % PerSector \in Slots
            BY EntryPlace
        <3>2. CASE SectorOf(e) # t
            <4>1. Contents(r, SectorOf(e)) = Contents(d, SectorOf(e))
                BY <1>8, <2>6, <2>8, <3>1, <3>2 DEF Changed, Moves
            <4> QED
                BY <1>3, <1>6, <3>2, <4>1 DEF s
        <3>3. CASE SectorOf(e) = t
            <4>1. Contents(r, SectorOf(e)) = [Contents(d, t) EXCEPT ![k] = v]
                BY <2>4, <2>8, <3>3
            <4>2. e = c <=> e % PerSector = k
                BY <1>6, <3>3, EntriesApart DEF s
            <4> QED
                BY <1>1, <1>3, <2>3, <3>1, <3>3, <4>1, <4>2
        <3> QED
            BY <3>2, <3>3
    <2>11. TableOf(u.d) = [TableOf(d) EXCEPT ![c] = v]
        <3>1. TableOf(r) = [e \in Clusters |-> IF e = c THEN v ELSE TableOf(d)[e]]
            BY <2>10 DEF TableOf
        <3>2. [TableOf(d) EXCEPT ![c] = v] = [e \in Clusters |-> IF e = c THEN v ELSE TableOf(d)[e]]
            BY DEF TableOf
        <3> QED
            BY <2>9, <3>1, <3>2
    <2>12. \A q \in Sectors : Recent(d, q) /\ Len(d.lru) > 1 => Holds(u.d, q)
        BY <1>9, <2>7, <2>8, <2>9 DEF Holds
    <2> QED
        BY <2>9, <2>11, <2>12 DEF u
<1> QED
    BY <1>10, <1>11

\* next_write_cluster moves only the table.
LEMMA NextWriteClusterIs ==
    ASSUME NEW d, Good(d), NEW old \in {None} \cup Clusters
    PROVE  /\ Moves(d, NextWriteCluster(d, old).d, FatSectors)
           /\ NextWriteCluster(d, old).r \in {None} \cup Clusters
<1> DEFINE start == IF old # None THEN old + 1 ELSE d.next
           f == FindFree(d, start)
           u == IF old # None THEN UpdateFat(f.d, old, f.r).d ELSE f.d
           w == UpdateFat(u, f.r, EndMark).d
<1>1. start \in Nat
    <2>1. old # None => old + 1 \in Nat
        <3>1. old # None => old \in Nat
            BY Geometry
        <3> QED
            BY <3>1
    <2>2. d.next \in Nat
        BY DEF Good, Vol
    <2> QED
        BY <2>1, <2>2
<1>2. NextWriteCluster(d, old) = Linked(f, old)
    BY DEF NextWriteCluster
<1>3. f \in Searched(d)
    BY <1>1, FindFreeIs
<1> HIDE DEF start, f
<1>4. Linked(f, old) = IF f.r = None THEN f ELSE [f EXCEPT !.d = w]
    BY <1>3 DEF Linked, Searched
<1>5. Moves(d, f.d, FatSectors) /\ Good(f.d) /\ f.r \in {None} \cup Clusters
    BY <1>3, MovesMore, GoodAfter DEF Searched
<1>6. CASE f.r = None
    BY <1>2, <1>4, <1>5, <1>6
<1>7. CASE f.r # None
    <2>1. f.r \in Link /\ f.r \in Word /\ old \in Link
        BY <1>5 DEF Link, Word
    <2>2. Moves(f.d, u, FatSectors)
        <3>1. CASE old # None
            BY <1>5, <2>1, <3>1, UpdateFatIs
        <3>2. CASE old = None
            BY <1>5, <3>2, StillMoves
        <3> QED
            BY <3>1, <3>2
    <2> HIDE DEF u
    <2>3. Moves(u, w, FatSectors)
        BY <2>1, <2>2, UpdateFatIs, GoodAfter, MarksAreWords
    <2> HIDE DEF w
    <2>4. Moves(d, w, FatSectors)
        BY <1>5, <2>2, <2>3, MovesAgain
    <2>5. NextWriteCluster(d, old).d = w /\ NextWriteCluster(d, old).r = f.r
        BY <1>2, <1>3, <1>4, <1>7 DEF Searched
    <2> QED
        BY <1>5, <2>4, <2>5
<1> QED
    BY <1>6, <1>7

\* A free cluster a is linked behind the end old of a chain, or alone.
Joined(T, U, old, a) ==
    /\ T[a] = None
    /\ \/ U = [T EXCEPT ![a] = EndMark]
       \/ old # None /\ U = [T EXCEPT ![old] = a, ![a] = EndMark]

\* next_write_cluster hands out a cluster that was free; it marks it as the end
\* and links it behind the end it was given, or fails to link it: the sector of
\* its entry is still in the cache when that entry is set.
LEMMA NextWriteClusterLinks ==
    ASSUME NEW d, Good(d), Len(d.lru) > 1, NEW old \in {None} \cup Clusters,
           old # None => TableOf(d)[old] = EndMark, NEW a, a = NextWriteCluster(d, old)
    PROVE  /\ a.r \in {None} \cup Clusters
           /\ a.r = None => TableOf(a.d) = TableOf(d)
           /\ a.r # None => Joined(TableOf(d), TableOf(a.d), old, a.r)
<1> DEFINE start == IF old # None THEN old + 1 ELSE d.next
           f == FindFree(d, start)
           u == IF old # None THEN UpdateFat(f.d, old, f.r).d ELSE f.d
           w == UpdateFat(u, f.r, EndMark).d
<1>1. start \in Nat
    <2>1. old # None => old + 1 \in Nat
        <3>1. old # None => old \in Nat
            BY Geometry
        <3> QED
            BY <3>1
    <2>2. d.next \in Nat
        BY DEF Good, Vol
    <2> QED
        BY <2>1, <2>2
<1>2. a = Linked(f, old)
    BY DEF NextWriteCluster
<1>3. f \in Searched(d)
    BY <1>1, FindFreeIs
<1> HIDE DEF start, f
<1>4. Linked(f, old) = IF f.r = None THEN f ELSE [f EXCEPT !.d = w]
    BY <1>3 DEF Linked, Searched
<1>5. Moves(d, f.d, {}) /\ Good(f.d) /\ f.r \in {None} \cup Clusters /\ Len(f.d.lru) = Len(d.lru)
    BY <1>3, GoodAfter DEF Searched, Moves, SameRoom
<1>6. TableOf(f.d) = TableOf(d)
    BY <1>5, TableStays
<1>7. CASE f.r = None
    BY <1>2, <1>4, <1>6, <1>7
<1>8. CASE f.r # None
    <2>1. PICK c \in Clusters : c = f.r
        BY <1>5, <1>8
    <2>2. TableOf(d)[c] = None /\ Recent(f.d, SectorOf(c)) /\ SectorOf(c) \in Sectors
        BY <1>3, <1>8, <2>1, EntryPlace DEF Searched, FoundFree
    <2>3. a.r = c /\ a.d = w
        BY <1>2, <1>3, <1>4, <1>8, <2>1 DEF Searched
    <2>4. /\ Good(u) /\ Holds(u, SectorOf(c))
          /\ \/ TableOf(u) = TableOf(d)
             \/ old # None /\ TableOf(u) = [TableOf(d) EXCEPT ![old] = c]
        <3>1. CASE old = None
            BY <1>5, <1>6, <2>2, <3>1, RecentHeld
        <3>2. CASE old # None
            <4>1. old \in Clusters /\ old # c /\ c \in Word /\ old \in Link
                BY <2>2, <3>2 DEF None, EndMark, Word, Link
            <4>2. u = UpdateFat(f.d, old, c).d
                BY <2>1, <3>2
            <4>3. Good(UpdateFat(f.d, old, c).d)
                BY <1>5, <4>1, UpdateFatIs, GoodAfter
            <4>4. /\ TableOf(UpdateFat(f.d, old, c).d) =
                         IF UpdateFat(f.d, old, c).ok THEN [TableOf(d) EXCEPT ![old] = c] ELSE TableOf(d)
                  /\ Holds(UpdateFat(f.d, old, c).d, SectorOf(c))
                BY <1>5, <1>6, <2>2, <4>1, UpdateFatSets
            <4> QED
                BY <3>2, <4>2, <4>3, <4>4
        <3> QED
            BY <3>1, <3>2
    <2> HIDE DEF u
    <2>5. EndMark \in Word /\ c # EndMark
        BY MarksAreWords
    <2>6. w = UpdateFat(u, c, EndMark).d
        BY <2>1
    <2>7. TableOf(w) = [TableOf(u) EXCEPT ![c] = EndMark]
        BY <2>4, <2>5, <2>6, UpdateFatSets
    <2> HIDE DEF w
    <2> QED
        BY <1>8, <2>1, <2>2, <2>3, <2>4, <2>7 DEF Joined
<1> QED
    BY <1>7, <1>8

(***************************************************************************)
(* A slot of the directory, and a commit.                                  *)
(***************************************************************************)
LEMMA PutSlotIs ==
    ASSUME NEW d, Good(d), NEW s, NEW entry \in DirSlot
    PROVE  /\ Moves(d, PutSlot(d, s, entry).d, {Dir}) /\ PutSlot(d, s, entry).ok \in BOOLEAN
           /\ PutSlot(d, s, entry).ok <=> CacheSector(d, Dir).e # NoEntry
           /\ Dir \notin d.bad => PutSlot(d, s, entry).ok
           /\ PutSlot(d, s, entry).ok =>
                 Contents(PutSlot(d, s, entry).d, Dir) = [Contents(d, Dir) EXCEPT ![s] = entry]
<1> DEFINE p == CacheSector(d, Dir)
           data == [p.d.buffer[p.e] EXCEPT ![s] = entry]
           r == DirtyBuf(p.d, p.e, data)
<1>1. Had(d, Dir, p)
    BY CacheSectorHas, Geometry
<1>2. PutSlot(d, s, entry) = IF p.e = NoEntry THEN [d |-> p.d, ok |-> FALSE]
                             ELSE [d |-> r, ok |-> TRUE]
    BY DEF PutSlot, PutIn
<1> HIDE DEF p
<1>3. Moves(d, p.d, {Dir})
    BY <1>1, KeptMoves DEF Had
<1>4. CASE p.e = NoEntry
    BY <1>1, <1>2, <1>3, <1>4 DEF Had, p
<1>5. CASE p.e # NoEntry
    <2>1. p.e \in p.d.used /\ p.d.sector[p.e] = Dir /\ Good(p.d)
        BY <1>1, <1>5 DEF Had, Kept
    <2>2. p.d.buffer[p.e] \in [Slots -> DirSlot]
        BY <2>1 DEF Good, HeldOK, Data
    <2>3. data \in Data(Dir)
        BY <2>2 DEF Data
    <2>4. p.d.buffer[p.e] = Contents(d, Dir)
        BY <1>1, <2>1, ContentsIs, Geometry DEF Had, Kept, SameContents
    <2>5. data = [Contents(d, Dir) EXCEPT ![s] = entry]
        BY <2>4
    <2> HIDE DEF data
    <2>6. Moves(p.d, r, {Dir})
        BY <2>1, <2>3, DirtyBufMoves, Geometry
    <2>7. Contents(r, Dir) = data
        BY <2>1, <2>3, DirtyBufChanges, Geometry
    <2> HIDE DEF r
    <2>8. Moves(d, r, {Dir})
        BY <1>3, <2>6, MovesAgain
    <2> QED
        BY <1>2, <1>5, <2>5, <2>7, <2>8 DEF p
<1> QED
    BY <1>4, <1>5

\* cache_commit leaves nothing dirty.
LEMMA CommitIs ==
    ASSUME NEW d, Good(d)
    PROVE  Moves(d, Commit(d), {Info}) /\ Clean(Commit(d))
<1> DEFINE p == CacheSector(d, Info)
           data == [free |-> p.d.free, next |-> p.d.next]
           u == IF p.e = NoEntry THEN p.d ELSE DirtyBuf(p.d, p.e, data)
           r == CommitAll(u)
<1>1. Had(d, Info, p)
    BY CacheSectorHas, Geometry
<1>2. Commit(d) = r
    BY DEF Commit, UpdateFsinfo, UpdateFsinfoIn
<1> HIDE DEF p
<1>3. Moves(d, p.d, {Info}) /\ Good(p.d)
    BY <1>1, KeptMoves DEF Had, Kept
<1>4. Moves(d, u, {Info})
    <2>1. CASE p.e = NoEntry
        BY <1>3, <2>1
    <2>2. CASE p.e # NoEntry
        <3>1. p.e \in p.d.used /\ p.d.sector[p.e] = Info
            BY <1>1, <2>2 DEF Had
        <3>2. data \in Data(Info)
            BY <1>3, Geometry DEF Data, Good, Vol
        <3> HIDE DEF data
        <3>3. Moves(p.d, DirtyBuf(p.d, p.e, data), {Info})
            BY <1>3, <3>1, <3>2, DirtyBufMoves, Geometry
        <3> QED
            BY <1>3, <2>2, <3>3, MovesAgain
    <2> QED
        BY <2>1, <2>2
<1> HIDE DEF u
<1>5. Kept(u, r) /\ SameRoom(u, r) /\ Clean(r)
    BY <1>4, CommitAllCleans, GoodAfter
<1> HIDE DEF r
<1>6. Moves(u, r, {Info})
    BY <1>5, KeptMoves
<1>7. Moves(d, r, {Info})
    BY <1>4, <1>6, MovesAgain
<1> QED
    BY <1>2, <1>5, <1>7

(***************************************************************************)
(* fat_seek.                                                               *)
(***************************************************************************)
Walked(d) == {acc \in [d : Vol, r : Link] : Moves(d, acc.d, {})}

\* One hop along a chain reads only.
LEMMA HopIs ==
    ASSUME NEW d, Good(d), NEW acc \in Walked(d)
    PROVE  Hop(acc) \in Walked(d)
<1>1. CASE acc.r = None
    BY <1>1 DEF Hop
<1>2. CASE acc.r # None
    <2> DEFINE g == GetNext(acc.d, acc.r)
    <2>1. Hop(acc) = g /\ g = [d |-> g.d, r |-> g.r]
        BY <1>2 DEF Hop, GetNext, GetNextIn
    <2>2. Good(acc.d) /\ Moves(d, acc.d, {}) /\ acc.r \in Link
        BY DEF Walked, Moves
    <2>3. Moves(acc.d, g.d, {}) /\ g.r \in Link
        BY <2>2, GetNextIs
    <2> HIDE DEF g
    <2>4. Moves(d, g.d, {})
        BY <2>2, <2>3, MovesAgain
    <2>5. g.d \in Vol
        BY <2>4 DEF Moves, Good
    <2> QED
        BY <2>1, <2>3, <2>4, <2>5 DEF Walked
<1> QED
    BY <1>1, <1>2

\* From where a stream seeks, and how many hops.
At0(p) == IF str[p].pos = 0 THEN 0 ELSE str[p].pos - 1
Near(p, len) == At0(p) # 0 /\ len - 1 >= At0(p)
SeekHops(p, len) ==
    IF len = 0 THEN 0 ELSE IF Near(p, len) THEN len - 1 - At0(p) ELSE len - 1
SeekStart(p, len) == IF Near(p, len) THEN str[p].last ELSE File(p).first

\* fat_seek reads only.
LEMMA SeekToIs ==
    ASSUME Good(vol), NEW p, str[p].pos \in Nat, str[p].last \in Link, File(p).first \in Link,
           NEW len \in Nat
    PROVE  /\ SeekTo(p, len) \in Walked(vol)
           /\ \E sought : /\ SeekTo(p, len) = sought[SeekHops(p, len)]
                          /\ sought[0] = [d |-> vol, r |-> SeekStart(p, len)]
                          /\ \A i \in 1..SeekHops(p, len) : sought[i] = Hop(sought[i - 1])
                          /\ \A i \in 0..SeekHops(p, len) : sought[i] \in Walked(vol)
<1> DEFINE at == IF str[p].pos = 0 THEN 0 ELSE str[p].pos - 1
           near == at # 0 /\ len - 1 >= at
           n == IF len = 0 THEN 0 ELSE IF near THEN len - 1 - at ELSE len - 1
           S == Walked(vol)
           a == [d |-> vol, r |-> IF near THEN str[p].last ELSE File(p).first]
           G == [i \in 0..n |-> [acc \in S |-> Hop(acc)]]
           sought == CHOOSE sought : sought = [i \in 0..n |->
                         IF i = 0 THEN [d |-> vol, r |-> IF near THEN str[p].last ELSE File(p).first]
                         ELSE Hop(sought[i - 1])]
<1>1. at \in Nat
    OBVIOUS
<1>2. n \in Nat
    <2> HIDE DEF at
    <2> QED
        BY <1>1
<1>3. SeekTo(p, len) = sought[n]
    BY DEF SeekTo
<1>4. a \in S
    BY StillMoves DEF Walked, Good
<1> HIDE DEF n
<1>5. G \in [0..n -> [S -> S]]
    BY HopIs
<1>6. \A i \in 0..n, acc \in S : G[i][acc] = Hop(acc)
    OBVIOUS
<1> HIDE DEF G, S, a, near, at
<1>7. PICK f \in [0..n -> S] : Follows(f, n, a, G)
    BY <1>2, <1>4, <1>5, Recursion
<1>8. \A i \in 1..n : f[i] = Hop(f[i - 1])
    BY <1>2, <1>6, <1>7 DEF Follows
<1>9. f = [i \in 0..n |-> IF i = 0 THEN a ELSE Hop(f[i - 1])]
    BY <1>2, <1>7, <1>8 DEF Follows
<1>10. sought = [i \in 0..n |-> IF i = 0 THEN a ELSE Hop(sought[i - 1])]
    BY <1>9 DEF a
<1> HIDE DEF sought
<1>11. sought[0] = a /\ \A i \in 1..n : sought[i] = Hop(sought[i - 1])
    BY <1>2, <1>10
<1>12. \A i \in 1..n : sought[i - 1] \in S => sought[i] \in S
    BY <1>11, HopIs DEF S
<1>13. \A i \in 0..n : sought[i] \in S
    BY <1>2, <1>4, <1>11, <1>12, RecursionStays
<1>14. sought[n] \in S
    BY <1>2, <1>13
<1>15. n = SeekHops(p, len) /\ a = [d |-> vol, r |-> SeekStart(p, len)]
    BY DEF n, a, near, at, SeekHops, SeekStart, Near, At0
<1>16. \E g : /\ SeekTo(p, len) = g[n] /\ g[0] = a
              /\ \A i \in 1..n : g[i] = Hop(g[i - 1])
              /\ \A i \in 0..n : g[i] \in S
    BY <1>3, <1>11, <1>13
<1> QED
    BY <1>3, <1>14, <1>15, <1>16 DEF S

\* What a seek finds: the end of the chain, an error, or the cluster that far
\* along the chain it started in.
LEMMA SeekToLands ==
    ASSUME Good(vol), NEW p, str[p].pos \in Nat, str[p].last \in Link, File(p).first \in Link,
           NEW len \in Nat, NEW root, NEW at, Chained(TableOf(vol), root, at),
           str[p].pos > 0 => /\ str[p].last \in Clusters /\ root[str[p].last] # None
                             /\ at[str[p].last] = str[p].pos,
           File(p).first # None => /\ File(p).first \in Clusters /\ root[File(p).first] # None
                                   /\ at[File(p).first] = 1,
           NEW r, r = SeekTo(p, len).r
    PROVE  \/ r \in {None, Failed} \/ (len = 0 /\ r = File(p).first)
           \/ /\ r \in Clusters /\ len > 0 /\ at[r] = len /\ root[r] # None
              /\ \/ str[p].pos > 0 /\ root[r] = root[str[p].last]
                 \/ File(p).first # None /\ root[r] = root[File(p).first]
<1> DEFINE n == SeekHops(p, len)
           s == SeekStart(p, len)
           m == IF Near(p, len) THEN str[p].pos ELSE 1
           T == TableOf(vol)
           S == {acc \in Nat \X Walked(vol) :
                    \/ acc[2].r \in {None, Failed}
                    \/ acc[2].r \in Clusters /\ root[acc[2].r] = root[s] /\ at[acc[2].r] = m + acc[1]}
<1>1. PICK g : /\ SeekTo(p, len) = g[n] /\ g[0] = [d |-> vol, r |-> s]
               /\ \A i \in 1..n : g[i] = Hop(g[i - 1])
               /\ \A i \in 0..n : g[i] \in Walked(vol)
    BY SeekToIs
<1>2. At0(p) \in Nat /\ (At0(p) # 0 => str[p].pos = At0(p) + 1 /\ str[p].pos > 0)
    BY DEF At0
<1>3. n \in Nat /\ m \in Nat /\ (len > 0 => m + n = len) /\ (len = 0 => n = 0 /\ s = File(p).first)
    BY <1>2 DEF SeekHops, Near, SeekStart
<1>4. CASE len = 0
    BY <1>1, <1>3, <1>4
<1>5. CASE len > 0 /\ s = None
    <2> DEFINE R == {acc \in Walked(vol) : acc.r = None}
    <2>1. g[0] \in R
        BY <1>1, <1>3, <1>5
    <2>2. \A i \in 1..n : g[i - 1] \in R => g[i] \in R
        BY <1>1, <1>3 DEF Hop
    <2>3. \A i \in 0..n : g[i] \in R
        BY <1>3, <2>1, <2>2, RecursionStays
    <2> QED
        BY <1>1, <1>3, <2>3
<1>6. CASE len > 0 /\ s # None
    <2>1. s \in Clusters /\ root[s] # None /\ at[s] = m
          /\ ((s = str[p].last /\ str[p].pos > 0) \/ s = File(p).first)
        BY <1>2, <1>6 DEF SeekStart, Near
    <2> DEFINE h == [i \in 0..n |-> <<i, g[i]>>]
    <2>2. h[0] \in S
        BY <1>1, <1>3, <2>1
    <2>3. ASSUME NEW i \in 1..n, h[i - 1] \in S PROVE h[i] \in S
        <3>1. i - 1 \in 0..n /\ h[i - 1] = <<i - 1, g[i - 1]>> /\ h[i] = <<i, g[i]>>
              /\ i \in Nat /\ g[i] \in Walked(vol) /\ g[i - 1] \in Walked(vol)
            BY <1>1, <1>3
        <3> HIDE DEF h
        <3>2. PICK x : x = g[i - 1]
            OBVIOUS
        <3>3. PICK y : y = g[i]
            OBVIOUS
        <3>4. y = Hop(x) /\ x \in Walked(vol) /\ y \in Walked(vol) /\ Good(x.d)
            BY <1>1, <3>1, <3>2, <3>3, GoodAfter DEF Walked
        <3>5. \/ x.r \in {None, Failed}
              \/ x.r \in Clusters /\ root[x.r] = root[s] /\ at[x.r] = m + (i - 1)
            BY <2>3, <3>1, <3>2
        <3>6. \/ y.r \in {None, Failed}
              \/ y.r \in Clusters /\ root[y.r] = root[s] /\ at[y.r] = m + i
            <4>1. CASE x.r = None
                BY <3>4, <4>1 DEF Hop
            <4>2. CASE x.r = Failed
                <5>1. y.r = GetNext(x.d, Failed).r /\ Failed \in Link
                    BY <3>4, <4>2 DEF Hop, Link, Failed, None
                <5> QED
                    BY <3>4, <5>1, GetNextIs
            <4>3. CASE x.r \in Clusters /\ root[x.r] = root[s] /\ at[x.r] = m + (i - 1)
                <5>1. x.r # None
                    BY <4>3, Geometry DEF None
                <5>2. y.r \in {Failed, LinkIn(TableOf(x.d), x.r)}
                    BY <3>4, <4>3, <5>1, GetNextReads DEF Hop
                <5>3. TableOf(x.d) = T
                    BY <3>4, TableStays DEF Walked
                <5>4. T[x.r] \in Word
                    BY <4>3, TableTyped DEF Typed
                <5>5. y.r \in {None, Failed} \/ (y.r = T[x.r] /\ T[x.r] \in Clusters)
                    BY <5>2, <5>3, <5>4 DEF LinkIn, Word
                <5>6. T[x.r] \in Clusters => root[T[x.r]] = root[s] /\ at[T[x.r]] = (m + (i - 1)) + 1
                    BY <2>1, <4>3 DEF Chained
                <5>7. (m + (i - 1)) + 1 = m + i
                    BY <1>3, <3>1
                <5> QED
                    BY <5>5, <5>6, <5>7
            <4> QED
                BY <3>5, <4>1, <4>2, <4>3
        <3> QED
            BY <3>1, <3>3, <3>6
    <2> HIDE DEF h, S
    <2>4. \A i \in 0..n : h[i] \in S
        BY <1>3, <2>2, <2>3, RecursionStays
    <2>5. h[n] \in S /\ h[n] = <<n, SeekTo(p, len)>>
        BY <1>1, <1>3, <2>4 DEF h
    <2>6. r \in {None, Failed} \/ (r \in Clusters /\ root[r] = root[s] /\ at[r] = m + n)
        BY <2>5 DEF S
    <2> QED
        BY <1>3, <1>6, <2>1, <2>6
<1> QED
    BY <1>4, <1>5, <1>6

(***************************************************************************)
(* The inductive invariant.                                                *)
(***************************************************************************)
\* A step in which a stream may lose its place.
LoansSame == left' \in [calls : Nat, loans : Nat, faults : Nat] /\ left'.loans = left.loans
MayStray == broken' \in {broken, broken \cup {Far}}

Exclusive(o) ==
    \/ o.pc \in {"closewrite", "entry", "commit", "newentry", "oldentry", "remove", "release"}
    \/ o.job \in {"sync", "close", "discard"}

\* What the driver keeps is typed, and only what broke can't be read.
VolKnown ==
    /\ Good(vol) /\ vol.bad \ {Far} \subseteq broken /\ broken \subseteq Breakable \cup {Far}
    /\ left \in [calls : Nat, loans : Nat, faults : Nat] /\ Len(vol.lru) > left.loans + 1
FilesTyped == file \in [Bindings -> Object] /\ str \in [Procs -> Stream]
CallsTyped == op \in [Procs -> Op] /\ writer \in {None} \cup Procs

\* The calls that change the directory exclude all others.
LockHeld ==
    \A p \in Procs :
        /\ Exclusive(op[p]) <=> writer = p
        /\ Exclusive(op[p]) => op[p].pc # "idle" /\ \A q \in Procs : q # p => op[q].pc = "idle"

\* Where a call may be, and what it has by then.
Known(o, of) ==
    /\ o.pc # "idle" => o.of \in Bindings
    /\ o.pc = "alloc" => o.job = "none" /\ of # None
    /\ o.pc \in {"cut", "mark"} => o.job \in {"trunc", "sync", "close"}
    /\ o.pc \in {"free", "unlink"} => o.job # "none"
    /\ o.pc \in {"closewrite", "entry"} => o.job \in {"sync", "close"}
    /\ o.pc = "commit" => o.job \in {"sync", "close", "discard"}
    /\ o.job \in {"trunc", "sync", "close"} => of # None
    /\ o.pc \in {"cut", "mark", "free", "unlink"} => o.cur \in Link /\ o.next \in Link
    /\ o.pc = "oldentry" => o.cur \in Slots
CallsKnown == \A p \in Procs : Known(op[p], str[p].of)
Ready(o) == o.name \in Names /\ file[o.of].slot \in Slots /\ FreeSlots(Contents(vol, Dir)) # {}
RenamesReady == \A p \in Procs : op[p].pc = "newentry" => Ready(op[p])

\* What may not be on the disk yet.
DirtKnown ==
   /\ Settled(vol, Dir) \/ \E p \in Procs : writer = p /\ op[p].pc \in {"commit", "oldentry"}
   /\ (\A p \in Procs : str[p].of = None /\ op[p].pc \in {"idle", "release"}) => Clean(vol)
   /\ \A p \in Procs : op[p].pc = "release" => Clean(vol)

IInv == /\ VolKnown /\ FilesTyped /\ CallsTyped /\ LockHeld /\ CallsKnown /\ RenamesReady
        /\ DirtKnown

\* The directory stays on the disk while only other sectors move.
LEMMA SettledStays ==
    ASSUME NEW d, Good(d), NEW r, NEW S, Moves(d, r, S), Dir \notin S, Settled(d, Dir)
    PROVE  Settled(r, Dir)
<1> SUFFICES ASSUME NEW e \in Entries, r.sector[e] = Dir, "dirty" \in r.flags[e] PROVE FALSE
    BY DEF Settled, Holders
<1>1. "dirty" \in d.flags[e] /\ d.sector[e] = Dir
    BY DEF Moves
<1>2. "inuse" \in d.flags[e]
    BY <1>1 DEF Good, FlagsOK, States
<1> QED
    BY <1>1, <1>2 DEF Settled, Holders

\* With no sector moving nothing becomes dirty.
LEMMA CleanStays ==
    ASSUME NEW d, NEW r, Moves(d, r, {}), Clean(d)
    PROVE  Clean(r)
BY DEF Moves, Clean

\* Nothing is dirty: every sector is on the disk.
LEMMA CleanSettled ==
    ASSUME NEW d, Clean(d), NEW s
    PROVE  Settled(d, s)
BY DEF Clean, Settled, Holders

\* One call steps: the others stay where they are.
LEMMA OpSet ==
    ASSUME op \in [Procs -> Op], NEW p \in Procs, NEW x \in Op, op' = [op EXCEPT ![p] = x]
    PROVE  /\ op' \in [Procs -> Op] /\ op'[p] = x
           /\ \A q \in Procs : q # p => op'[q] = op[q]
OBVIOUS

\* Without a writer no call is exclusive, and one that waits never is.
LEMMA NoWriter ==
    ASSUME IInv
    PROVE  /\ writer = None => \A q \in Procs : ~Exclusive(op[q])
           /\ \A q \in Procs : op[q].pc = "idle" => ~Exclusive(op[q])
           /\ (\A q \in Procs : op[q].pc = "idle") => writer = None
BY ProcsAssumption DEF IInv, LockHeld, CallsTyped

\* The directory's sector is seen as it was.
SameDir == Contents(vol', Dir) = Contents(vol, Dir)

\* An operation that leaves the sector of the directory alone leaves what is seen of it.
LEMMA DirStays ==
    ASSUME NEW S, Moves(vol, vol', S), Dir \notin S
    PROVE  SameDir
BY Geometry DEF Moves, SameDir

(***************************************************************************)
(* A step of a call that shares the lock, on a file that is open.          *)
(***************************************************************************)
LEMMA SharedStep ==
    ASSUME IInv, NEW p \in Procs, NEW x \in Op, op' = [op EXCEPT ![p] = x], ~Exclusive(x),
           writer = None, writer' = None, str[p].of # None,
           FilesTyped', \A q \in Procs : str'[q].of = str[q].of,
           Known(x, str[p].of), NEW S, Moves(vol, vol', S), Dir \notin S,
           MayStray, LoansSame
    PROVE  IInv' /\ SameDir
<1>1. /\ op' \in [Procs -> Op] /\ op'[p] = x
      /\ \A q \in Procs : q # p => op'[q] = op[q]
    BY OpSet DEF IInv, CallsTyped
<1>2. \A q \in Procs : ~Exclusive(op[q])
    BY NoWriter
<1>3. \A q \in Procs : ~Exclusive(op'[q])
    BY <1>1, <1>2
<1>4. VolKnown'
    BY DEF IInv, VolKnown, Moves, SameRoom, MayStray, LoansSame
<1>5. CallsTyped'
    BY <1>1 DEF CallsTyped
<1>6. LockHeld'
    BY <1>3, ProcsAssumption DEF LockHeld
<1>7. CallsKnown'
    BY <1>1 DEF IInv, CallsKnown
<1>8. \A q \in Procs : op'[q].pc \notin {"newentry", "release"}
    BY <1>3 DEF Exclusive
<1>9. RenamesReady'
    BY <1>8 DEF RenamesReady
<1>10. Settled(vol, Dir)
    BY ProcsAssumption DEF IInv, DirtKnown
<1>11. Settled(vol', Dir)
    BY <1>10, SettledStays DEF IInv, VolKnown
<1>12. DirtKnown'
    BY <1>8, <1>11 DEF DirtKnown
<1> QED
    BY <1>4, <1>5, <1>6, <1>7, <1>9, <1>12, DirStays DEF IInv

(***************************************************************************)
(* A step of a call while no other is under way.                           *)
(***************************************************************************)
LEMMA AloneStep ==
    ASSUME IInv, NEW p \in Procs, NEW x \in Op, op' = [op EXCEPT ![p] = x],
           \A q \in Procs : q # p => op[q].pc = "idle",
           Exclusive(x) => writer' = p /\ x.pc # "idle", ~Exclusive(x) => writer' = None,
           FilesTyped', \A q \in Procs : q # p => str'[q].of = str[q].of,
           Known(x, str'[p].of),
           x.pc = "newentry" => /\ x.name \in Names /\ file'[x.of].slot \in Slots
                                /\ FreeSlots(Contents(vol', Dir)) # {},
           NEW S, Moves(vol, vol', S),
           MayStray, LoansSame,
           \/ Clean(vol')
           \/ /\ str'[p].of # None \/ x.pc # "idle"
              /\ x.pc # "release"
              /\ Settled(vol', Dir) \/ (Exclusive(x) /\ x.pc \in {"commit", "oldentry"})
    PROVE  IInv'
<1>1. /\ op' \in [Procs -> Op] /\ op'[p] = x
      /\ \A q \in Procs : q # p => op'[q] = op[q] /\ op'[q].pc = "idle"
    BY OpSet DEF IInv, CallsTyped
<1>2. \A q \in Procs : q # p => ~Exclusive(op'[q])
    BY <1>1, NoWriter
<1>3. VolKnown'
    BY DEF IInv, VolKnown, Moves, SameRoom, MayStray, LoansSame
<1>4. CallsTyped'
    BY <1>1 DEF CallsTyped
<1>5. LockHeld'
    BY <1>1, <1>2, ProcsAssumption DEF LockHeld
<1>6. CallsKnown'
    BY <1>1 DEF IInv, CallsKnown
<1>7. RenamesReady'
    BY <1>1 DEF RenamesReady, Ready
<1>8. DirtKnown'
    <2>1. CASE Clean(vol')
        BY <2>1, CleanSettled DEF DirtKnown
    <2>2. CASE /\ str'[p].of # None \/ x.pc # "idle"
               /\ x.pc # "release"
               /\ Settled(vol', Dir) \/ (Exclusive(x) /\ x.pc \in {"commit", "oldentry"})
        BY <2>2, <1>1 DEF DirtKnown
    <2> QED
        BY <2>1, <2>2
<1> QED
    BY <1>3, <1>4, <1>5, <1>6, <1>7, <1>8 DEF IInv

(***************************************************************************)
(* Steps that only touch the volume.                                       *)
(***************************************************************************)
LEMMA VolumeStep ==
    ASSUME IInv, UNCHANGED <<file, str, op, writer>>,
           VolKnown', Settled(vol, Dir) => Settled(vol', Dir), Clean(vol) => Clean(vol'),
           RenamesReady'
    PROVE  IInv'
<1>1. FilesTyped' /\ CallsTyped' /\ LockHeld' /\ CallsKnown'
    BY DEF IInv, FilesTyped, CallsTyped, LockHeld, CallsKnown
<1>2. DirtKnown'
    BY DEF IInv, DirtKnown
<1> QED
    BY <1>1, <1>2 DEF IInv

(***************************************************************************)
(* What a step starts from.                                                *)
(***************************************************************************)
LEMMA SpendTyped ==
    ASSUME left \in [calls : Nat, loans : Nat, faults : Nat],
           NEW what \in {"calls", "loans", "faults"}, Spend(what)
    PROVE  /\ left' \in [calls : Nat, loans : Nat, faults : Nat]
           /\ left'.loans = IF what = "loans" THEN left.loans - 1 ELSE left.loans
           /\ what # "loans" => LoansSame
BY DEF Spend, LoansSame

\* The invariant's parts about types.
LEMMA Typing ==
    ASSUME IInv, NEW p \in Procs
    PROVE  /\ op[p] \in Op /\ op \in [Procs -> Op] /\ str[p] \in Stream
           /\ str[p].of \in {None} \cup Bindings /\ str[p].pos \in Nat /\ str[p].last \in Link
           /\ Good(vol) /\ op = [op EXCEPT ![p] = op[p]]
           /\ Known(op[p], str[p].of)
           /\ FilesTyped /\ left \in [calls : Nat, loans : Nat, faults : Nat]
           /\ left' = left => LoansSame
BY DEF IInv, FilesTyped, CallsTyped, VolKnown, CallsKnown, Stream, LoansSame

\* The fields of a file's object.
LEMMA ObjectFields ==
    ASSUME IInv, NEW b \in Bindings
    PROVE  /\ file[b] \in Object /\ file[b].size \in Nat
           /\ file[b].first \in {None} \cup Clusters /\ file[b].first \in Link
           /\ file[b].slot \in {NoSlot} \cup Slots
BY DEF IInv, FilesTyped, Object, Link

\* A call that shares the lock, about to begin.
LEMMA SharedFacts ==
    ASSUME IInv, NEW p \in Procs, Shared(p)
    PROVE  /\ writer = None /\ op[p].pc = "idle" /\ ~Exclusive(op[p]) /\ str[p].of \in Bindings
           /\ str[p].of # None
           /\ File(p) \in Object /\ File(p).first \in Link /\ File(p).size \in Nat
           /\ LoansSame
<1>1. LoansSame
    BY Typing, SpendTyped DEF Shared, Calls
<1>2. writer = None /\ op[p].pc = "idle" /\ ~Exclusive(op[p]) /\ str[p].of \in Bindings
    BY Typing, NoWriter DEF Shared, AtRest
<1> QED
    BY <1>1, <1>2, ObjectFields DEF File, Shared

\* A call under way.
LEMMA AtFacts ==
    ASSUME IInv, NEW p \in Procs, NEW pc \in {"alloc", "cut", "mark", "free", "unlink", "closewrite",
               "entry", "commit", "newentry", "oldentry", "remove", "release"}, At(p, pc)
    PROVE  /\ op[p].pc = pc /\ op[p].of \in Bindings
           /\ broken' = broken /\ LoansSame
           /\ Exclusive(op[p]) => writer = p /\ \A q \in Procs : q # p => op[q].pc = "idle"
           /\ ~Exclusive(op[p]) => writer = None
<1>1. op[p].pc = pc /\ broken' = broken /\ left' = left
    BY DEF At
<1>2. op[p].of \in Bindings
    BY <1>1, Typing DEF Known
<1>3. Exclusive(op[p]) => writer = p /\ \A q \in Procs : q # p => op[q].pc = "idle"
    BY DEF IInv, LockHeld
<1>4. ~Exclusive(op[p]) => writer = None
    BY <1>1 DEF IInv, LockHeld, CallsTyped
<1> QED
    BY <1>1, <1>2, <1>3, <1>4, Typing

\* A call that is over knows nothing.
LEMMA IdleIs ==
    /\ Idle \in Op /\ Idle.pc = "idle" /\ Idle.job = "none" /\ Idle.cur = None /\ Idle.next = None
    /\ ~Exclusive(Idle) /\ \A of : Known(Idle, of)
<1>1. Idle \in Op
    BY DEF Idle, Op, None
<1>2. Idle.pc = "idle" /\ Idle.job = "none" /\ Idle.cur = None /\ Idle.next = None
    BY DEF Idle
<1> QED
    BY <1>1, <1>2 DEF Exclusive, Known

\* One stream changes.
LEMMA StrSet ==
    ASSUME IInv, NEW p \in Procs, NEW x \in Stream, str' = [str EXCEPT ![p] = x]
    PROVE  /\ str' \in [Procs -> Stream] /\ str'[p] = x
           /\ \A q \in Procs : q # p => str'[q] = str[q]
BY DEF IInv, FilesTyped

\* One file's object changes.
LEMMA FileSet ==
    ASSUME IInv, NEW b \in Bindings, NEW x \in Object, file' = [file EXCEPT ![b] = x]
    PROVE  file' \in [Bindings -> Object] /\ file'[b] = x
BY DEF IInv, FilesTyped

\* A step that changes nothing.
LEMMA Unchanged ==
    ASSUME IInv
    PROVE  /\ str' = str => str' \in [Procs -> Stream] /\ \A q \in Procs : str'[q].of = str[q].of
           /\ file' = file => file' \in [Bindings -> Object]
BY DEF IInv, FilesTyped

(***************************************************************************)
(* seek, read and write.                                                   *)
(***************************************************************************)
LEMMA SoughtToIs ==
    ASSUME IInv, NEW p \in Procs, str[p].of \in Bindings, NEW len \in Nat, SoughtTo(p, len)
    PROVE  /\ Moves(vol, vol', {}) /\ str' \in [Procs -> Stream]
           /\ \A q \in Procs : str'[q].of = str[q].of
           /\ MayStray
<1>1. str[p].pos \in Nat /\ str[p].last \in Link /\ File(p).first \in Link /\ Good(vol)
    BY Typing, ObjectFields DEF File
<1>2. SeekTo(p, len) \in Walked(vol)
    BY <1>1, SeekToIs
<1> DEFINE x == [str[p] EXCEPT !.pos = len, !.last = SeekTo(p, len).r]
<1>3. x \in Stream /\ x.of = str[p].of
    BY <1>2, Typing DEF Stream, Walked
<1>4. str' = str \/ str' = [str EXCEPT ![p] = x]
    BY Typing DEF SoughtTo, IInv, FilesTyped
<1> HIDE DEF x
<1>5. str' \in [Procs -> Stream] /\ \A q \in Procs : str'[q].of = str[q].of
    BY <1>3, <1>4, StrSet, Unchanged
<1> QED
    BY <1>2, <1>5 DEF SoughtTo, Walked, Noted, MayStray

\* fat_seek.
LEMMA SeekKeeps ==
    ASSUME IInv, NEW p \in Procs, Seek(p)
    PROVE  IInv' /\ SameDir
<1>1. PICK len \in 0..File(p).size : SoughtTo(p, len)
    BY DEF Seek
<1>2. Shared(p) /\ UNCHANGED <<file, op, writer>>
    BY DEF Seek
<1>3. len \in Nat
    BY <1>2, SharedFacts
<1>4. /\ Moves(vol, vol', {}) /\ str' \in [Procs -> Stream] /\ \A q \in Procs : str'[q].of = str[q].of
      /\ MayStray
    BY <1>1, <1>2, <1>3, SoughtToIs, SharedFacts
<1>5. FilesTyped'
    BY <1>2, <1>4, Unchanged DEF FilesTyped
<1>6. op' = [op EXCEPT ![p] = op[p]] /\ op[p] \in Op /\ Known(op[p], str[p].of)
    BY <1>2, Typing
<1> QED
    BY <1>2, <1>4, <1>5, <1>6, SharedFacts, SharedStep

\* The next cluster of a stream.
LEMMA NextOfIs ==
    ASSUME IInv, NEW p \in Procs, str[p].of \in Bindings
    PROVE  Moves(vol, NextOf(p).d, {}) /\ NextOf(p).r \in Link
<1>1. str[p].last \in Link /\ File(p).first \in Link /\ Good(vol)
    BY Typing, ObjectFields DEF File
<1>2. CASE str[p].pos = 0
    BY <1>1, <1>2, StillMoves DEF NextOf
<1>3. CASE str[p].pos # 0
    <2>1. PICK c \in Link : c = IF str[p].last = Failed THEN File(p).first ELSE str[p].last
        BY <1>1
    <2>2. NextOf(p) = GetNext(vol, c)
        BY <1>3, <2>1 DEF NextOf
    <2> QED
        BY <1>1, <2>2, GetNextIs
<1> QED
    BY <1>2, <1>3

\* A stream a cluster further on.
LEMMA MovedIs ==
    ASSUME IInv, NEW p \in Procs, NEW c \in Link, Moved(p, c)
    PROVE  str' \in [Procs -> Stream] /\ \A q \in Procs : str'[q].of = str[q].of
<1> DEFINE x == [str[p] EXCEPT !.pos = @ + 1, !.last = c]
<1>1. x \in Stream /\ x.of = str[p].of
    <2>1. str[p] \in Stream /\ str[p].pos + 1 \in Nat
        BY Typing
    <2> QED
        BY <2>1 DEF Stream
<1>2. str' = [str EXCEPT ![p] = x]
    BY Typing DEF Moved, IInv, FilesTyped
<1> HIDE DEF x
<1> QED
    BY <1>1, <1>2, StrSet

\* fat_readwrite, to read.
LEMMA ReadKeeps ==
    ASSUME IInv, NEW p \in Procs, Read(p)
    PROVE  IInv' /\ SameDir
<1>1. /\ Shared(p) /\ UNCHANGED <<file, op, writer>>
      /\ vol' = NextOf(p).d /\ MayStray
      /\ str' = str \/ Moved(p, NextOf(p).r)
    BY DEF Read, Noted, MayStray
<1>2. Moves(vol, vol', {}) /\ NextOf(p).r \in Link
    BY <1>1, SharedFacts, NextOfIs
<1>3. str' \in [Procs -> Stream] /\ \A q \in Procs : str'[q].of = str[q].of
    BY <1>1, <1>2, MovedIs, Unchanged
<1>4. FilesTyped'
    BY <1>1, <1>3, Unchanged DEF FilesTyped
<1>5. op' = [op EXCEPT ![p] = op[p]] /\ op[p] \in Op /\ Known(op[p], str[p].of)
    BY <1>1, Typing
<1> QED
    BY <1>1, <1>2, <1>3, <1>4, <1>5, SharedFacts, SharedStep

\* fat_readwrite, to write.
LEMMA WriteKeeps ==
    ASSUME IInv, NEW p \in Procs, Write(p)
    PROVE  IInv' /\ SameDir
<1> DEFINE g == NextOf(p)
           w == [g.d EXCEPT !.panic = TRUE]
           x == [Idle EXCEPT !.pc = "alloc", !.of = str[p].of]
           b == str[p].of
           n == IF str[p].pos + 1 > file[b].size THEN str[p].pos + 1 ELSE file[b].size
           f == [file[b] EXCEPT !.size = n]
<1>1. /\ Shared(p) /\ UNCHANGED <<broken, writer>>
      /\ vol' = g.d \/ vol' = w
      /\ \/ op' = [op EXCEPT ![p] = x] /\ UNCHANGED <<file, str>>
         \/ op' = op /\ Moved(p, g.r) /\ Longer(p)
    BY DEF Write
<1>2. Moves(vol, g.d, {}) /\ g.r \in Link /\ b \in Bindings /\ b # None
    BY <1>1, SharedFacts, NextOfIs
<1>3. x \in Op /\ x.pc = "alloc" /\ x.job = "none" /\ x.of = b
    <2>1. b \in {None} \cup Bindings
        BY <1>2
    <2> HIDE DEF b
    <2> QED
        BY <2>1, IdleIs DEF Op, b
<1>4. Longer(p) => file' = [file EXCEPT ![b] = f]
    BY <1>2 DEF Longer, IInv, FilesTyped
<1>5. f \in Object
    <2>1. n \in Nat
        BY <1>2, ObjectFields, Typing
    <2> HIDE DEF n
    <2> QED
        BY <1>2, <2>1, ObjectFields DEF Object
<1> HIDE DEF g, x, b, f
<1>6. Moves(vol, vol', {})
    <2>1. Moves(g.d, w, {})
        BY <1>2, PanicMoves, GoodAfter
    <2>2. Moves(vol, w, {})
        BY <1>2, <2>1, MovesAgain
    <2> HIDE DEF w
    <2> QED
        BY <1>1, <1>2, <2>2
<1>7. CASE op' = [op EXCEPT ![p] = x] /\ UNCHANGED <<file, str>>
    <2>1. ~Exclusive(x) /\ Known(x, b)
        BY <1>2, <1>3 DEF Exclusive, Known
    <2>2. FilesTyped' /\ \A q \in Procs : str'[q].of = str[q].of
        BY <1>7, Unchanged DEF FilesTyped
    <2> QED
        BY <1>1, <1>2, <1>3, <1>6, <1>7, <2>1, <2>2, SharedFacts, SharedStep DEF b, MayStray
<1>8. CASE op' = op /\ Moved(p, g.r) /\ Longer(p)
    <2>1. str' \in [Procs -> Stream] /\ \A q \in Procs : str'[q].of = str[q].of
        BY <1>2, <1>8, MovedIs
    <2>2. FilesTyped'
        BY <1>2, <1>4, <1>5, <1>8, <2>1, FileSet DEF FilesTyped
    <2>3. op' = [op EXCEPT ![p] = op[p]] /\ op[p] \in Op /\ Known(op[p], str[p].of)
        BY <1>8, Typing
    <2> QED
        BY <1>1, <1>6, <2>1, <2>2, <2>3, SharedFacts, SharedStep DEF MayStray
<1> QED
    BY <1>1, <1>7, <1>8

(***************************************************************************)
(* Truncation, and whatever else changes the table.                        *)
(***************************************************************************)
LEMMA TableStep ==
    ASSUME IInv, NEW p \in Procs, NEW x \in Op, op' = [op EXCEPT ![p] = x],
           Exclusive(x) <=> Exclusive(op[p]), op[p].pc \notin {"idle", "commit", "oldentry"},
           Exclusive(x) => x.pc \notin {"idle", "release", "newentry"},
           ~Exclusive(x) => str[p].of # None, Known(x, str[p].of),
           FilesTyped', \A q \in Procs : str'[q].of = str[q].of,
           Moves(vol, vol', FatSectors), UNCHANGED <<broken, left, writer>>
    PROVE  IInv' /\ SameDir
<1>1. Dir \notin FatSectors
    BY Geometry
<1>2. LoansSame
    BY Typing
<1>3. CASE ~Exclusive(op[p])
    <2>1. writer = None
        BY <1>3 DEF IInv, LockHeld, CallsTyped
    <2> QED
        BY <1>1, <1>2, <1>3, <2>1, SharedStep DEF MayStray
<1>4. CASE Exclusive(op[p])
    <2>1. writer = p /\ \A q \in Procs : q # p => op[q].pc = "idle"
        BY <1>4 DEF IInv, LockHeld
    <2>2. Settled(vol, Dir)
        BY <2>1 DEF IInv, DirtKnown
    <2>3. Settled(vol', Dir)
        BY <1>1, <2>2, Typing, SettledStays
    <2>4. Known(x, str'[p].of)
        OBVIOUS
    <2> QED
        BY <1>1, <1>2, <1>4, <2>1, <2>3, <2>4, AloneStep, DirStays DEF MayStray
<1> QED
    BY <1>3, <1>4

\* next_write_cluster, in fat_readwrite.
LEMMA AllocKeeps ==
    ASSUME IInv, NEW p \in Procs, Alloc(p)
    PROVE  IInv' /\ SameDir
<1> DEFINE b == str[p].of
           last == IF str[p].last = Failed THEN File(p).first ELSE str[p].last
           old == IF str[p].pos = 0 THEN None ELSE last
           a == NextWriteCluster(vol, old)
           n == IF str[p].pos + 1 > file[b].size THEN str[p].pos + 1 ELSE file[b].size
           first == IF str[p].pos = 0 THEN a.r ELSE file[b].first
           f == [file[b] EXCEPT !.first = first, !.size = n]
<1>1. /\ At(p, "alloc") /\ vol' = a.d /\ writer' = writer
      /\ op' = [op EXCEPT ![p] = Idle]
      /\ \/ UNCHANGED <<file, str>>
         \/ /\ Moved(p, a.r)
            /\ file' = [file EXCEPT ![b].first = IF str[p].pos = 0 THEN a.r ELSE @,
                                    ![b].size = IF str[p].pos + 1 > @ THEN str[p].pos + 1 ELSE @]
    BY DEF Alloc
<1>2. UNCHANGED <<broken, left>> /\ op[p].pc = "alloc" /\ ~Exclusive(op[p]) /\ b # None /\ b \in Bindings
    BY <1>1, Typing DEF At, Known, Exclusive
<1>3. old \in {None} \cup Clusters
    BY <1>2, Typing, ObjectFields DEF Link, File
<1>4. Moves(vol, a.d, FatSectors) /\ a.r \in {None} \cup Clusters
    <2> HIDE DEF old
    <2> QED
        BY <1>3, Typing, NextWriteClusterIs
<1>5. n \in Nat /\ first \in {None} \cup Clusters
    <2> HIDE DEF a
    <2> QED
        BY <1>2, <1>4, Typing, ObjectFields
<1> HIDE DEF a, old, last
<1>6. str' \in [Procs -> Stream] /\ \A q \in Procs : str'[q].of = str[q].of
    <2>1. a.r \in Link
        BY <1>4 DEF Link
    <2> QED
        BY <1>1, <2>1, MovedIs, Unchanged
<1>7. file' \in [Bindings -> Object]
    <2>1. CASE file' = file
        BY <2>1, Unchanged
    <2>2. CASE file' = [file EXCEPT ![b].first = IF str[p].pos = 0 THEN a.r ELSE @,
                                    ![b].size = IF str[p].pos + 1 > @ THEN str[p].pos + 1 ELSE @]
        <3>1. file' = [file EXCEPT ![b] = f]
            BY <1>2, <2>2 DEF IInv, FilesTyped, Object
        <3> HIDE DEF n, first
        <3>2. f \in Object
            BY <1>2, <1>5, ObjectFields DEF Object
        <3> HIDE DEF f
        <3> QED
            BY <1>2, <3>1, <3>2, FileSet
    <2> QED
        BY <1>1, <2>1, <2>2
<1>8. FilesTyped'
    BY <1>6, <1>7 DEF FilesTyped
<1> QED
    BY <1>1, <1>2, <1>4, <1>6, <1>8, IdleIs, TableStep DEF b

\* The next step of a truncation: the call's, or the closing of its file.
LEMMA GiveUpIs ==
    ASSUME IInv, NEW p \in Procs, NEW job \in {"trunc", "sync", "close"}, str[p].of \in Bindings,
           GiveUp(p, job)
    PROVE  \E x \in Op : /\ op' = [op EXCEPT ![p] = x] /\ Known(x, str[p].of)
                         /\ Exclusive(x) <=> job # "trunc"
                         /\ x.pc \in {"idle", "closewrite"}
                         /\ x.pc = "idle" <=> job = "trunc"
<1>1. CASE job = "trunc"
    BY <1>1, IdleIs DEF GiveUp
<1>2. CASE job # "trunc"
    <2> DEFINE x == [Idle EXCEPT !.pc = "closewrite", !.job = job, !.of = str[p].of]
    <2>1. x \in Op /\ x.pc = "closewrite" /\ x.job = job /\ x.of = str[p].of
        <3>1. PICK b \in Bindings : b = str[p].of
            OBVIOUS
        <3>2. [Idle EXCEPT !.pc = "closewrite", !.job = job, !.of = b] \in Op
            BY IdleIs DEF Op
        <3> QED
            BY <3>1, <3>2, IdleIs DEF Op
    <2>2. op' = [op EXCEPT ![p] = x]
        BY <1>2 DEF GiveUp
    <2> HIDE DEF x
    <2>3. Known(x, str[p].of) /\ Exclusive(x)
        BY <1>2, <2>1, BindingsAssumption DEF Known, Exclusive
    <2> QED
        BY <1>2, <2>1, <2>2, <2>3
<1> QED
    BY <1>1, <1>2

\* ftruncate_internal begins.
LEMMA StartTruncateIs ==
    ASSUME IInv, NEW p \in Procs, NEW job \in {"trunc", "sync", "close"}, str[p].of \in Bindings,
           NEW len \in Nat, StartTruncate(p, job, len)
    PROVE  /\ Moves(vol, vol', {}) /\ str' \in [Procs -> Stream]
           /\ \A q \in Procs : str'[q].of = str[q].of
           /\ MayStray
           /\ \E x \in Op : /\ op' = [op EXCEPT ![p] = x] /\ Known(x, str[p].of)
                            /\ Exclusive(x) <=> job # "trunc"
                            /\ x.pc \in {"idle", "closewrite", "cut"}
                            /\ x.pc = "idle" => job = "trunc"
<1>1. SoughtTo(p, len)
    BY DEF StartTruncate
<1>2. CASE GiveUp(p, job)
    BY <1>1, <1>2, SoughtToIs, GiveUpIs
<1>3. CASE ~GiveUp(p, job)
    <2> DEFINE x == [Idle EXCEPT !.pc = "cut", !.job = job, !.of = str[p].of, !.len = len]
    <2>1. x \in Op /\ x.pc = "cut" /\ x.job = job /\ x.of = str[p].of /\ x.cur = None /\ x.next = None
        <3>1. PICK b \in Bindings : b = str[p].of
            OBVIOUS
        <3>2. [Idle EXCEPT !.pc = "cut", !.job = job, !.of = b, !.len = len] \in Op
            BY IdleIs DEF Op
        <3> QED
            BY <3>1, <3>2, IdleIs DEF Op
    <2>2. op' = [op EXCEPT ![p] = x]
        BY <1>3 DEF StartTruncate
    <2> HIDE DEF x
    <2>3. Known(x, str[p].of) /\ (Exclusive(x) <=> job # "trunc")
        BY <2>1, BindingsAssumption DEF Known, Exclusive, Link
    <2> QED
        BY <1>1, <2>1, <2>2, <2>3, SoughtToIs
<1> QED
    BY <1>2, <1>3

\* ftruncate.
LEMMA TruncateKeeps ==
    ASSUME IInv, NEW p \in Procs, Truncate(p)
    PROVE  IInv' /\ SameDir
<1>1. PICK len \in 0..File(p).size : StartTruncate(p, "trunc", len)
    BY DEF Truncate
<1>2. Shared(p) /\ UNCHANGED <<file, writer>>
    BY DEF Truncate
<1>3. len \in Nat /\ str[p].of \in Bindings /\ str[p].of # None
    BY <1>2, SharedFacts
<1>4. /\ Moves(vol, vol', {}) /\ str' \in [Procs -> Stream]
      /\ MayStray /\ \A q \in Procs : str'[q].of = str[q].of
    BY <1>1, <1>3, StartTruncateIs
<1>5. PICK x \in Op : op' = [op EXCEPT ![p] = x] /\ Known(x, str[p].of) /\ ~Exclusive(x)
    BY <1>1, <1>3, StartTruncateIs
<1>6. FilesTyped'
    BY <1>2, <1>4, Unchanged DEF FilesTyped
<1> QED
    BY <1>2, <1>3, <1>4, <1>5, <1>6, SharedFacts, SharedStep

\* Further in the same truncation.
LEMMA ChainStep ==
    ASSUME IInv, NEW p \in Procs, op[p].pc \in {"cut", "mark", "free", "unlink"},
           NEW pc \in {"mark", "free", "unlink"}, NEW cur \in Link, NEW next \in Link,
           op' = [op EXCEPT ![p] = [op[p] EXCEPT !.pc = pc, !.cur = cur, !.next = next]],
           pc = "mark" => op[p].pc = "cut", UNCHANGED <<file, str, writer, broken, left>>,
           Moves(vol, vol', FatSectors)
    PROVE  IInv' /\ SameDir
<1> DEFINE x == [op[p] EXCEPT !.pc = pc, !.cur = cur, !.next = next]
<1>1. op[p] \in Op /\ Known(op[p], str[p].of)
    BY Typing
<1>2. Link \subseteq Int
    BY Geometry DEF Link, None, Failed
<1>3. x \in Op /\ x.pc = pc /\ x.cur = cur /\ x.next = next /\ x.job = op[p].job /\ x.of = op[p].of
    <2>1. cur \in Int /\ next \in Int
        BY <1>2
    <2> QED
        BY <1>1, <2>1 DEF Op
<1> HIDE DEF x
<1>4. Known(x, str[p].of) /\ (Exclusive(x) <=> Exclusive(op[p]))
    BY <1>1, <1>3 DEF Known, Exclusive
<1>5. ~Exclusive(x) => str[p].of # None
    <2>1. op[p].job \in {"none", "trunc", "sync", "close", "discard"}
        BY <1>1 DEF Op
    <2> QED
        BY <1>1, <1>3, <2>1 DEF Known, Exclusive
<1>6. FilesTyped' /\ \A q \in Procs : str'[q].of = str[q].of
    BY Unchanged DEF FilesTyped
<1> QED
    BY <1>3, <1>4, <1>5, <1>6, TableStep DEF x

\* fat_truncate looks up the cluster after the last.
LEMMA CutKeeps ==
    ASSUME IInv, NEW p \in Procs, Cut(p)
    PROVE  IInv' /\ SameDir
<1> DEFINE g == GetNext(vol, str[p].last)
<1>1. /\ At(p, "cut") /\ UNCHANGED <<file, str, writer>>
      /\ \/ Goto(p, "free") /\ vol' = vol
         \/ vol' = g.d /\ op' = [op EXCEPT ![p].pc = "mark", ![p].cur = g.r]
    BY DEF Cut
<1>2. /\ op[p].pc = "cut" /\ UNCHANGED <<broken, left>> /\ op[p].cur \in Link /\ op[p].next \in Link
      /\ op[p] \in Op /\ op \in [Procs -> Op]
    BY <1>1, Typing DEF At, Known
<1>3. Moves(vol, g.d, {}) /\ g.r \in Link
    BY Typing, GetNextIs
<1>4. Moves(vol, vol', FatSectors)
    BY <1>1, <1>3, MovesMore, StillMoves, Typing
<1> HIDE DEF g
<1>5. CASE Goto(p, "free")
    <2>1. op' = [op EXCEPT ![p] = [op[p] EXCEPT !.pc = "free", !.cur = op[p].cur, !.next = op[p].next]]
        BY <1>2, <1>5 DEF Goto, Op
    <2> QED
        BY <1>1, <1>2, <1>4, <2>1, ChainStep
<1>6. CASE op' = [op EXCEPT ![p].pc = "mark", ![p].cur = g.r]
    <2>1. op' = [op EXCEPT ![p] = [op[p] EXCEPT !.pc = "mark", !.cur = g.r, !.next = op[p].next]]
        BY <1>2, <1>6 DEF Op
    <2> QED
        BY <1>1, <1>2, <1>3, <1>4, <2>1, ChainStep
<1> QED
    BY <1>1, <1>5, <1>6

\* fat_truncate marks the last.
LEMMA MarkKeeps ==
    ASSUME IInv, NEW p \in Procs, Mark(p)
    PROVE  IInv' /\ SameDir
<1> DEFINE u == UpdateFat(vol, str[p].last, EndMark)
<1>1. /\ At(p, "mark") /\ UNCHANGED <<file, str, writer>>
      /\ vol' = u.d
      /\ Goto(p, "free") \/ GiveUp(p, op[p].job)
    BY DEF Mark
<1>2. /\ op[p].pc = "mark" /\ UNCHANGED <<broken, left>> /\ op[p].cur \in Link /\ op[p].next \in Link
      /\ op[p] \in Op /\ op \in [Procs -> Op] /\ op[p].job \in {"trunc", "sync", "close"}
      /\ str[p].of # None /\ str[p].of \in Bindings
    BY <1>1, Typing DEF At, Known
<1>3. Moves(vol, vol', FatSectors)
    BY <1>1, Typing, UpdateFatIs, MarksAreWords
<1>4. CASE Goto(p, "free")
    <2>1. op' = [op EXCEPT ![p] = [op[p] EXCEPT !.pc = "free", !.cur = op[p].cur, !.next = op[p].next]]
        BY <1>2, <1>4 DEF Goto, Op
    <2> QED
        BY <1>1, <1>2, <1>3, <2>1, ChainStep
<1>5. CASE GiveUp(p, op[p].job)
    <2>1. PICK x \in Op : /\ op' = [op EXCEPT ![p] = x] /\ Known(x, str[p].of)
                          /\ Exclusive(x) <=> op[p].job # "trunc"
                          /\ x.pc \in {"idle", "closewrite"}
                          /\ x.pc = "idle" <=> op[p].job = "trunc"
        BY <1>2, <1>5, GiveUpIs
    <2>2. Exclusive(op[p]) <=> op[p].job # "trunc"
        BY <1>2 DEF Exclusive
    <2>3. FilesTyped' /\ \A q \in Procs : str'[q].of = str[q].of
        BY <1>1, Unchanged DEF FilesTyped
    <2>4. Exclusive(x) => x.pc \notin {"idle", "release", "newentry"}
        BY <2>1
    <2> QED
        BY <1>1, <1>2, <1>3, <2>1, <2>2, <2>3, <2>4, TableStep
<1> QED
    BY <1>1, <1>4, <1>5

\* free_cluster_chain looks up the next cluster.
LEMMA FreeNextKeeps ==
    ASSUME IInv, NEW p \in Procs, FreeNext(p)
    PROVE  IInv' /\ SameDir
<1> DEFINE g == GetNext(vol, op[p].cur)
<1>1. /\ At(p, "free") /\ UNCHANGED <<file, str, writer>>
      /\ vol' = g.d /\ op' = [op EXCEPT ![p].pc = "unlink", ![p].next = g.r]
    BY DEF FreeNext
<1>2. /\ op[p].pc = "free" /\ UNCHANGED <<broken, left>> /\ op[p].cur \in Link
      /\ op[p] \in Op /\ op \in [Procs -> Op]
    BY <1>1, Typing DEF At, Known
<1>3. Moves(vol, g.d, {}) /\ g.r \in Link
    BY <1>2, Typing, GetNextIs
<1>4. Moves(vol, vol', FatSectors)
    BY <1>1, <1>3, MovesMore
<1> HIDE DEF g
<1>5. op' = [op EXCEPT ![p] = [op[p] EXCEPT !.pc = "unlink", !.cur = op[p].cur, !.next = g.r]]
    BY <1>1, <1>2 DEF Op
<1>6. op[p].pc \in {"cut", "mark", "free", "unlink"} /\ UNCHANGED <<file, str, writer, broken, left>>
    BY <1>1, <1>2
<1> QED
    BY <1>2, <1>3, <1>4, <1>5, <1>6, ChainStep

\* free_cluster_chain frees one.
LEMMA UnlinkKeeps ==
    ASSUME IInv, NEW p \in Procs, Unlink(p)
    PROVE  IInv' /\ SameDir
<1> DEFINE u == UpdateFat(vol, op[p].cur, None)
           cur == IF u.ok THEN op[p].next ELSE None
<1>1. /\ At(p, "unlink") /\ UNCHANGED <<file, str, writer>> /\ vol' = u.d
      /\ op' = [op EXCEPT ![p].pc = "free", ![p].next = None, ![p].cur = cur]
    BY DEF Unlink
<1>2. /\ op[p].pc = "unlink" /\ UNCHANGED <<broken, left>>
      /\ op[p].cur \in Link /\ op[p].next \in Link /\ op[p] \in Op /\ op \in [Procs -> Op]
    BY <1>1, Typing DEF At, Known
<1>3. Moves(vol, vol', FatSectors)
    BY <1>1, <1>2, Typing, UpdateFatIs, MarksAreWords
<1>4. cur \in Link /\ None \in Link
    BY <1>2 DEF Link
<1> HIDE DEF u, cur
<1>5. op' = [op EXCEPT ![p] = [op[p] EXCEPT !.pc = "free", !.cur = cur, !.next = None]]
    BY <1>1, <1>2 DEF Op
<1>6. op[p].pc \in {"cut", "mark", "free", "unlink"} /\ UNCHANGED <<file, str, writer, broken, left>>
    BY <1>1, <1>2
<1> QED
    BY <1>2, <1>3, <1>4, <1>5, <1>6, ChainStep

\* handle_truncate: the other streams of a file.
LEMMA RewoundIs ==
    ASSUME NEW st \in [Procs -> Stream], NEW p \in Procs, NEW len
    PROVE  /\ Rewound(st, p, len) \in [Procs -> Stream]
           /\ \A q \in Procs : Rewound(st, p, len)[q].of = st[q].of
<1> DEFINE r == Rewound(st, p, len)
           x(q) == [st[q] EXCEPT !.pos = st[p].pos, !.last = st[p].last]
<1>1. \A q \in Procs : x(q) \in Stream /\ x(q).of = st[q].of
    BY DEF Stream
<1>2. r = [q \in Procs |-> IF st[q].of = st[p].of /\ st[q].pos > len THEN x(q) ELSE st[q]]
    BY DEF Rewound
<1> HIDE DEF x, r
<1>3. r \in [Procs -> Stream] /\ \A q \in Procs : r[q].of = st[q].of
    BY <1>1, <1>2
<1> QED
    BY <1>3 DEF r

\* The chain is freed: each kind of call goes on in its own way.
LEMMA FreedKeeps ==
    ASSUME IInv, NEW p \in Procs, Freed(p)
    PROVE  IInv' /\ SameDir
<1> DEFINE b == op[p].of
           len == op[p].len
           f == [file[b] EXCEPT !.trunc = FALSE]
           c == [file[b] EXCEPT !.trunc = FALSE, !.size = len]
<1>1. /\ At(p, "free") /\ UNCHANGED <<vol, writer>>
    BY DEF Freed
<1>2. /\ op[p].pc = "free" /\ UNCHANGED <<broken, left>> /\ b \in Bindings /\ len \in Nat
      /\ op[p] \in Op /\ op \in [Procs -> Op] /\ op[p].job \in {"trunc", "sync", "close", "discard"}
      /\ Known(op[p], str[p].of)
    <2>1. op[p].len \in Nat /\ op[p].job \in {"none", "trunc", "sync", "close", "discard"}
        BY Typing DEF Op
    <2> QED
        BY <1>1, <2>1, Typing DEF At, Known
<1>3. Moves(vol, vol', FatSectors)
    BY <1>1, Typing, StillMoves
<1>4. f \in Object /\ c \in Object
    BY <1>2, ObjectFields DEF Object
<1>5. CASE op[p].job = "discard"
    <2> DEFINE x == [op[p] EXCEPT !.pc = "commit"]
    <2>1. x \in Op /\ x.pc = "commit" /\ x.job = "discard" /\ x.of = b
        BY <1>2, <1>5 DEF Op
    <2>2. op' = [op EXCEPT ![p] = x] /\ UNCHANGED <<file, str>>
        BY <1>5 DEF Freed, Goto
    <2> HIDE DEF x
    <2>3. Exclusive(x) /\ Exclusive(op[p]) /\ Known(x, str[p].of)
        BY <1>2, <1>5, <2>1 DEF Exclusive, Known
    <2>4. FilesTyped' /\ \A q \in Procs : str'[q].of = str[q].of
        BY <2>2, Unchanged DEF FilesTyped
    <2> QED
        BY <1>1, <1>2, <1>3, <2>1, <2>2, <2>3, <2>4, TableStep
<1>6. CASE op[p].job \in {"close", "sync"}
    <2> DEFINE x == [op[p] EXCEPT !.pc = "closewrite"]
    <2>1. x \in Op /\ x.pc = "closewrite" /\ x.job = op[p].job /\ x.of = b
        BY <1>2 DEF Op
    <2>2. op' = [op EXCEPT ![p] = x] /\ str' = str /\ file' = [file EXCEPT ![b].trunc = FALSE]
        BY <1>6 DEF Freed, Goto
    <2>3. file' = [file EXCEPT ![b] = f]
        BY <1>2, <2>2 DEF IInv, FilesTyped
    <2> HIDE DEF x, f
    <2>4. Exclusive(x) /\ Exclusive(op[p]) /\ Known(x, str[p].of)
        BY <1>2, <1>6, <2>1 DEF Exclusive, Known
    <2>5. FilesTyped' /\ \A q \in Procs : str'[q].of = str[q].of
        BY <1>2, <1>4, <2>2, <2>3, Unchanged, FileSet DEF FilesTyped
    <2> QED
        BY <1>1, <1>2, <1>3, <2>1, <2>2, <2>4, <2>5, TableStep
<1>7. CASE op[p].job = "trunc"
    <2>1. /\ op' = [op EXCEPT ![p] = Idle] /\ file' = [file EXCEPT ![b].trunc = FALSE, ![b].size = len]
          /\ str' = str \/ str' = Rewound(str, p, len)
        BY <1>7 DEF Freed
    <2>2. file' = [file EXCEPT ![b] = c]
        BY <1>2, <2>1 DEF IInv, FilesTyped, Object
    <2> HIDE DEF c, len
    <2>3. ~Exclusive(op[p]) /\ str[p].of # None
        BY <1>2, <1>7 DEF Exclusive, Known
    <2>4. str' \in [Procs -> Stream] /\ \A q \in Procs : str'[q].of = str[q].of
        BY <2>1, Unchanged, RewoundIs, Typing DEF FilesTyped
    <2>5. FilesTyped'
        BY <1>2, <1>4, <2>2, <2>4, FileSet DEF FilesTyped
    <2> QED
        BY <1>1, <1>2, <1>3, <2>1, <2>3, <2>4, <2>5, IdleIs, TableStep
<1> QED
    BY <1>2, <1>5, <1>6, <1>7

(***************************************************************************)
(* Calls that have the lock alone.                                         *)
(***************************************************************************)
LEMMA AloneFacts ==
    ASSUME IInv, NEW p \in Procs, NoCall(p)
    PROVE  /\ writer = None /\ \A q \in Procs : op[q].pc = "idle" /\ ~Exclusive(op[q])
           /\ Settled(vol, Dir)
           /\ Calls => LoansSame
           /\ vol.disk[Dir] \in [Slots -> DirSlot] /\ Contents(vol, Dir) = vol.disk[Dir]
<1>1. writer = None /\ \A q \in Procs : op[q].pc = "idle" /\ ~Exclusive(op[q])
    BY NoWriter DEF NoCall
<1>2. Settled(vol, Dir)
    BY <1>1, ProcsAssumption DEF IInv, DirtKnown
<1>3. Calls => LoansSame
    BY Typing, SpendTyped DEF Calls
<1>4. vol.disk[Dir] \in Data(Dir)
    BY Typing, Geometry DEF Good, DiskOK
<1>5. Contents(vol, Dir) = vol.disk[Dir]
    <2>1. Dir \in Sectors /\ Good(vol)
        BY Typing, Geometry
    <2>2. CASE \A e \in vol.used : vol.sector[e] # Dir
        BY <2>1, <2>2, ContentsIs
    <2>3. CASE \E e \in vol.used : vol.sector[e] = Dir
        <3>1. PICK e \in vol.used : vol.sector[e] = Dir
            BY <2>3
        <3>2. e \in Holders(vol, Dir) /\ Contents(vol, Dir) = vol.buffer[e]
            BY <2>1, <3>1, ContentsIs
        <3>3. "dirty" \notin vol.flags[e]
            BY <1>2, <3>2 DEF Settled
        <3>4. vol.buffer[e] = vol.disk[Dir]
            BY <2>1, <3>1, <3>3 DEF Good, HeldOK
        <3> QED
            BY <3>2, <3>4
    <2> QED
        BY <2>2, <2>3
<1> QED
    BY <1>1, <1>2, <1>3, <1>4, <1>5 DEF Data

\* fsync and close begin.
LEMMA SyncKeeps ==
    ASSUME IInv, NEW p \in Procs, NEW job \in {"sync", "close"}, Sync(p, job)
    PROVE  IInv' /\ SameDir
<1>1. /\ NoCall(p) /\ Calls /\ str[p].of # None /\ writer' = p /\ file' = file
      /\ \/ StartTruncate(p, job, File(p).size)
         \/ GiveUp(p, job) /\ UNCHANGED <<vol, str, broken>>
    BY DEF Sync, Alone
<1>2. str[p].of \in Bindings /\ File(p).size \in Nat
    BY <1>1, Typing, ObjectFields DEF File
<1>3. /\ Moves(vol, vol', {}) /\ str' \in [Procs -> Stream] /\ \A q \in Procs : str'[q].of = str[q].of
      /\ MayStray
    BY <1>1, <1>2, StartTruncateIs, Unchanged, StillMoves, Typing DEF MayStray
<1>4. PICK x \in Op : /\ op' = [op EXCEPT ![p] = x] /\ Known(x, str[p].of)
                      /\ Exclusive(x) /\ x.pc \in {"closewrite", "cut"}
    BY <1>1, <1>2, StartTruncateIs, GiveUpIs
<1>5. FilesTyped'
    BY <1>1, <1>3, Unchanged DEF FilesTyped
<1>6. Settled(vol', Dir)
    BY <1>1, <1>3, AloneFacts, SettledStays, Typing
<1>7. Known(x, str'[p].of)
    BY <1>3, <1>4
<1> QED
    BY <1>1, <1>3, <1>4, <1>5, <1>6, <1>7, AloneFacts, AloneStep, DirStays

\* fat_closewrite.
LEMMA CloseWriteKeeps ==
    ASSUME IInv, NEW p \in Procs, CloseWrite(p)
    PROVE  IInv' /\ SameDir
<1> DEFINE b == op[p].of
           u == UpdateFat(vol, file[b].first, None)
           f == [file[b] EXCEPT !.first = None]
           s == [str[p] EXCEPT !.pos = 0, !.last = None]
<1>1. /\ At(p, "closewrite") /\ writer' = writer
      /\ Goto(p, "entry") \/ Goto(p, "commit")
      /\ vol' = vol \/ vol' = u.d
      /\ file' = file \/ file' = [file EXCEPT ![b].first = None]
      /\ str' = str \/ str' = [str EXCEPT ![p].pos = 0, ![p].last = None]
    BY DEF CloseWrite
<1>2. /\ op[p].pc = "closewrite" /\ UNCHANGED <<broken, left>> /\ b \in Bindings
      /\ op[p] \in Op /\ op \in [Procs -> Op] /\ op[p].job \in {"sync", "close"}
      /\ str[p].of # None
    BY <1>1, Typing DEF At, Known
<1>3. Moves(vol, vol', FatSectors)
    BY <1>1, <1>2, Typing, ObjectFields, UpdateFatIs, StillMoves, MarksAreWords
<1>4. f \in Object
    BY <1>2, ObjectFields DEF Object
<1>5. s \in Stream /\ s.of = str[p].of
    BY Typing DEF Stream, Link
<1>6. str' = str \/ str' = [str EXCEPT ![p] = s]
    BY <1>1, Typing DEF FilesTyped, Stream
<1>7. file' = file \/ file' = [file EXCEPT ![b] = f]
    BY <1>1, <1>2, Typing DEF FilesTyped
<1> HIDE DEF f, s
<1>8. FilesTyped' /\ \A q \in Procs : str'[q].of = str[q].of
    BY <1>2, <1>4, <1>5, <1>6, <1>7, Unchanged, StrSet, FileSet DEF FilesTyped
<1>9. PICK pc \in {"entry", "commit"} : Goto(p, pc)
    BY <1>1
<1> DEFINE x == [op[p] EXCEPT !.pc = pc]
<1>10. x \in Op /\ x.pc = pc /\ x.job = op[p].job /\ x.of = op[p].of
    BY <1>2 DEF Op
<1>11. op' = [op EXCEPT ![p] = x]
    BY <1>9 DEF Goto
<1> HIDE DEF x
<1>12. Exclusive(x) /\ Exclusive(op[p]) /\ Known(x, str[p].of)
    BY <1>2, <1>10 DEF Exclusive, Known
<1> QED
    BY <1>1, <1>2, <1>3, <1>8, <1>10, <1>11, <1>12, TableStep

\* update_short_entry: the directory's sector is written before the lock is dropped.
LEMMA WriteEntryKeeps ==
    ASSUME IInv, NEW p \in Procs, WriteEntry(p)
    PROVE  IInv'
<1> DEFINE f == file[op[p].of]
           c == CacheSector(vol, Dir)
           old == c.d.buffer[c.e][f.slot]
           new == [old EXCEPT !.first = f.first, !.size = f.size]
           w == [c.d EXCEPT !.panic = TRUE]
           u == PutSlot(vol, f.slot, new)
<1>1. /\ At(p, "entry") /\ Goto(p, "commit") /\ UNCHANGED <<file, str, writer>>
      /\ vol' = CASE f.slot = NoSlot -> vol
                  [] f.slot # NoSlot /\ c.e = NoEntry -> c.d
                  [] f.slot # NoSlot /\ c.e # NoEntry /\ old.name = NoName -> w
                  [] OTHER -> u.d
    BY Zenon DEF WriteEntry
<1>2. /\ op[p].pc = "entry" /\ UNCHANGED <<broken, left>> /\ op[p].of \in Bindings
      /\ op[p] \in Op /\ op \in [Procs -> Op] /\ op[p].job \in {"sync", "close"}
      /\ str[p].of # None
    BY <1>1, Typing, Zenon DEF At, Known
<1>3. Had(vol, Dir, c)
    BY Typing, Geometry, CacheSectorHas
<1>4. f.slot \in {NoSlot} \cup Slots /\ f.first \in {None} \cup Clusters /\ f.size \in Nat
    BY <1>2, ObjectFields
<1> HIDE DEF c, f
<1>5. Moves(vol, c.d, {Dir}) /\ Good(c.d)
    BY <1>3, KeptMoves DEF Had, Kept
<1>6. f.slot # NoSlot /\ c.e # NoEntry => new \in DirSlot
    <2> SUFFICES ASSUME f.slot # NoSlot, c.e # NoEntry PROVE new \in DirSlot
        OBVIOUS
    <2>1. c.d.buffer[c.e] \in [Slots -> DirSlot]
        BY <1>3, <1>5 DEF Had, Good, HeldOK, Data
    <2>2. old \in DirSlot
        BY <1>4, <2>1
    <2> HIDE DEF old
    <2> QED
        BY <1>4, <2>2 DEF DirSlot
<1> HIDE DEF old, new
<1>7. Moves(vol, w, {Dir})
    <2>1. Moves(c.d, w, {Dir})
        BY <1>5, PanicMoves
    <2> HIDE DEF w
    <2> QED
        BY <1>5, <2>1, MovesAgain
<1> HIDE DEF w
<1>8. Moves(vol, vol', {Dir})
    <2>1. f.slot # NoSlot /\ c.e # NoEntry => Moves(vol, u.d, {Dir})
        BY <1>6, Typing, PutSlotIs
    <2> HIDE DEF u
    <2>2. Moves(vol, vol, {Dir})
        BY Typing, StillMoves
    <2> QED
        BY <1>1, <1>5, <1>7, <2>1, <2>2
<1> DEFINE x == [op[p] EXCEPT !.pc = "commit"]
<1>9. x \in Op /\ x.pc = "commit" /\ x.job = op[p].job /\ x.of = op[p].of
    BY <1>2 DEF Op
<1>10. op' = [op EXCEPT ![p] = x]
    BY <1>1 DEF Goto
<1> HIDE DEF x, u
<1>11. Exclusive(x) /\ Exclusive(op[p]) /\ Known(x, str'[p].of)
    BY <1>1, <1>2, <1>9 DEF Exclusive, Known
<1>12. FilesTyped' /\ \A q \in Procs : str'[q].of = str[q].of
    BY <1>1, Unchanged DEF FilesTyped
<1>13. writer' = p /\ \A q \in Procs : q # p => op[q].pc = "idle"
    BY <1>1, <1>11 DEF IInv, LockHeld
<1>14. LoansSame
    BY <1>2, Typing
<1> QED
    BY <1>2, <1>8, <1>9, <1>10, <1>11, <1>12, <1>13, <1>14, AloneStep, ZenonT(60) DEF MayStray

NoFileIs == NoFile \in Object /\ NoStream \in Stream

\* The objects before anything is open.
LEMMA EmptyObjects == NoFileIs
BY DEF NoFileIs, NoFile, NoStream, Object, Stream, Link, NoSlot, None

\* The last stream of an object closes: what was removed is freed.
LEMMA ReleasedIs ==
    ASSUME IInv, NEW p \in Procs, NEW b \in Bindings, NEW users, Released(p, b, users)
    PROVE  /\ file' \in [Bindings -> Object]
           /\ \E x \in Op : /\ op' = [op EXCEPT ![p] = x] /\ \A of : Known(x, of)
                            /\ Exclusive(x) => writer' = writer /\ x.pc = "free"
                            /\ ~Exclusive(x) => writer' = None
                            /\ x.pc # "newentry"
<1>1. CASE users = {} /\ file[b].removed /\ file[b].first # None
    <2> DEFINE x == [Idle EXCEPT !.pc = "free", !.job = "discard", !.of = b, !.cur = file[b].first]
    <2>1. op' = [op EXCEPT ![p] = x] /\ UNCHANGED <<file, writer>>
        BY <1>1 DEF Released
    <2>2. x \in Op /\ x.pc = "free" /\ x.job = "discard" /\ x.of = b
          /\ x.cur \in Link /\ x.next \in Link
        <3>1. PICK c \in Link : c = file[b].first
            BY ObjectFields
        <3>2. c \in Int
            BY Geometry DEF Link, None, Failed
        <3>3. [Idle EXCEPT !.pc = "free", !.job = "discard", !.of = b, !.cur = c] \in Op
            BY <3>2, IdleIs DEF Op
        <3> QED
            BY <3>1, <3>3, IdleIs DEF Op, Link
    <2> HIDE DEF x
    <2>3. Exclusive(x) /\ \A of : Known(x, of)
        BY <2>2 DEF Exclusive, Known
    <2> QED
        BY <2>1, <2>2, <2>3, Unchanged
<1>2. CASE ~(users = {} /\ file[b].removed /\ file[b].first # None)
    <2>1. Done(p) /\ (file' = file \/ file' = [file EXCEPT ![b] = NoFile])
        BY <1>2 DEF Released
    <2>2. file' \in [Bindings -> Object]
        BY <2>1, Unchanged, FileSet, EmptyObjects DEF NoFileIs
    <2>3. op' = [op EXCEPT ![p] = Idle] /\ writer' = None
        BY <2>1 DEF Done
    <2> QED
        BY <2>2, <2>3, IdleIs
<1> QED
    BY <1>1, <1>2

\* The commit after an entry is written or removed: nothing is dirty any more.
LEMMA CommitStepKeeps ==
    ASSUME IInv, NEW p \in Procs, CommitStep(p)
    PROVE  IInv' /\ SameDir
<1> DEFINE b == op[p].of
<1>1. /\ At(p, "commit") /\ vol' = Commit(vol)
      /\ \/ Done(p) /\ UNCHANGED <<file, str>>
         \/ Released(p, b, Users(b) \ {p}) /\ str' = [str EXCEPT ![p] = NoStream]
         \/ Done(p) /\ file' = [file EXCEPT ![b] = NoFile] /\ str' = str
    BY DEF CommitStep
<1>2. Moves(vol, vol', {Info}) /\ Clean(vol')
    BY <1>1, Typing, CommitIs
<1>3. Exclusive(op[p])
    BY <1>1 DEF At, Exclusive
<1>4. /\ b \in Bindings /\ broken' = broken /\ LoansSame
      /\ writer = p /\ \A q \in Procs : q # p => op[q].pc = "idle"
    BY <1>1, <1>3, AtFacts
<1>5. SameDir
    BY <1>2, DirStays, Geometry
<1>6. CASE Done(p) /\ str' = str /\ (file' = file \/ file' = [file EXCEPT ![b] = NoFile])
    <2>1. op' = [op EXCEPT ![p] = Idle] /\ writer' = None
        BY <1>6 DEF Done
    <2>2. FilesTyped' /\ \A q \in Procs : str'[q].of = str[q].of
        BY <1>4, <1>6, Unchanged, FileSet, EmptyObjects DEF FilesTyped, NoFileIs
    <2>3. Known(Idle, str'[p].of)
        BY IdleIs
    <2> QED
        BY <1>2, <1>4, <1>5, <2>1, <2>2, <2>3, IdleIs, AloneStep DEF MayStray
<1>7. CASE Released(p, b, Users(b) \ {p}) /\ str' = [str EXCEPT ![p] = NoStream]
    <2>1. FilesTyped' /\ \A q \in Procs : q # p => str'[q].of = str[q].of
        BY <1>4, <1>7, ReleasedIs, StrSet, EmptyObjects DEF FilesTyped, NoFileIs
    <2>2. PICK x \in Op : /\ op' = [op EXCEPT ![p] = x] /\ \A of : Known(x, of)
                          /\ Exclusive(x) => writer' = writer /\ x.pc = "free"
                          /\ ~Exclusive(x) => writer' = None
                          /\ x.pc # "newentry"
        BY <1>4, <1>7, ReleasedIs
    <2> QED
        BY <1>2, <1>4, <1>5, <2>1, <2>2, AloneStep DEF MayStray
<1> QED
    BY <1>1, <1>6, <1>7

(***************************************************************************)
(* open and creat.                                                         *)
(***************************************************************************)
LEMMA BindingIs ==
    ASSUME IInv, NEW s, NEW taken, BoundTo(s) \cup (Unbound \ taken) # {}
    PROVE  /\ Binding(s, taken) \in Bindings
           /\ BoundTo(s) # {} => file[Binding(s, taken)].slot = s
<1>1. BoundTo(s) \subseteq Nat /\ Unbound \ taken \subseteq Nat
      /\ BoundTo(s) \subseteq Bindings /\ Unbound \subseteq Bindings
    BY BindingsAssumption DEF BoundTo, Unbound
<1>2. CASE BoundTo(s) # {}
    <2>1. Binding(s, taken) \in BoundTo(s)
        BY <1>1, <1>2, LowestIn DEF Binding
    <2> QED
        BY <1>1, <2>1 DEF BoundTo
<1>3. CASE BoundTo(s) = {}
    <2>1. Binding(s, taken) \in Unbound \ taken
        BY <1>1, <1>3, LowestIn DEF Binding
    <2> QED
        BY <1>1, <1>3, <2>1
<1> QED
    BY <1>2, <1>3

\* An object bound to a slot of the directory.
LEMMA BoundIs ==
    ASSUME IInv, NEW fs \in [Bindings -> Object], NEW b \in Bindings, NEW s \in Slots
    PROVE  /\ Bound(fs, b, s) \in [Bindings -> Object]
           /\ \A a \in Bindings : Bound(fs, b, s)[a].slot \in {fs[a].slot, s}
           /\ BoundTo(s) = {} => Bound(fs, b, s)[b].slot = s
<1> DEFINE x == [NoFile EXCEPT !.slot = s, !.first = vol.disk[Dir][s].first,
                               !.size = vol.disk[Dir][s].size]
<1>1. vol.disk[Dir] \in [Slots -> DirSlot]
    <2>1. vol.disk[Dir] \in Data(Dir)
        BY Geometry DEF IInv, VolKnown, Good, DiskOK
    <2> QED
        BY <2>1 DEF Data
<1>2. vol.disk[Dir][s] \in DirSlot
    BY <1>1
<1>3. x \in Object /\ x.slot = s
    <2>1. PICK e \in DirSlot : e = vol.disk[Dir][s]
        BY <1>2
    <2>2. [NoFile EXCEPT !.slot = s, !.first = e.first, !.size = e.size] \in Object
        BY EmptyObjects DEF NoFileIs, Object, DirSlot
    <2>3. x \in Object
        BY <2>1, <2>2
    <2>4. x.slot = s
        BY EmptyObjects DEF NoFileIs, Object
    <2> QED
        BY <2>3, <2>4
<1>4. Bound(fs, b, s) = IF BoundTo(s) # {} THEN fs ELSE [fs EXCEPT ![b] = x]
    BY DEF Bound
<1> HIDE DEF x
<1> QED
    BY <1>3, <1>4

Opened(p, trunc, s) ==
    /\ IF trunc THEN Calls ELSE left' = left
    /\ BoundTo(s) \cup Unbound # {}
    /\ LET b == Binding(s, {})
           fs == Bound(file, b, s)
           st == [str EXCEPT ![p] = [of |-> b, pos |-> 0, last |-> fs[b].first]]
       IN /\ file' = IF trunc THEN [fs EXCEPT ![b].trunc = TRUE, ![b].size = 0] ELSE fs
          /\ str' = IF trunc THEN Rewound(st, p, 0) ELSE st

\* open.
LEMMA OpenKeeps ==
    ASSUME IInv, NEW p \in Procs, Open(p)
    PROVE  IInv'
<1>1. NoCall(p) /\ UNCHANGED <<vol, broken, op, writer>>
    BY DEF Open
<1>2. PICK n \in Names, trunc \in BOOLEAN : \E s \in SlotNamed(n) : Opened(p, trunc, s)
    BY DEF Open, Opened
<1>3. PICK s \in SlotNamed(n) : Opened(p, trunc, s)
    BY <1>2
<1> DEFINE b == Binding(s, {})
           fs == Bound(file, b, s)
           y == [of |-> b, pos |-> 0, last |-> fs[b].first]
           st == [str EXCEPT ![p] = y]
           f == [fs[b] EXCEPT !.trunc = TRUE, !.size = 0]
<1>4. /\ file' = fs \/ file' = [fs EXCEPT ![b].trunc = TRUE, ![b].size = 0]
      /\ str' = st \/ str' = Rewound(st, p, 0)
    BY <1>3 DEF Opened
<1>5. LoansSame
    BY <1>1, <1>3, AloneFacts, Typing DEF Opened
<1>6. b \in Bindings /\ s \in Slots
    BY <1>3, BindingIs DEF SlotNamed, Opened
<1> HIDE DEF b
<1>7. fs \in [Bindings -> Object]
    BY <1>6, BoundIs, Typing DEF FilesTyped
<1> HIDE DEF fs
<1>8. fs[b] \in Object /\ f \in Object /\ y \in Stream /\ y.of = b
    <2>1. fs[b] \in Object
        BY <1>6, <1>7
    <2> QED
        BY <1>6, <2>1 DEF Object, Stream, Link
<1>9. file' \in [Bindings -> Object]
    <2>1. [fs EXCEPT ![b].trunc = TRUE, ![b].size = 0] = [fs EXCEPT ![b] = f]
        BY <1>6, <1>7 DEF Object
    <2>2. f \in Object
        BY <1>8
    <2> HIDE DEF f
    <2>3. [fs EXCEPT ![b] = f] \in [Bindings -> Object]
        BY <1>7, <2>2
    <2>4. [fs EXCEPT ![b].trunc = TRUE, ![b].size = 0] \in [Bindings -> Object]
        BY <2>1, <2>3, Zenon
    <2> QED
        BY <1>4, <1>7, <2>4, Zenon
<1> HIDE DEF f, y
<1>10. st \in [Procs -> Stream] /\ st[p].of = b /\ \A q \in Procs : q # p => st[q].of = str[q].of
    BY <1>8, Typing DEF FilesTyped
<1> HIDE DEF st
<1>11. str' \in [Procs -> Stream] /\ \A q \in Procs : str'[q].of = st[q].of
    BY <1>4, <1>10, RewoundIs
<1>12. str'[p].of # None
    BY <1>6, <1>10, <1>11, BindingsAssumption
<1>13. op' = [op EXCEPT ![p] = op[p]] /\ op[p] \in Op
    BY <1>1, Typing
<1>14. op[p].pc = "idle" /\ ~Exclusive(op[p]) /\ writer' = None /\ Settled(vol', Dir)
    BY <1>1, AloneFacts
<1>15. Known(op[p], str'[p].of)
    BY <1>12, <1>14, Typing DEF Known
<1>16. Moves(vol, vol', {})
    BY <1>1, Typing, StillMoves
<1>17. FilesTyped' /\ \A q \in Procs : q # p => str'[q].of = str[q].of
    BY <1>9, <1>10, <1>11 DEF FilesTyped
<1> QED
    BY <1>1, <1>5, <1>12, <1>13, <1>14, <1>15, <1>16, <1>17, AloneFacts, AloneStep DEF MayStray

\* add_dir_entry: a free slot.
LEMMA FreeSlotIs ==
    /\ FreeSlot \in DirSlot
    /\ \A data : FreeSlots(data) # {} => Lowest(FreeSlots(data)) \in FreeSlots(data)
    /\ \A data : FreeSlots(data) \subseteq Slots
<1>1. FreeSlot \in DirSlot
    BY DEF FreeSlot, DirSlot, None
<1>2. ASSUME NEW data PROVE FreeSlots(data) \subseteq Slots /\ FreeSlots(data) \subseteq Nat
    BY Geometry DEF FreeSlots
<1>3. ASSUME NEW data, FreeSlots(data) # {} PROVE Lowest(FreeSlots(data)) \in FreeSlots(data)
    BY <1>2, <1>3, LowestIn
<1> QED
    BY <1>1, <1>2, <1>3

\* open with O_CREAT, of a name that is not there.
LEMMA CreateKeeps ==
    ASSUME IInv, NEW p \in Procs, Create(p)
    PROVE  IInv'
<1> DEFINE s == Lowest(FreeSlots(Contents(vol, Dir)))
           b == Lowest(Unbound)
           f == [NoFile EXCEPT !.slot = s]
           y == [NoStream EXCEPT !.of = b]
           new(n) == [FreeSlot EXCEPT !.name = n]
           u(n) == PutSlot(vol, s, new(n))
<1>1. /\ NoCall(p) /\ Calls /\ Unbound # {} /\ FreeSlots(vol.disk[Dir]) # {}
      /\ UNCHANGED <<broken, op, writer>> /\ str[p].of = None
    BY DEF Create, Alone
<1>2. PICK n \in Names :
          /\ vol' = Commit(u(n).d)
          /\ \/ file' = [file EXCEPT ![b] = f] /\ str' = [str EXCEPT ![p] = y]
             \/ UNCHANGED <<file, str>>
    BY DEF Create
<1>3. s \in Slots /\ b \in Bindings
    <2>1. FreeSlots(Contents(vol, Dir)) # {}
        BY <1>1, AloneFacts
    <2>2. s \in Slots
        BY <2>1, FreeSlotIs
    <2>3. Unbound \subseteq Bindings /\ Unbound \subseteq Nat
        BY BindingsAssumption DEF Unbound
    <2> QED
        BY <1>1, <2>2, <2>3, LowestIn
<1> HIDE DEF s, b
<1>4. new(n) \in DirSlot
    BY FreeSlotIs DEF DirSlot
<1> HIDE DEF new
<1>5. Moves(vol, u(n).d, {Dir})
    BY <1>4, Typing, PutSlotIs
<1> HIDE DEF u
<1>6. Moves(u(n).d, vol', {Info}) /\ Clean(vol')
    BY <1>2, <1>5, CommitIs, GoodAfter
<1>7. Moves(vol, vol', {Info, Dir})
    BY <1>5, <1>6, MovesOn
<1>8. f \in Object
    BY <1>3, EmptyObjects DEF NoFileIs, Object
<1>9. y \in Stream /\ y.of = b
    BY <1>3, EmptyObjects DEF NoFileIs, Stream
<1> HIDE DEF f, y
<1>10. FilesTyped' /\ \A q \in Procs : q # p => str'[q].of = str[q].of
    BY <1>2, <1>3, <1>8, <1>9, Unchanged, StrSet, FileSet DEF FilesTyped
<1>11. op' = [op EXCEPT ![p] = op[p]] /\ op[p] \in Op
    BY <1>1, Typing
<1>12. op[p].pc = "idle" /\ ~Exclusive(op[p]) /\ writer' = None
    BY <1>1, AloneFacts
<1>13. Known(op[p], str'[p].of)
    <2>1. op[p].job \notin {"trunc", "sync", "close"}
        BY <1>1, Typing DEF Known
    <2> QED
        BY <2>1, <1>12 DEF Known
<1>14. \A q \in Procs : op[q].pc = "idle"
    BY <1>1, AloneFacts
<1>15. LoansSame /\ broken' = broken
    BY <1>1, AloneFacts
<1>16. op[p].pc # "newentry"
    BY <1>12
<1> QED
    BY <1>6, <1>7, <1>10, <1>11, <1>12, <1>13, <1>14, <1>15, <1>16, AloneStep DEF MayStray

(***************************************************************************)
(* remove and rename.                                                      *)
(***************************************************************************)
LEMMA RemoveFileKeeps ==
    ASSUME IInv, NEW p \in Procs, RemoveFile(p)
    PROVE  IInv'
<1>1. NoCall(p) /\ Calls /\ writer' = p /\ UNCHANGED <<vol, broken, str>>
    BY DEF RemoveFile, Alone
<1>2. PICK n \in Names : \E s \in SlotNamed(n) :
          /\ BoundTo(s) \cup Unbound # {}
          /\ op' = [op EXCEPT ![p] = [Idle EXCEPT !.pc = "remove", !.of = Binding(s, {})]]
          /\ file' = Bound(file, Binding(s, {}), s)
    BY DEF RemoveFile
<1>3. PICK s \in SlotNamed(n) :
          /\ BoundTo(s) \cup Unbound # {}
          /\ op' = [op EXCEPT ![p] = [Idle EXCEPT !.pc = "remove", !.of = Binding(s, {})]]
          /\ file' = Bound(file, Binding(s, {}), s)
    BY <1>2
<1> DEFINE b == Binding(s, {})
           x == [Idle EXCEPT !.pc = "remove", !.of = b]
<1>4. b \in Bindings /\ s \in Slots
    BY <1>3, BindingIs DEF SlotNamed
<1>5. op' = [op EXCEPT ![p] = x] /\ file' = Bound(file, b, s)
    BY <1>3
<1> HIDE DEF b
<1>6. x \in Op /\ x.pc = "remove" /\ x.job = "none" /\ x.of = b
    BY <1>4, IdleIs DEF Op
<1> HIDE DEF x
<1>7. Exclusive(x) /\ Known(x, str'[p].of)
    BY <1>4, <1>6 DEF Exclusive, Known
<1>8. FilesTyped' /\ \A q \in Procs : q # p => str'[q].of = str[q].of
    BY <1>1, <1>4, <1>5, Unchanged, BoundIs, Typing DEF FilesTyped
<1>9. Settled(vol', Dir) /\ Moves(vol, vol', {}) /\ x.pc # "newentry"
    BY <1>1, <1>6, AloneFacts, Typing, StillMoves
<1> QED
    BY <1>1, <1>5, <1>6, <1>7, <1>8, <1>9, AloneFacts, AloneStep DEF MayStray

Renamed(p, new, s) ==
    LET b == Binding(s, {})
        t == SlotNamed(new)
        v == IF t = {} THEN None ELSE Binding(Lowest(t), {b})
        fs == Bound(file, b, s)
    IN /\ BoundTo(s) \cup Unbound # {}
       /\ t # {} => BoundTo(Lowest(t)) \cup (Unbound \ {b}) # {}
       /\ file' = IF t = {} THEN fs ELSE Bound(fs, v, Lowest(t))
       /\ op' = [op EXCEPT ![p] = [Idle EXCEPT !.pc = "newentry", !.of = b, !.victim = v,
                                               !.name = new]]

\* rename begins.
LEMMA RenameKeeps ==
    ASSUME IInv, NEW p \in Procs, Rename(p)
    PROVE  IInv'
<1>1. /\ NoCall(p) /\ Calls /\ writer' = p /\ UNCHANGED <<vol, broken, str>>
      /\ FreeSlots(vol.disk[Dir]) # {}
    BY DEF Rename, Alone
<1>2. PICK old \in Names : \E new \in Names \ {old} : \E s \in SlotNamed(old) : Renamed(p, new, s)
    BY DEF Rename, Renamed
<1>3. PICK new \in Names : \E s \in SlotNamed(old) : Renamed(p, new, s)
    BY <1>2
<1>4. PICK s \in SlotNamed(old) : Renamed(p, new, s)
    BY <1>3
<1> DEFINE b == Binding(s, {})
           t == SlotNamed(new)
           l == Lowest(t)
           v == IF t = {} THEN None ELSE Binding(l, {b})
           fs == Bound(file, b, s)
           x == [Idle EXCEPT !.pc = "newentry", !.of = b, !.victim = v, !.name = new]
<1>5. /\ BoundTo(s) \cup Unbound # {}
      /\ t # {} => BoundTo(l) \cup (Unbound \ {b}) # {}
      /\ file' = IF t = {} THEN fs ELSE Bound(fs, v, l)
      /\ op' = [op EXCEPT ![p] = x]
    BY <1>4 DEF Renamed
<1>6. s \in Slots /\ t \subseteq Slots
    BY <1>4 DEF SlotNamed
<1>7. t # {} => l \in Slots
    <2>1. t # {} => l \in t
        <3>1. t \subseteq Nat
            BY <1>6, Geometry
        <3> HIDE DEF t
        <3> QED
            BY <3>1, LowestIn
    <2> QED
        BY <1>6, <2>1
<1> HIDE DEF t, l
<1>8. /\ b \in Bindings
      /\ BoundTo(s) # {} => file[b].slot = s
    <2>1. Unbound \ {} = Unbound
        OBVIOUS
    <2> QED
        BY <1>5, <2>1, BindingIs
<1> HIDE DEF b
<1>9. t # {} => v \in Bindings
    BY <1>5, BindingIs
<1>10. v \in {None} \cup Bindings
    BY <1>9
<1>11. /\ fs \in [Bindings -> Object]
       /\ BoundTo(s) # {} => fs = file
       /\ BoundTo(s) = {} => fs[b].slot = s
    <2>1. file \in [Bindings -> Object]
        BY Typing DEF FilesTyped
    <2>2. BoundTo(s) # {} => fs = file
        BY DEF Bound
    <2> HIDE DEF fs
    <2> QED
        BY <1>6, <1>8, <2>1, <2>2, BoundIs DEF fs
<1> HIDE DEF v, fs
<1>12. file' \in [Bindings -> Object] /\ file'[b].slot \in Slots
    <2>1. fs[b].slot \in Slots
        BY <1>6, <1>8, <1>11
    <2>2. CASE t = {}
        BY <2>1, <2>2, <1>5, <1>11
    <2>3. CASE t # {}
        <3>1. /\ Bound(fs, v, l) \in [Bindings -> Object]
              /\ Bound(fs, v, l)[b].slot \in {fs[b].slot, l}
            BY <2>3, <1>7, <1>8, <1>9, <1>11, BoundIs
        <3> QED
            BY <2>1, <2>3, <3>1, <1>5, <1>7
    <2> QED
        BY <2>2, <2>3
<1>13. x \in Op /\ x.pc = "newentry" /\ x.job = "none" /\ x.of = b /\ x.name = new
    BY <1>8, <1>10, IdleIs DEF Op
<1> HIDE DEF x
<1>14. Exclusive(x) /\ Known(x, str'[p].of)
    BY <1>8, <1>13 DEF Exclusive, Known
<1>15. FilesTyped' /\ \A q \in Procs : q # p => str'[q].of = str[q].of
    BY <1>1, <1>12, Unchanged DEF FilesTyped
<1>16. x.name \in Names /\ file'[x.of].slot \in Slots /\ FreeSlots(Contents(vol', Dir)) # {}
    <2>1. FreeSlots(Contents(vol, Dir)) # {}
        BY <1>1, AloneFacts
    <2> QED
        BY <1>1, <1>12, <1>13, <2>1
<1>17. Settled(vol', Dir) /\ Moves(vol, vol', {})
    BY <1>1, AloneFacts, Typing, StillMoves
<1> QED
    BY <1>1, <1>5, <1>13, <1>14, <1>15, <1>16, <1>17, AloneFacts, AloneStep DEF MayStray

\* fat_rename writes the new entry.
LEMMA NewEntryKeeps ==
    ASSUME IInv, NEW p \in Procs, NewEntry(p)
    PROVE  IInv'
<1> DEFINE f == file[op[p].of]
           s == Lowest(FreeSlots(Contents(vol, Dir)))
           old == Contents(vol, Dir)[f.slot]
           new == [old EXCEPT !.name = op[p].name, !.first = f.first]
           u == PutSlot(vol, s, new)
           o == [op[p] EXCEPT !.pc = "oldentry", !.cur = s]
           r == [op[p] EXCEPT !.pc = "release"]
<1>1. /\ At(p, "newentry") /\ UNCHANGED <<file, str, writer>>
      /\ \/ vol' = u.d /\ op' = [op EXCEPT ![p].pc = "oldentry", ![p].cur = s]
         \/ vol' = Commit(u.d) /\ op' = [op EXCEPT ![p].pc = "release"]
    BY DEF NewEntry
<1>2. Exclusive(op[p])
    BY <1>1 DEF At, Exclusive
<1>3. /\ op[p].pc = "newentry" /\ op[p].of \in Bindings
      /\ broken' = broken /\ LoansSame
      /\ writer = p /\ \A q \in Procs : q # p => op[q].pc = "idle"
    BY <1>1, <1>2, AtFacts
<1>4. op[p].name \in Names /\ f.slot \in Slots /\ s \in Slots /\ f.first \in {None} \cup Clusters
    <2>1. Ready(op[p])
        BY <1>3 DEF IInv, RenamesReady
    <2> QED
        BY <1>3, <2>1, FreeSlotIs, ObjectFields DEF Ready
<1>5. Contents(vol, Dir) \in [Slots -> DirSlot]
    BY Typing, ContentsIs, Geometry DEF Data
<1> HIDE DEF f, s
<1>6. new \in DirSlot
    <2>1. old \in DirSlot
        BY <1>4, <1>5
    <2> HIDE DEF old
    <2> QED
        BY <1>4, <2>1 DEF DirSlot
<1> HIDE DEF new, old
<1>7. Moves(vol, u.d, {Dir})
    BY <1>6, Typing, PutSlotIs
<1> HIDE DEF u
<1>8. Moves(u.d, Commit(u.d), {Info}) /\ Clean(Commit(u.d))
    BY <1>7, CommitIs, GoodAfter
<1>9. Moves(vol, Commit(u.d), {Info, Dir})
    BY <1>7, <1>8, MovesOn
<1>10. FilesTyped' /\ \A q \in Procs : q # p => str'[q].of = str[q].of
    BY <1>1, Unchanged DEF FilesTyped
<1>11. Known(op[p], str[p].of) /\ op[p] \in Op /\ op \in [Procs -> Op]
    BY Typing
<1>12. CASE vol' = u.d /\ op' = [op EXCEPT ![p].pc = "oldentry", ![p].cur = s]
    <2>1. o \in Op /\ o.pc = "oldentry" /\ o.cur = s /\ o.job = op[p].job /\ o.of = op[p].of
        <3>1. s \in Int
            BY <1>4, Geometry
        <3> QED
            BY <1>11, <3>1 DEF Op
    <2>2. op' = [op EXCEPT ![p] = o]
        BY <1>11, <1>12 DEF Op
    <2> HIDE DEF o
    <2>3. Exclusive(o) /\ Known(o, str'[p].of)
        BY <1>1, <1>3, <1>4, <1>11, <2>1 DEF Exclusive, Known
    <2> QED
        BY <1>1, <1>3, <1>7, <1>10, <1>12, <2>1, <2>2, <2>3, AloneStep DEF MayStray
<1>13. CASE vol' = Commit(u.d) /\ op' = [op EXCEPT ![p].pc = "release"]
    <2>1. r \in Op /\ r.pc = "release" /\ r.job = op[p].job /\ r.of = op[p].of
        BY <1>11 DEF Op
    <2>2. op' = [op EXCEPT ![p] = r]
        BY <1>11, <1>13 DEF Op
    <2> HIDE DEF r
    <2>3. Exclusive(r) /\ Known(r, str'[p].of)
        BY <1>1, <1>3, <1>11, <2>1 DEF Exclusive, Known
    <2> QED
        BY <1>1, <1>3, <1>8, <1>9, <1>10, <1>13, <2>1, <2>2, <2>3, AloneStep DEF MayStray
<1> QED
    BY <1>1, <1>12, <1>13

\* The last steps of a call that changes the directory.
LEMMA LastSteps ==
    ASSUME IInv, NEW p \in Procs, op[p].pc \in {"oldentry", "remove"}, UNCHANGED <<str, writer, broken, left>>,
           NEW pc \in {"remove", "release"}, Goto(p, pc), file' \in [Bindings -> Object],
           Moves(vol, vol', {Info, Dir}), Clean(vol')
    PROVE  IInv'
<1> DEFINE x == [op[p] EXCEPT !.pc = pc]
<1>1. Known(op[p], str[p].of) /\ op[p] \in Op /\ op \in [Procs -> Op] /\ Exclusive(op[p])
    BY Typing DEF Exclusive
<1>2. x \in Op /\ x.pc = pc /\ x.job = op[p].job /\ x.of = op[p].of
    BY <1>1 DEF Op
<1>3. op' = [op EXCEPT ![p] = x]
    BY <1>1 DEF Goto
<1> HIDE DEF x
<1>4. Exclusive(x) /\ Known(x, str'[p].of)
    BY <1>1, <1>2 DEF Exclusive, Known
<1>5. writer' = p /\ \A q \in Procs : q # p => op[q].pc = "idle"
    BY <1>1 DEF IInv, LockHeld
<1>6. FilesTyped' /\ \A q \in Procs : q # p => str'[q].of = str[q].of
    BY Unchanged DEF FilesTyped
<1>7. LoansSame
    BY Typing
<1>8. x.pc # "newentry" /\ x.pc # "idle"
    BY <1>2
<1> QED
    BY <1>2, <1>3, <1>4, <1>5, <1>6, <1>7, <1>8, AloneStep DEF MayStray

\* fat_rename frees the old one.
LEMMA OldEntryKeeps ==
    ASSUME IInv, NEW p \in Procs, OldEntry(p)
    PROVE  IInv'
<1> DEFINE b == op[p].of
           u == PutSlot(vol, file[b].slot, FreeSlot)
           w == PutSlot(u.d, op[p].cur, FreeSlot)
           d == IF u.ok THEN u.d ELSE w.d
           f == [file[b] EXCEPT !.slot = op[p].cur]
<1>1. /\ At(p, "oldentry") /\ UNCHANGED <<str, writer>>
      /\ vol' = OldFreed(p).d
      /\ file' = file \/ file' = [file EXCEPT ![b].slot = op[p].cur]
      /\ Goto(p, "remove") \/ Goto(p, "release")
    BY DEF OldEntry
<1>2. /\ op[p].pc = "oldentry" /\ UNCHANGED <<broken, left>> /\ b \in Bindings /\ op[p].cur \in Slots
    BY <1>1, Typing DEF At, Known
<1>3. OldFreed(p).d = Commit(d)
    BY DEF OldFreed, PutSlot, PutIn
<1>4. f \in Object
    BY <1>2, ObjectFields DEF Object
<1>5. file' = file \/ file' = [file EXCEPT ![b] = f]
    BY <1>1, <1>2, Typing DEF FilesTyped
<1> HIDE DEF f, b
<1>6. file' \in [Bindings -> Object]
    BY <1>2, <1>4, <1>5, Unchanged, FileSet
<1>7. Moves(vol, u.d, {Dir})
    BY Typing, FreeSlotIs, PutSlotIs
<1> HIDE DEF u
<1>8. Moves(u.d, w.d, {Dir})
    BY <1>7, FreeSlotIs, PutSlotIs, GoodAfter
<1> HIDE DEF w
<1>9. Moves(vol, d, {Dir})
    <2>1. Moves(vol, w.d, {Dir})
        BY <1>7, <1>8, MovesAgain
    <2> QED
        BY <1>7, <2>1
<1> HIDE DEF d
<1>10. Moves(d, Commit(d), {Info}) /\ Clean(Commit(d))
    BY <1>9, CommitIs, GoodAfter
<1>11. Moves(vol, vol', {Info, Dir}) /\ Clean(vol')
    BY <1>1, <1>3, <1>9, <1>10, MovesOn
<1> QED
    BY <1>1, <1>2, <1>6, <1>11, LastSteps

\* fat_remove.
LEMMA RemoveEntryKeeps ==
    ASSUME IInv, NEW p \in Procs, RemoveEntry(p)
    PROVE  IInv'
<1> DEFINE b == Gone(p)
           u == PutSlot(vol, file[b].slot, FreeSlot)
           f == [file[b] EXCEPT !.slot = NoSlot, !.removed = TRUE]
<1>1. /\ At(p, "remove") /\ UNCHANGED <<str, writer>> /\ Goto(p, "release")
      /\ vol' = Commit(u.d)
      /\ file' = file \/ file' = [file EXCEPT ![b].slot = NoSlot, ![b].removed = TRUE]
    BY DEF RemoveEntry
<1>2. op[p].pc = "remove" /\ UNCHANGED <<broken, left>> /\ b \in Bindings
    <2>1. op[p].of \in Bindings /\ op[p].victim \in {None} \cup Bindings
        BY <1>1, Typing DEF At, Known, Op
    <2> QED
        BY <1>1, <2>1 DEF At, Gone
<1> HIDE DEF b
<1>3. f \in Object
    BY <1>2, ObjectFields DEF Object
<1>4. file' = file \/ file' = [file EXCEPT ![b] = f]
    BY <1>1, <1>2, Typing DEF FilesTyped, Object
<1> HIDE DEF f
<1>5. file' \in [Bindings -> Object]
    BY <1>2, <1>3, <1>4, Unchanged, FileSet
<1>6. Moves(vol, u.d, {Dir})
    BY Typing, FreeSlotIs, PutSlotIs
<1> HIDE DEF u
<1>7. Moves(u.d, Commit(u.d), {Info}) /\ Clean(Commit(u.d))
    BY <1>6, CommitIs, GoodAfter
<1>8. Moves(vol, vol', {Info, Dir}) /\ Clean(vol')
    BY <1>1, <1>6, <1>7, MovesOn
<1> QED
    BY <1>1, <1>2, <1>5, <1>8, LastSteps

\* rename closes its streams.
LEMMA ReleaseKeeps ==
    ASSUME IInv, NEW p \in Procs, Release(p)
    PROVE  IInv'
<1> DEFINE b == op[p].of
           y == [Idle EXCEPT !.pc = "release", !.of = op[p].victim]
<1>1. /\ At(p, "release") /\ UNCHANGED <<vol, str>>
      /\ \/ Released(p, b, Users(b))
         \/ /\ op[p].victim # None /\ op' = [op EXCEPT ![p] = y] /\ writer' = writer
            /\ file' = file \/ file' = [file EXCEPT ![b] = NoFile]
    BY DEF Release
<1>2. Exclusive(op[p])
    BY <1>1 DEF At, Exclusive
<1>3. /\ op[p].pc = "release" /\ b \in Bindings
      /\ broken' = broken /\ LoansSame
      /\ writer = p /\ \A q \in Procs : q # p => op[q].pc = "idle"
    BY <1>1, <1>2, AtFacts
<1>4. Clean(vol') /\ Moves(vol, vol', {})
    BY <1>1, <1>3, Typing, StillMoves DEF IInv, DirtKnown
<1>5. str' \in [Procs -> Stream] /\ \A q \in Procs : q # p => str'[q].of = str[q].of
    BY <1>1, Unchanged
<1>6. CASE Released(p, b, Users(b))
    <2>1. file' \in [Bindings -> Object]
        BY <1>3, <1>6, ReleasedIs
    <2>2. PICK x \in Op : /\ op' = [op EXCEPT ![p] = x] /\ \A of : Known(x, of)
                          /\ Exclusive(x) => writer' = writer /\ x.pc = "free"
                          /\ ~Exclusive(x) => writer' = None
                          /\ x.pc # "newentry"
        BY <1>3, <1>6, ReleasedIs
    <2> QED
        BY <1>3, <1>4, <1>5, <2>1, <2>2, AloneStep DEF FilesTyped, MayStray
<1>7. CASE /\ op[p].victim # None /\ op' = [op EXCEPT ![p] = y] /\ writer' = writer
           /\ file' = file \/ file' = [file EXCEPT ![b] = NoFile]
    <2>1. op[p].victim \in Bindings
        BY <1>7, Typing DEF Op
    <2>2. y \in Op /\ y.pc = "release" /\ y.job = "none" /\ y.of = op[p].victim
        <3>1. PICK v \in Bindings : v = op[p].victim
            BY <2>1
        <3>2. [Idle EXCEPT !.pc = "release", !.of = v] \in Op
            BY IdleIs DEF Op
        <3> QED
            BY <3>1, <3>2, IdleIs DEF Op
    <2> HIDE DEF y
    <2>3. Exclusive(y) /\ Known(y, str'[p].of)
        BY <2>1, <2>2 DEF Exclusive, Known
    <2>4. file' \in [Bindings -> Object]
        BY <1>3, <1>7, Unchanged, FileSet, EmptyObjects DEF NoFileIs
    <2> QED
        BY <1>3, <1>4, <1>5, <1>7, <2>2, <2>3, <2>4, AloneStep DEF FilesTyped, MayStray
<1> QED
    BY <1>1, <1>6, <1>7

(***************************************************************************)
(* The volume mounted again, entries lent, sectors that can't be read.     *)
(***************************************************************************)
LEMMA KeptVolume ==
    ASSUME IInv, UNCHANGED <<file, str, op, writer, broken>>, Kept(vol, vol'),
           left' \in [calls : Nat, loans : Nat, faults : Nat], Len(vol'.lru) > left'.loans + 1
    PROVE  IInv' /\ SameDir
<1>1. Good(vol) /\ Good(vol') /\ vol'.bad = vol.bad /\ Contents(vol', Dir) = Contents(vol, Dir)
    BY Geometry DEF Kept, SameRest, SameContents, IInv, VolKnown
<1>2. VolKnown'
    BY <1>1 DEF IInv, VolKnown
<1>3. Settled(vol, Dir) => Settled(vol', Dir)
    BY <1>1 DEF Kept, NoNewDirt, Settled, Holders, Good, FlagsOK, States
<1>4. Clean(vol) => Clean(vol')
    BY DEF Clean, Kept, NoNewDirt
<1>5. RenamesReady'
    BY <1>1 DEF IInv, RenamesReady, Ready
<1> QED
    BY <1>1, <1>2, <1>3, <1>4, <1>5, VolumeStep DEF SameDir

\* An entry lent to another user of the cache.
LEMMA LendKeeps ==
    ASSUME IInv, Lend
    PROVE  IInv' /\ SameDir
<1>1. Kept(vol, vol') /\ Len(vol'.lru) = Len(vol.lru) - 1
    BY GetBufferKeeps DEF Lend, IInv, VolKnown
<1>2. left' \in [calls : Nat, loans : Nat, faults : Nat] /\ left'.loans = left.loans - 1
    BY SpendTyped DEF Lend, IInv, VolKnown
<1>3. UNCHANGED <<file, str, op, writer, broken>>
    BY DEF Lend
<1>4. Len(vol.lru) \in Nat /\ left.loans \in Nat /\ Len(vol.lru) > left.loans + 1
    BY LenProperties DEF IInv, VolKnown, Good, ListOK, Listed
<1> QED
    BY <1>1, <1>2, <1>3, <1>4, KeptVolume

\* It comes back.
LEMMA ReturnKeeps ==
    ASSUME IInv, Return
    PROVE  IInv' /\ SameDir
<1>1. PICK e \in Lent : vol' = ReleaseBuffer(vol, e)
    BY DEF Return
<1>2. Kept(vol, vol') /\ Len(vol'.lru) = Len(vol.lru) + 1
    BY <1>1, ReleaseBufferKeeps DEF Lent, IInv, VolKnown
<1>3. UNCHANGED <<file, str, op, writer, broken>> /\ left' = left
    BY DEF Return
<1>4. Len(vol.lru) \in Nat /\ left.loans \in Nat /\ Len(vol.lru) > left.loans + 1
      /\ left \in [calls : Nat, loans : Nat, faults : Nat]
    BY LenProperties DEF IInv, VolKnown, Good, ListOK, Listed
<1> QED
    BY <1>2, <1>3, <1>4, KeptVolume

\* A step that makes sectors legible or not touches nothing else.
LEMMA LegibleOrNot ==
    ASSUME NEW d, Good(d), NEW B, B \subseteq Sectors \cup {Far}, Far \in B,
           NEW r, r = [d EXCEPT !.bad = B]
    PROVE  Good(r) /\ r.bad = B /\ r.flags = d.flags /\ r.sector = d.sector /\ r.lru = d.lru
           /\ \A t \in Sectors : Contents(r, t) = Contents(d, t)
<1>1. /\ r \in Vol /\ r.bad = B
      /\ r.flags = d.flags /\ r.sector = d.sector /\ r.buffer = d.buffer /\ r.lru = d.lru
      /\ r.map = d.map /\ r.used = d.used /\ r.disk = d.disk
    BY DEF Good, Vol
<1>2. Good(r)
    BY <1>1 DEF Good, ListOK, FlagsOK, UsedOK, MapOK, HeldOK, DiskOK
<1>3. \A t \in Sectors : Contents(r, t) = Contents(d, t)
    BY <1>1 DEF Contents, Holders
<1> QED
    BY <1>1, <1>2, <1>3

\* Sectors that fail leave what is seen as it was.
LEMMA FaultKeeps ==
    ASSUME IInv, NEW B, B \subseteq Sectors \cup {Far}, Far \in B, B \ {Far} \subseteq broken',
           broken' \subseteq Breakable \cup {Far}, vol' = [vol EXCEPT !.bad = B],
           UNCHANGED <<file, str, op, writer>>, LoansSame
    PROVE  IInv' /\ SameDir
<1>1. Good(vol') /\ vol'.bad = B /\ vol'.flags = vol.flags /\ vol'.sector = vol.sector
      /\ vol'.lru = vol.lru /\ Contents(vol', Dir) = Contents(vol, Dir)
    BY LegibleOrNot, Geometry DEF IInv, VolKnown
<1>2. VolKnown'
    BY <1>1 DEF IInv, VolKnown, LoansSame
<1>3. Settled(vol, Dir) => Settled(vol', Dir)
    BY <1>1 DEF Settled, Holders
<1>4. Clean(vol) => Clean(vol')
    BY <1>1 DEF Clean
<1>5. RenamesReady'
    BY <1>1 DEF IInv, RenamesReady, Ready
<1> QED
    BY <1>1, <1>2, <1>3, <1>4, <1>5, VolumeStep DEF SameDir

\* A sector can't be read any more.
LEMMA BreakKeeps ==
    ASSUME IInv, Break
    PROVE  IInv' /\ SameDir
<1>1. PICK s \in Breakable \ broken : broken' = broken \cup {s} /\ vol' = [vol EXCEPT !.bad = @ \cup {s}]
    BY DEF Break
<1> DEFINE B == vol.bad \cup {s}
<1>2. /\ vol.bad \subseteq Sectors \cup {Far} /\ Far \in vol.bad /\ vol.bad \ {Far} \subseteq broken
      /\ broken \subseteq Breakable \cup {Far}
    BY DEF IInv, VolKnown, Good, Vol, DiskOK
<1>3. B \subseteq Sectors \cup {Far} /\ Far \in B /\ B \ {Far} \subseteq broken' /\ broken' \subseteq Breakable \cup {Far}
    BY <1>1, <1>2, BreakableAssumption
<1>4. vol' = [vol EXCEPT !.bad = B]
    BY <1>1
<1> HIDE DEF B
<1>5. UNCHANGED <<file, str, op, writer>> /\ LoansSame
    BY SpendTyped DEF Break, IInv, VolKnown
<1> QED
    BY <1>3, <1>4, <1>5, FaultKeeps

\* It can again.
LEMMA HealKeeps ==
    ASSUME IInv, Heal
    PROVE  IInv' /\ SameDir
<1>1. PICK s \in (vol.bad \cap broken) \ {Far} : vol' = [vol EXCEPT !.bad = @ \ {s}]
    BY DEF Heal
<1> DEFINE B == vol.bad \ {s}
<1>2. /\ vol.bad \subseteq Sectors \cup {Far} /\ Far \in vol.bad /\ vol.bad \ {Far} \subseteq broken
      /\ broken \subseteq Breakable \cup {Far} /\ broken' = broken
    BY DEF IInv, VolKnown, Good, Vol, DiskOK, Heal
<1>3. s # Far
    BY <1>1
<1>4. B \subseteq Sectors \cup {Far} /\ Far \in B /\ B \ {Far} \subseteq broken' /\ broken' \subseteq Breakable \cup {Far}
    BY <1>2, <1>3
<1>5. vol' = [vol EXCEPT !.bad = B]
    BY <1>1
<1> HIDE DEF B
<1>6. UNCHANGED <<file, str, op, writer>> /\ LoansSame
    BY SpendTyped DEF Heal, IInv, VolKnown
<1> QED
    BY <1>4, <1>5, <1>6, FaultKeeps

\* fat_unmount and fat_mount: with no file open nothing is dirty, so nothing is lost.
LEMMA RemountKeeps ==
    ASSUME IInv, Remount
    PROVE  IInv' /\ SameDir
<1> DEFINE d == DiscardAll(vol)
           n == vol.disk[Info].free
           k == vol.disk[Info].next
           r == [d EXCEPT !.free = n]
           w == [r EXCEPT !.next = k]
<1>1. /\ \A p \in Procs : op[p].pc = "idle" /\ str[p].of = None
      /\ Calls /\ UNCHANGED <<broken, file, str, op, writer>>
      /\ vol' = [d EXCEPT !.free = n, !.next = k]
    BY DEF Remount, AtRest
<1>2. Good(vol)
    BY DEF IInv, VolKnown
<1>3. n \in Nat /\ k \in Nat
    <2>1. vol.disk[Info] \in Data(Info)
        BY <1>2, Geometry DEF Good, DiskOK
    <2> QED
        BY <2>1, Geometry DEF Data
<1>4. Good(d) /\ SameRest(vol, d) /\ SameRoom(vol, d) /\ Clean(d) /\ Contents(d, Dir) = Contents(vol, Dir)
    <2>1. Clean(vol)
        BY <1>1 DEF IInv, DirtKnown
    <2> QED
        BY <1>2, <2>1, DiscardAllEmpties, Geometry DEF SameContents
<1> HIDE DEF d, n, k
<1>5. Moves(d, r, {})
    BY <1>3, <1>4, FreeMoves
<1>6. vol' = w
    BY <1>1
<1> HIDE DEF r
<1>7. Moves(r, w, {})
    BY <1>3, <1>5, NextMoves, GoodAfter
<1> HIDE DEF w
<1>8. Moves(d, w, {})
    BY <1>5, <1>7, MovesAgain
<1>9. Good(vol') /\ vol'.bad = vol.bad /\ SameRoom(vol, vol') /\ Clean(vol')
    BY <1>4, <1>6, <1>8, CleanStays DEF Moves, SameRest, SameRoom
<1>10. SameDir
    BY <1>4, <1>6, <1>8, Geometry DEF SameDir, Moves
<1>11. LoansSame
    BY <1>1, SpendTyped DEF Calls, IInv, VolKnown
<1>12. VolKnown'
    BY <1>1, <1>9, <1>11 DEF IInv, VolKnown, SameRoom, LoansSame
<1>13. RenamesReady'
    BY <1>1 DEF RenamesReady
<1>14. Settled(vol', Dir)
    BY <1>9, CleanSettled
<1> QED
    BY <1>1, <1>9, <1>10, <1>12, <1>13, <1>14, VolumeStep

(***************************************************************************)
(* The volume as it is mounted.                                            *)
(***************************************************************************)
LEMMA DiskTyped ==
    ASSUME NEW image \in Images
    PROVE  /\ \A s \in Sectors : DiskOf(image)[s] \in Data(s)
           /\ DOMAIN DiskOf(image) = Sectors /\ DiskOf(image) \in [Sectors -> Bytes]
<1>1. image.table \in [Clusters -> Word] /\ image.slots \in [Slots -> DirSlot]
    BY ImagesAssumption
<1> DEFINE free == {c \in Clusters : image.table[c] = None}
           info == [free |-> Cardinality(free), next |-> 2]
           entry(s, k) == LET c == (s - 2) * PerSector + k
                          IN IF c \in Clusters THEN image.table[c] ELSE IF c < 2 THEN EndMark ELSE None
           t(s) == [k \in Slots |-> entry(s, k)]
           disk == DiskOf(image)
<1>2. info \in [free : Nat, next : Nat]
    <2>1. IsFiniteSet(Clusters)
        BY FS_Interval, SizesAssumption DEF Clusters
    <2>2. IsFiniteSet(free)
        BY <2>1, FS_Subset
    <2>3. Cardinality(free) \in Nat
        BY <2>2, FS_CardinalityType
    <2> HIDE DEF free
    <2> QED
        BY <2>3
<1>3. \A s \in Sectors : t(s) \in [Slots -> Word]
    <2>1. \A s \in Sectors, k \in Slots : entry(s, k) \in Word
        BY <1>1, MarksAreWords
    <2> HIDE DEF entry
    <2> QED
        BY <2>1
<1>4. disk = [s \in Sectors |-> CASE s = Dir -> image.slots [] s = Info -> info [] OTHER -> t(s)]
    BY DEF DiskOf
<1> HIDE DEF info, t, disk
<1>5. \A s \in Sectors : disk[s] \in Data(s)
    <2> TAKE s \in Sectors
    <2>1. CASE s = Dir
        <3>1. disk[s] = image.slots
            BY <2>1, <1>4, Geometry
        <3> QED
            BY <2>1, <3>1, <1>1 DEF Data
    <2>2. CASE s = Info
        <3>1. disk[s] = info
            BY <2>2, <1>4, Geometry
        <3> QED
            BY <2>2, <3>1, <1>2, Geometry DEF Data
    <2>3. CASE s # Dir /\ s # Info
        <3>1. disk[s] = t(s)
            BY <2>3, <1>4
        <3> QED
            BY <2>3, <3>1, <1>3 DEF Data
    <2> QED
        BY <2>1, <2>2, <2>3
<1>6. \A s \in Sectors : disk[s] \in Bytes
    BY <1>5 DEF Bytes
<1>7. DOMAIN disk = Sectors
    BY <1>4
<1>8. disk \in [Sectors -> Bytes]
    <2>1. disk = [s \in Sectors |-> disk[s]]
        BY <1>4
    <2> QED
        BY <1>6, <2>1
<1> QED
    BY <1>5, <1>7, <1>8 DEF disk

\* The list of the cache as it is made.
LEMMA FirstList ==
    /\ Listed([e \in Entries |-> e], Entries) /\ [e \in Entries |-> e] # <<>>
    /\ Len([e \in Entries |-> e]) = NumEntries
<1> DEFINE l == [e \in Entries |-> e]
<1>1. l \in Seq(Entries) /\ Len(l) = NumEntries
    BY EntriesAssumption DEF Entries
<1>2. \A i \in Entries : l[i] = i
    OBVIOUS
<1> HIDE DEF l
<1>3. Listed(l, Entries)
    BY <1>1, <1>2 DEF Listed, Entries
<1>4. l # <<>>
    BY <1>1, EmptySeq, EntriesAssumption
<1> QED
    BY <1>1, <1>3, <1>4 DEF l

\* A volume just mounted satisfies the invariant.
LEMMA InitKeeps ==
    ASSUME Init
    PROVE  IInv
<1>1. PICK image \in Images : vol = Mounted(CacheInit(DiskOf(image)), DiskOf(image)[Info])
    BY DEF Init
<1>2. PICK d : d = DiskOf(image)
    OBVIOUS
<1>3. (\A s \in Sectors : d[s] \in Data(s)) /\ d \in [Sectors -> Bytes]
    BY <1>2, DiskTyped
<1>4. d[Info].free \in Nat /\ d[Info].next \in Nat
    <2>1. d[Info] \in Data(Info)
        BY <1>3, Geometry
    <2> QED
        BY <2>1, Geometry DEF Data
<1>5. /\ vol.flags = [e \in Entries |-> {}] /\ vol.used = {} /\ vol.disk = d /\ vol.bad = {Far}
      /\ vol.lru = [e \in Entries |-> e] /\ vol.map = [n \in 0..(MapSize - 1) |-> {}]
    BY <1>1, <1>2 DEF Mounted, CacheInit
<1>6. vol \in Vol
    <2>1. vol = [flags |-> [e \in Entries |-> {}], sector |-> [e \in Entries |-> NoSector],
                 buffer |-> [e \in Entries |-> NoData], lru |-> [e \in Entries |-> e],
                 map |-> [n \in 0..(MapSize - 1) |-> {}], used |-> {}, disk |-> d, bad |-> {Far},
                 free |-> d[Info].free, next |-> d[Info].next, panic |-> FALSE]
        BY <1>1, <1>2 DEF Mounted, CacheInit
    <2>2. [e \in Entries |-> e] \in Seq(Entries)
        BY FirstList DEF Listed
    <2>3. /\ [e \in Entries |-> {}] \in [Entries -> SUBSET Flags]
          /\ [e \in Entries |-> NoSector] \in [Entries -> Sectors \cup {Far, NoSector}]
          /\ [e \in Entries |-> NoData] \in [Entries -> Bytes \cup {NoData}]
          /\ [n \in 0..(MapSize - 1) |-> {}] \in [0..(MapSize - 1) -> SUBSET Entries]
        OBVIOUS
    <2> QED
        BY <1>3, <1>4, <2>1, <2>2, <2>3 DEF Vol
<1>7. Unlent(vol.flags) = Entries
    BY <1>5 DEF Unlent
<1>8. ListOK(vol)
    BY <1>5, <1>7, FirstList DEF ListOK
<1>9. FlagsOK(vol) /\ UsedOK(vol) /\ MapOK(vol) /\ HeldOK(vol)
    BY <1>5 DEF FlagsOK, UsedOK, MapOK, HeldOK, States
<1>10. DiskOK(vol)
    BY <1>3, <1>5 DEF DiskOK
<1>11. Good(vol) /\ Clean(vol)
    BY <1>5, <1>6, <1>8, <1>9, <1>10 DEF Good, Clean
<1>12. /\ broken = {} /\ writer = None /\ left \in Budgets
       /\ file = [b \in Bindings |-> NoFile] /\ str = [p \in Procs |-> NoStream]
       /\ op = [p \in Procs |-> Idle]
    BY DEF Init
<1>13. VolKnown
    <2>1. Len(vol.lru) = NumEntries
        BY <1>5, FirstList
    <2>2. left.loans + 2 <= NumEntries /\ left \in [calls : Nat, loans : Nat, faults : Nat]
        BY <1>12, BudgetsAssumption
    <2>3. /\ left \in [calls : Nat, loans : Nat, faults : Nat] /\ Len(vol.lru) > left.loans + 1
        <3>1. left.loans \in Nat
            BY <2>2
        <3> QED
            BY <2>1, <2>2, <3>1, EntriesAssumption
    <2> QED
        BY <1>5, <1>11, <1>12, <2>3, BreakableAssumption DEF VolKnown
<1>14. FilesTyped /\ CallsTyped
    BY <1>12, EmptyObjects, IdleIs DEF FilesTyped, CallsTyped, NoFileIs
<1>15. LockHeld /\ CallsKnown /\ RenamesReady
    BY <1>12, IdleIs, ProcsAssumption DEF LockHeld, CallsKnown, RenamesReady
<1>16. DirtKnown
    BY <1>11, CleanSettled DEF DirtKnown
<1> QED
    BY <1>13, <1>14, <1>15, <1>16 DEF IInv

\* Every step keeps it.
LEMMA StepKeeps == IInv /\ [Next]_vars => IInv'
<1> SUFFICES ASSUME IInv, [Next]_vars PROVE IInv'
    OBVIOUS
<1>1. ASSUME NEW p \in Procs, Call(p) PROVE IInv'
    <2>1. CASE Fsync(p) \/ Close(p)
        BY <2>1, SyncKeeps DEF Fsync, Close
    <2> QED
        BY <1>1, <2>1, SeekKeeps, ReadKeeps, WriteKeeps, TruncateKeeps, OpenKeeps, CreateKeeps,
           RemoveFileKeeps, RenameKeeps DEF Call
<1>2. ASSUME NEW p \in Procs, Continue(p) PROVE IInv'
    BY <1>2, AllocKeeps, CutKeeps, MarkKeeps, FreeNextKeeps, UnlinkKeeps, FreedKeeps,
       CloseWriteKeeps, WriteEntryKeeps, CommitStepKeeps, NewEntryKeeps, OldEntryKeeps,
       RemoveEntryKeeps, ReleaseKeeps DEF Continue
<1>3. CASE UNCHANGED vars
    BY <1>3 DEF vars, IInv, VolKnown, FilesTyped, CallsTyped, LockHeld, CallsKnown, RenamesReady,
                Ready, DirtKnown
<1>4. CASE Stopped
    BY <1>3, <1>4 DEF Stopped
<1> QED
    BY <1>1, <1>2, <1>3, <1>4, RemountKeeps, LendKeeps, ReturnKeeps, BreakKeeps, HealKeeps DEF Next

(***************************************************************************)
(* The cache's bookkeeping (its list, its maps, its flags), and the types  *)
(* of what the driver keeps, whatever is opened, written, truncated,       *)
(* removed or renamed by however many threads, whichever sectors can't be  *)
(* read and whatever is lent: the sizes of disk_cache.c and of the volume  *)
(* are any.                                                                *)
(***************************************************************************)
THEOREM CacheAlwaysKept == Spec => []CacheKept
<1>1. Init => IInv
    BY InitKeeps
<1>2. IInv => CacheKept
    <2> SUFFICES ASSUME IInv PROVE CacheKept
        OBVIOUS
    <2>1. CacheSound(vol)
        BY GoodIsSound DEF IInv, VolKnown
    <2>2. TypeOK
        BY DEF IInv, VolKnown, FilesTyped, CallsTyped, Good, Vol, HeldOK, DiskOK, TypeOK
    <2> QED
        BY <2>1, <2>2 DEF CacheKept
<1> QED
    BY <1>1, <1>2, StepKeeps, PTL DEF Spec

(***************************************************************************)
(* Between the calls that change it, the directory is on the disk; and     *)
(* with no file open everything is.                                        *)
(***************************************************************************)
THEOREM AllStored == Spec => []Stored
<1>1. Init => IInv
    BY InitKeeps
<1>2. IInv => Stored
    <2> SUFFICES ASSUME IInv PROVE Stored
        OBVIOUS
    <2>1. writer = None => Settled(vol, Dir)
        BY ProcsAssumption DEF IInv, DirtKnown
    <2>2. (\A p \in Procs : str[p].of = None /\ op[p].pc = "idle") => Clean(vol)
        BY DEF IInv, DirtKnown
    <2> QED
        BY <2>1, <2>2, CleanSettled DEF Stored
<1> QED
    BY <1>1, <1>2, StepKeeps, PTL DEF Spec

(***************************************************************************)
(* The table as FatTable promises it, for any set of clusters: while it is *)
(* intact, links are to distinct clusters, none of them free.              *)
(***************************************************************************)
LinksInv == Chains!Marked /\ Chains!TypeOK /\ Chains!WellLinked

\* A table as FatTable begins.
LEMMA LinksInit == Chains!Init => LinksInv
BY DEF Chains!Init, LinksInv, Chains!TypeOK, Chains!WellLinked, Chains!NoDanglingLink, Chains!NoSharedCluster

\* One entry set to the end-of-chain mark, whatever it was, makes no link.
LEMMA EndKeepsLinks ==
    ASSUME NEW c \in Clusters, LinksInv, Intact, Intact',
           Table' = [Table EXCEPT ![c] = EndMark]
    PROVE  LinksInv'
<1>1. EndMark \notin Clusters /\ EndMark # None
    BY DEF LinksInv, Chains!Marked
<1>2. Chains!TypeOK'
    BY DEF LinksInv, Chains!TypeOK
<1>3. \A e \in Clusters : Table'[e] = IF e = c THEN EndMark ELSE Table[e]
    BY DEF LinksInv, Chains!TypeOK
<1>4. Chains!NoDanglingLink'
    BY <1>1, <1>3 DEF LinksInv, Intact, Chains!WellLinked, Chains!NoDanglingLink
<1>5. Chains!NoSharedCluster'
    BY <1>1, <1>3 DEF LinksInv, Intact, Chains!WellLinked, Chains!NoSharedCluster
<1> QED
    BY <1>2, <1>4, <1>5 DEF LinksInv, Chains!Marked, Chains!WellLinked

\* A cluster linked behind the end of a chain was free, and nothing pointed at it.
LEMMA AppendKeepsLinks ==
    ASSUME NEW c \in Clusters, NEW e \in Clusters, LinksInv, Intact, Intact', Chains!Append(c, e)
    PROVE  LinksInv'
<1>1. EndMark \notin Clusters /\ EndMark # None
    BY DEF LinksInv, Chains!Marked
<1>2. c # e
    BY <1>1 DEF Chains!Append
<1>3. Chains!TypeOK'
    BY DEF LinksInv, Chains!TypeOK, Chains!Append
<1>4. \A a \in Clusters :
          Table'[a] = IF a = c THEN EndMark ELSE IF a = e THEN c ELSE Table[a]
    BY <1>2 DEF LinksInv, Chains!TypeOK, Chains!Append
<1>5. \A a \in Clusters : Table[a] # c
    BY DEF LinksInv, Intact, Chains!WellLinked, Chains!NoDanglingLink, Chains!Append
<1>6. Chains!NoDanglingLink'
    <2> SUFFICES ASSUME NEW a \in Clusters, Table'[a] \in Clusters
                 PROVE  Table'[Table'[a]] # None
        BY DEF Chains!NoDanglingLink
    <2>1. CASE a = e
        BY <2>1, <1>1, <1>2, <1>4
    <2>2. CASE a # e
        <3>1. a # c /\ Table'[a] = Table[a]
            BY <2>2, <1>1, <1>4
        <3>2. Table[a] \in Clusters /\ Table[Table[a]] # None
            BY <3>1 DEF LinksInv, Intact, Chains!WellLinked, Chains!NoDanglingLink
        <3> QED
            BY <3>1, <3>2, <1>1, <1>4, <1>5 DEF LinksInv, Chains!Marked
    <2> QED
        BY <2>1, <2>2
<1>7. Chains!NoSharedCluster'
    BY <1>1, <1>4, <1>5 DEF LinksInv, Intact, Chains!Marked, Chains!WellLinked, Chains!NoSharedCluster
<1> QED
    BY <1>3, <1>6, <1>7 DEF LinksInv, Chains!Marked, Chains!WellLinked

\* A cluster is freed when no entry points at it.
LEMMA ReleaseKeepsLinks ==
    ASSUME NEW c \in Clusters, LinksInv, Intact, Intact', Chains!Release(c)
    PROVE  LinksInv'
<1>1. Chains!TypeOK'
    BY DEF LinksInv, Chains!TypeOK, Chains!Release
<1>2. \A a \in Clusters : Table'[a] = IF a = c THEN None ELSE Table[a]
    BY DEF LinksInv, Chains!TypeOK, Chains!Release
<1>3. \A a \in Clusters : Table[a] # c
    BY DEF Chains!Release, Chains!PointedAt
<1>4. Chains!NoDanglingLink'
    BY <1>2, <1>3 DEF LinksInv, Intact, Chains!Marked, Chains!WellLinked, Chains!NoDanglingLink
<1>5. Chains!NoSharedCluster'
    BY <1>2 DEF LinksInv, Intact, Chains!Marked, Chains!WellLinked, Chains!NoSharedCluster
<1> QED
    BY <1>1, <1>4, <1>5 DEF LinksInv, Chains!Marked, Chains!WellLinked

\* Every step FatTable allows keeps the links.
LEMMA LinksStep == LinksInv /\ [Chains!Next]_(Chains!tableVars) => LinksInv'
<1> SUFFICES ASSUME LinksInv, [Chains!Next]_(Chains!tableVars)
             PROVE  LinksInv'
    OBVIOUS
<1>1. CASE UNCHANGED Chains!tableVars
    BY <1>1 DEF Chains!tableVars, LinksInv, Chains!Marked, Chains!TypeOK, Chains!WellLinked,
                Chains!NoDanglingLink, Chains!NoSharedCluster
<1>2. CASE Intact /\ Chains!Sound
    <2>1. PICK c \in Clusters : \/ Chains!Start(c) \/ Chains!Cut(c) \/ Chains!Release(c)
                                \/ \E e \in Clusters : Chains!Append(c, e)
        BY <1>2 DEF Chains!Sound
    <2>2. Intact /\ Intact'
        BY <1>2 DEF Chains!Sound, Intact
    <2>3. CASE Chains!Start(c)
        BY <2>2, <2>3, EndKeepsLinks DEF Chains!Start
    <2>4. CASE Chains!Cut(c)
        BY <2>2, <2>4, EndKeepsLinks DEF Chains!Cut
    <2>5. CASE Chains!Release(c)
        BY <2>2, <2>5, ReleaseKeepsLinks
    <2>6. CASE \E e \in Clusters : Chains!Append(c, e)
        BY <2>2, <2>6, AppendKeepsLinks
    <2> QED
        BY <2>1, <2>3, <2>4, <2>5, <2>6
<1>3. CASE Chains!Fails
    BY <1>3 DEF Chains!Fails, LinksInv, Chains!Marked, Chains!TypeOK, Chains!WellLinked
<1>4. CASE Chains!Adrift
    BY <1>4 DEF Chains!Adrift, LinksInv, Chains!Marked, Chains!TypeOK, Chains!WellLinked
<1> QED
    BY <1>1, <1>2, <1>3, <1>4 DEF Chains!Next

(***************************************************************************)
(* While the directory can be kept up to date, no entry of the table points*)
(* at a free cluster and no two at the same one: what was allocated behind *)
(* one file is never given to another, whenever the table changes as       *)
(* FatTable allows (next_write_cluster and free_cluster_chain, fat.c).     *)
(***************************************************************************)
THEOREM TableWellLinked == KeepsTable => []Chains!WellLinked
<1>1. LinksInv => Chains!WellLinked
    BY DEF LinksInv
<1> QED
    BY LinksInit, LinksStep, <1>1, PTL DEF KeepsTable, Chains!Spec

(***************************************************************************)
(* The directory.  What holds of it at every step, also half-way through a *)
(* rename: while the directory is legible, each file that was not removed  *)
(* is in a slot of its own, a doubled name has the slot of the file that   *)
(* is given up, and a rename is where its step says.                       *)
(***************************************************************************)
Live == {b \in Bindings \ Unbound : ~file[b].removed}
IdleKnown == \A p \in Procs : op[p].pc = "idle" => op[p] = Idle
VictimsKnown ==
    \A p \in Procs : op[p].victim # None =>
        /\ op[p].victim \in Bindings /\ op[p].victim # op[p].of
        /\ op[p].pc \in {"newentry", "oldentry", "remove", "release"}
DiscardsKnown == \A p \in Procs : op[p].job = "discard" => Users(op[p].of) = {}
Placed == \A b \in Live : file[b].slot \in Named
OnePlace == \A b, c \in Live : file[b].slot = file[c].slot => b = c
GivenUp(p, s) ==
    /\ op[p].pc \in {"oldentry", "remove"} /\ op[p].victim # None
    /\ file[op[p].victim].slot = s
NamesKnown ==
    \A s, t \in Named : s # t /\ Entry(s).name = Entry(t).name =>
        \E p \in Procs : GivenUp(p, s) \/ GivenUp(p, t)
RenameKnown(p) ==
    LET o == op[p]
    IN /\ o.pc \in {"newentry", "oldentry"} =>
              ~file[o.of].removed /\ (o.victim # None => ~file[o.victim].removed)
       /\ o.pc = "newentry" =>
              IF o.victim = None THEN \A s \in Named : Entry(s).name # o.name
              ELSE Entry(file[o.victim].slot).name = o.name
       /\ o.pc = "oldentry" => o.cur \in Named /\ \A b \in Live : file[b].slot # o.cur
       /\ o.pc = "remove" => ~file[Gone(p)].removed
CallsSound == IdleKnown /\ VictimsKnown /\ DiscardsKnown
DirSound == Placed /\ OnePlace /\ NamesKnown /\ \A p \in Procs : RenameKnown(p)
DirInv == CallsSound /\ (Dir \notin broken => DirSound)

SameNames == \A s \in Slots : Contents(vol', Dir)[s].name = Contents(vol, Dir)[s].name
SamePlaces ==
    \A b \in Bindings : b \notin Unbound' =>
        file'[b].slot = file[b].slot /\ file'[b].removed = file[b].removed
FewerUsers == \A q \in Procs : str'[q].of \in {None, str[q].of}

\* The same names are in the same slots.
LEMMA NamedStays ==
    ASSUME SameNames
    PROVE  /\ Named' = Named
           /\ \A s \in Named : Entry(s)' = Contents(vol', Dir)[s] /\ Entry(s)'.name = Entry(s).name
BY DEF SameNames, Named, Entry

\* The whole directory seen as it was.
LEMMA SameDirNames ==
    ASSUME SameDir
    PROVE  SameNames
BY DEF SameDir, SameNames

\* Files that were not open come to slots nothing is bound to.
LEMMA PlacesMade ==
    ASSUME SameNames, Placed, OnePlace, NEW N,
           \A b \in Live' : b \notin N => b \in Live /\ file'[b].slot = file[b].slot,
           \A b \in N : file'[b].slot \in Named /\ BoundTo(file'[b].slot) = {},
           \A b, c \in N : file'[b].slot = file'[c].slot => b = c
    PROVE  Placed' /\ OnePlace'
<1>1. Named' = Named
    BY NamedStays
<1>2. \A b \in Live' : file'[b].slot \in Named
    BY DEF Placed
<1>3. ASSUME NEW b \in Live', NEW c \in Live', file'[b].slot = file'[c].slot PROVE b = c
    <2>1. \A a \in N, d \in Live : file[d].slot # file'[a].slot
        BY DEF BoundTo, Live
    <2>2. CASE b \in N /\ c \in N
        BY <1>3, <2>2
    <2>3. CASE b \in N /\ c \notin N
        BY <1>3, <2>1, <2>3
    <2>4. CASE b \notin N /\ c \in N
        BY <1>3, <2>1, <2>4
    <2>5. CASE b \notin N /\ c \notin N
        BY <1>3, <2>5 DEF OnePlace
    <2> QED
        BY <2>2, <2>3, <2>4, <2>5
<1> QED
    BY <1>1, <1>2, <1>3 DEF Placed, OnePlace

\* No name is doubled unless a rename is under way.
LEMMA NamesUnique ==
    ASSUME NamesKnown, \A q \in Procs : op[q].pc \notin {"oldentry", "remove"}
    PROVE  \A s, t \in Named : Entry(s).name = Entry(t).name => s = t
BY DEF NamesKnown, GivenUp

\* An object nobody uses stays unused when streams only close.
LEMMA StillUnbound ==
    ASSUME IInv, FewerUsers, NEW p \in Procs, NEW x \in Op, op' = [op EXCEPT ![p] = x],
           x.of \in {None, op[p].of, op[p].victim, str[p].of}, x.victim \in {None, op[p].victim}
    PROVE  Unbound \subseteq Unbound'
<1>1. \A q \in Procs : op'[q] = IF q = p THEN x ELSE op[q]
    BY DEF IInv, CallsTyped
<1> SUFFICES ASSUME NEW b \in Unbound PROVE b \in Unbound'
    OBVIOUS
<1>2. b \in Bindings /\ b # None
    BY BindingsAssumption DEF Unbound
<1>3. \A q \in Procs : str[q].of # b /\ op[q].of # b /\ op[q].victim # b
    BY DEF Unbound, Users
<1>4. \A q \in Procs : str'[q].of # b
    BY <1>2, <1>3 DEF FewerUsers
<1>5. \A q \in Procs : op'[q].of # b /\ op'[q].victim # b
    BY <1>1, <1>2, <1>3
<1> QED
    BY <1>2, <1>4, <1>5 DEF Unbound, Users

\* A rename that does not step is where it was.
LEMMA RenameStays ==
    ASSUME SameNames, SamePlaces, Live' \subseteq Live, Placed, NEW p \in Procs, op'[p] = op[p],
           op[p].pc # "idle" => op[p].of \in Bindings, op[p].victim # None => op[p].victim \in Bindings,
           RenameKnown(p)
    PROVE  RenameKnown(p)'
<1>1. Named' = Named /\ \A s \in Named : Entry(s)'.name = Entry(s).name
    BY NamedStays
<1>2. Gone(p)' = Gone(p)
    BY DEF Gone
<1>3. \A b \in Bindings : b \in {op[p].of, op[p].victim} =>
          file'[b].slot = file[b].slot /\ file'[b].removed = file[b].removed
    BY DEF SamePlaces, Unbound
<1> DEFINE o == op[p]
<1>4. o.pc \in {"newentry", "oldentry"} =>
          ~file'[o.of].removed /\ (o.victim # None => ~file'[o.victim].removed)
    BY <1>3 DEF RenameKnown
<1>5. o.pc = "newentry" =>
          IF o.victim = None THEN \A s \in Named : Contents(vol', Dir)[s].name # o.name
          ELSE Contents(vol', Dir)[file[o.victim].slot].name = o.name
    <2>1. o.pc = "newentry" /\ o.victim # None => file[o.victim].slot \in Named
        <3>1. o.victim # None => o.victim \notin Unbound
            BY DEF Unbound
        <3> QED
            BY <3>1 DEF RenameKnown, Placed, Live
    <2> QED
        BY <1>1, <2>1, NamedStays DEF RenameKnown, Entry
<1>6. o.pc = "oldentry" => o.cur \in Named /\ \A b \in Live' : file'[b].slot # o.cur
    <2>1. \A b \in Live' : b \in Live /\ file'[b].slot = file[b].slot
        BY DEF SamePlaces, Live
    <2> QED
        BY <2>1 DEF RenameKnown
<1>7. o.pc = "remove" => ~file'[Gone(p)].removed
    BY <1>3 DEF RenameKnown, Gone
<1>8. o.pc = "newentry" /\ o.victim # None => file'[o.victim].slot = file[o.victim].slot
    BY <1>3
<1>9. o.pc = "newentry" =>
          IF o.victim = None THEN \A s \in Named' : Entry(s)'.name # o.name
          ELSE Contents(vol', Dir)[file'[o.victim].slot].name = o.name
    BY <1>1, <1>5, <1>8 DEF Entry
<1> QED
    BY <1>1, <1>2, <1>4, <1>6, <1>7, <1>9 DEF RenameKnown, Entry

\* The directory is as sound as it was when no call that changes it steps.
LEMMA DirStaysSound ==
    ASSUME IInv, DirInv, SameNames, broken \subseteq broken', Unbound \subseteq Unbound', SamePlaces,
           \A q \in Procs : \/ op'[q] = op[q]
                            \/ {op[q].pc, op'[q].pc} \cap {"newentry", "oldentry", "remove"} = {}
    PROVE  Dir \notin broken' => DirSound'
<1> SUFFICES ASSUME Dir \notin broken' PROVE DirSound'
    OBVIOUS
<1>1. DirSound
    BY DEF DirInv
<1>2. Live' \subseteq Live /\ \A b \in Live' : file'[b].slot = file[b].slot
    BY DEF Live, SamePlaces
<1>3. Placed' /\ OnePlace'
    BY <1>1, <1>2, PlacesMade DEF DirSound
<1>4. \A q \in Procs : op[q].victim # None => op[q].victim \in Bindings
    BY DEF DirInv, CallsSound, VictimsKnown
<1>5. NamesKnown'
    <2>1. Named' = Named /\ \A s \in Named : Entry(s)' = Contents(vol', Dir)[s] /\ Entry(s)'.name = Entry(s).name
        BY NamedStays
    <2>2. ASSUME NEW p \in Procs, NEW s, GivenUp(p, s) PROVE GivenUp(p, s)'
        <3>1. op'[p] = op[p] /\ op[p].victim \in Bindings /\ op[p].victim \notin Unbound'
            BY <1>4, <2>2 DEF GivenUp, Unbound
        <3> QED
            BY <2>2, <3>1 DEF GivenUp, SamePlaces
    <2> SUFFICES ASSUME NEW s \in Named, NEW t \in Named, s # t, Entry(s).name = Entry(t).name
                 PROVE  \E p \in Procs : GivenUp(p, s)' \/ GivenUp(p, t)'
        BY <2>1 DEF NamesKnown, Entry
    <2> QED
        BY <1>1, <2>2 DEF DirSound, NamesKnown
<1>6. ASSUME NEW q \in Procs PROVE RenameKnown(q)'
    <2>1. CASE op'[q] = op[q]
        <3>1. op[q].pc # "idle" => op[q].of \in Bindings
            BY Typing DEF Known
        <3> QED
            BY <1>1, <1>2, <1>4, <2>1, <3>1, RenameStays DEF DirSound
    <2>2. CASE op'[q].pc \notin {"newentry", "oldentry", "remove"}
        BY <2>2 DEF RenameKnown
    <2> QED
        BY <2>1, <2>2
<1> QED
    BY <1>3, <1>5, <1>6 DEF DirSound

\* The calls are sound after a step of one of them.
LEMMA CallsStaySound ==
    ASSUME IInv, CallsSound, FewerUsers, NEW p \in Procs, NEW x \in Op, op' = [op EXCEPT ![p] = x],
           x.pc = "idle" => x = Idle,
           x.victim # None => /\ x.victim \in Bindings /\ x.victim # x.of
                              /\ x.pc \in {"newentry", "oldentry", "remove", "release"},
           x.job = "discard" => \A q \in Procs : str'[q].of # x.of
    PROVE  CallsSound'
<1>1. \A q \in Procs : op'[q] = IF q = p THEN x ELSE op[q]
    BY DEF IInv, CallsTyped
<1>2. ASSUME NEW q \in Procs, q # p, op[q].job = "discard" PROVE \A r \in Procs : str'[r].of # op[q].of
    <2>1. op[q].of # None
        <3>1. op[q].pc # "idle"
            BY <1>2, IdleIs DEF CallsSound, IdleKnown
        <3> QED
            BY <3>1, Typing, BindingsAssumption DEF Known
    <2> QED
        BY <1>2, <2>1 DEF CallsSound, DiscardsKnown, Users, FewerUsers
<1>3. DiscardsKnown'
    BY <1>1, <1>2 DEF DiscardsKnown, Users
<1> QED
    BY <1>1, <1>3 DEF CallsSound, IdleKnown, VictimsKnown

\* A step of a call that leaves the names alone.
LEMMA QuietStep ==
    ASSUME IInv, DirInv, SameNames, broken \subseteq broken', FewerUsers, SamePlaces,
           NEW p \in Procs, NEW x \in Op, op' = [op EXCEPT ![p] = x],
           {op[p].pc, x.pc} \cap {"newentry", "oldentry", "remove"} = {},
           x.pc = "idle" => x = Idle, x.of \in {None, op[p].of, op[p].victim, str[p].of}, x.victim = None,
           x.job = "discard" => \A q \in Procs : str'[q].of # x.of
    PROVE  DirInv'
<1>1. \A q \in Procs : op'[q] = IF q = p THEN x ELSE op[q]
    BY DEF IInv, CallsTyped
<1>2. CallsSound'
    BY CallsStaySound DEF DirInv
<1>3. Unbound \subseteq Unbound'
    BY StillUnbound
<1>4. Dir \notin broken' => DirSound'
    BY <1>1, <1>3, DirStaysSound
<1> QED
    BY <1>2, <1>4 DEF DirInv

\* The calls stay where they are, and nobody opens a file.
LEMMA QuietVolume ==
    ASSUME IInv, DirInv, SameNames, broken \subseteq broken', UNCHANGED <<file, str, op>>
    PROVE  DirInv'
<1>1. Unbound' = Unbound
    BY DEF Unbound, Users
<1>2. CallsSound'
    BY DEF DirInv, CallsSound, IdleKnown, VictimsKnown, DiscardsKnown, Users
<1>3. SamePlaces
    BY DEF SamePlaces
<1>4. Dir \notin broken' => DirSound'
    BY <1>1, <1>3, DirStaysSound
<1> QED
    BY <1>2, <1>4 DEF DirInv

\* A call on a stream that is over in one step.
LEMMA QuietCall ==
    ASSUME IInv, DirInv, SameDir, NEW p \in Procs, op[p].pc = "idle", op' = op, broken \subseteq broken',
           \A q \in Procs : str'[q].of = str[q].of,
           \A b \in Bindings : file'[b].slot = file[b].slot /\ file'[b].removed = file[b].removed
    PROVE  DirInv'
<1>1. op' = [op EXCEPT ![p] = Idle] /\ op[p] = Idle
    BY Typing DEF DirInv, CallsSound, IdleKnown
<1>2. FewerUsers /\ SamePlaces
    BY DEF FewerUsers, SamePlaces
<1>3. Idle.of = None /\ Idle.victim = None
    BY DEF Idle
<1> QED
    BY <1>1, <1>2, <1>3, IdleIs, SameDirNames, QuietStep

\* A call further on that is not at the directory, or over.
LEMMA GoesOn ==
    ASSUME IInv, DirInv, SameNames, NEW p \in Procs,
           op[p].pc \in {"alloc", "cut", "mark", "free", "unlink", "closewrite", "entry"},
           broken \subseteq broken', \A q \in Procs : str'[q].of = str[q].of,
           \A b \in Bindings : file'[b].slot = file[b].slot /\ file'[b].removed = file[b].removed,
           NEW x \in Op, op' = [op EXCEPT ![p] = x],
           \/ x = Idle
           \/ /\ x.pc \in {"mark", "free", "unlink", "closewrite", "entry", "commit"}
              /\ x.of \in {op[p].of, str[p].of} /\ x.victim \in {None, op[p].victim}
              /\ x.job = "discard" => op[p].job = "discard" /\ x.of = op[p].of
    PROVE  DirInv'
<1>1. FewerUsers /\ SamePlaces
    BY DEF FewerUsers, SamePlaces
<1>2. op[p].victim = None
    BY DEF DirInv, CallsSound, VictimsKnown
<1>3. op[p].job = "discard" => \A q \in Procs : str'[q].of # op[p].of
    BY DEF DirInv, CallsSound, DiscardsKnown, Users
<1>4. Idle.of = None /\ Idle.victim = None
    BY DEF Idle
<1>5. CASE x = Idle
    BY <1>1, <1>4, <1>5, IdleIs, QuietStep
<1>6. CASE x # Idle
    <2>1. /\ {op[p].pc, x.pc} \cap {"newentry", "oldentry", "remove"} = {} /\ x.pc # "idle"
          /\ x.of \in {None, op[p].of, op[p].victim, str[p].of} /\ x.victim = None
        BY <1>2, <1>6
    <2>2. x.job = "discard" => \A q \in Procs : str'[q].of # x.of
        BY <1>3, <1>6
    <2> QED
        BY <1>1, <2>1, <2>2, QuietStep
<1> QED
    BY <1>5, <1>6

\* fat_seek.
LEMMA SeekQuiet ==
    ASSUME IInv, DirInv, NEW p \in Procs, Seek(p)
    PROVE  DirInv'
<1>1. PICK len \in 0..File(p).size : SoughtTo(p, len)
    BY DEF Seek
<1>2. Shared(p) /\ UNCHANGED <<file, op, writer>> /\ SameDir
    BY SeekKeeps DEF Seek
<1>3. len \in Nat /\ op[p].pc = "idle" /\ str[p].of \in Bindings
    BY <1>2, SharedFacts
<1>4. broken \subseteq broken' /\ \A q \in Procs : str'[q].of = str[q].of
    BY <1>1, <1>3, SoughtToIs DEF MayStray
<1> QED
    BY <1>2, <1>3, <1>4, QuietCall

\* fat_readwrite, to read.
LEMMA ReadQuiet ==
    ASSUME IInv, DirInv, NEW p \in Procs, Read(p)
    PROVE  DirInv'
<1>1. /\ Shared(p) /\ UNCHANGED <<file, op, writer>> /\ SameDir /\ broken \subseteq broken'
      /\ str' = str \/ Moved(p, NextOf(p).r)
    BY ReadKeeps DEF Read, Noted
<1>2. op[p].pc = "idle" /\ NextOf(p).r \in Link
    BY <1>1, SharedFacts, NextOfIs
<1>3. \A q \in Procs : str'[q].of = str[q].of
    BY <1>1, <1>2, MovedIs, Unchanged
<1> QED
    BY <1>1, <1>2, <1>3, QuietCall

\* fat_readwrite, to write.
LEMMA WriteQuiet ==
    ASSUME IInv, DirInv, NEW p \in Procs, Write(p)
    PROVE  DirInv'
<1> DEFINE g == NextOf(p)
           x == [Idle EXCEPT !.pc = "alloc", !.of = str[p].of]
           b == str[p].of
<1>1. /\ Shared(p) /\ UNCHANGED <<broken, writer>> /\ SameDir
      /\ \/ op' = [op EXCEPT ![p] = x] /\ UNCHANGED <<file, str>>
         \/ op' = op /\ Moved(p, g.r) /\ Longer(p)
    BY WriteKeeps DEF Write
<1>2. op[p].pc = "idle" /\ g.r \in Link /\ b \in Bindings
    BY <1>1, SharedFacts, NextOfIs
<1>3. CASE op' = [op EXCEPT ![p] = x] /\ UNCHANGED <<file, str>>
    <2>1. x \in Op /\ x.pc = "alloc" /\ x.job = "none" /\ x.of = b /\ x.victim = None
        <3>1. b \in {None} \cup Bindings
            BY <1>2
        <3> HIDE DEF b
        <3> QED
            BY <3>1, IdleIs DEF Op, b, Idle
    <2>2. FewerUsers /\ SamePlaces
        BY <1>3 DEF FewerUsers, SamePlaces
    <2> HIDE DEF x
    <2> QED
        BY <1>1, <1>2, <1>3, <2>1, <2>2, SameDirNames, QuietStep
<1>4. CASE op' = op /\ Moved(p, g.r) /\ Longer(p)
    <2>1. \A q \in Procs : str'[q].of = str[q].of
        BY <1>2, <1>4, MovedIs
    <2>2. \A a \in Bindings : file'[a].slot = file[a].slot /\ file'[a].removed = file[a].removed
        BY <1>2, <1>4, Typing DEF Longer, FilesTyped, Object
    <2> QED
        BY <1>1, <1>2, <1>4, <2>1, <2>2, QuietCall
<1> QED
    BY <1>1, <1>3, <1>4

\* next_write_cluster.
LEMMA AllocQuiet ==
    ASSUME IInv, DirInv, NEW p \in Procs, Alloc(p)
    PROVE  DirInv'
<1> DEFINE b == str[p].of
           last == IF str[p].last = Failed THEN File(p).first ELSE str[p].last
           a == NextWriteCluster(vol, IF str[p].pos = 0 THEN None ELSE last)
           r == a.r
<1>1. /\ At(p, "alloc") /\ UNCHANGED writer /\ SameDir /\ op' = [op EXCEPT ![p] = Idle]
      /\ \/ UNCHANGED <<file, str>>
         \/ /\ Moved(p, r)
            /\ file' = [file EXCEPT ![b].first = IF str[p].pos = 0 THEN r ELSE @,
                                    ![b].size = IF str[p].pos + 1 > @ THEN str[p].pos + 1 ELSE @]
    BY AllocKeeps DEF Alloc
<1> HIDE DEF a, r, last
<1>2. op[p].pc = "alloc" /\ broken' = broken
    BY <1>1 DEF At
<1>3. \A q \in Procs : str'[q].of = str[q].of
    BY <1>1, Typing DEF Moved, FilesTyped, Stream
<1>4. \A c \in Bindings : file'[c].slot = file[c].slot /\ file'[c].removed = file[c].removed
    BY <1>1, Typing DEF FilesTyped, Object
<1> QED
    BY <1>1, <1>2, <1>3, <1>4, IdleIs, SameDirNames, GoesOn

Begun(p, x) ==
    /\ op' = [op EXCEPT ![p] = x] /\ x \in Op
    /\ \/ x = Idle
       \/ /\ x.pc \in {"cut", "closewrite"} /\ x.job \in {"trunc", "sync", "close"}
          /\ x.of = str[p].of /\ x.victim = None

\* The next step of a truncation, or its first.
LEMMA TruncationIs ==
    ASSUME IInv, NEW p \in Procs, NEW job \in {"trunc", "sync", "close"}, str[p].of \in Bindings
    PROVE  /\ GiveUp(p, job) => \E x : Begun(p, x) /\ x.pc # "cut"
           /\ \A len \in Nat : StartTruncate(p, job, len) => \E x : Begun(p, x)
<1> DEFINE b == str[p].of
           c == [Idle EXCEPT !.pc = "closewrite", !.job = job, !.of = b]
           t(len) == [Idle EXCEPT !.pc = "cut", !.job = job, !.of = b, !.len = len]
<1>1. c \in Op /\ c.pc = "closewrite" /\ c.job = job /\ c.of = b /\ c.victim = None
    <2>1. b \in Bindings
        OBVIOUS
    <2> HIDE DEF b
    <2> QED
        BY <2>1, IdleIs DEF Op, Idle
<1>2. ASSUME NEW len \in Nat
      PROVE  t(len) \in Op /\ t(len).pc = "cut" /\ t(len).job = job /\ t(len).of = b /\ t(len).victim = None
    <2>1. b \in Bindings
        OBVIOUS
    <2> HIDE DEF b
    <2> QED
        BY <2>1, IdleIs DEF Op, Idle
<1>3. GiveUp(p, job) => op' = [op EXCEPT ![p] = Idle] \/ op' = [op EXCEPT ![p] = c]
    BY DEF GiveUp
<1>4. \A len \in Nat : StartTruncate(p, job, len) => GiveUp(p, job) \/ op' = [op EXCEPT ![p] = t(len)]
    BY DEF StartTruncate
<1> HIDE DEF c, t
<1>5. GiveUp(p, job) => \E x : Begun(p, x) /\ x.pc # "cut"
    BY <1>1, <1>3, IdleIs DEF Begun
<1>6. ASSUME NEW len \in Nat, op' = [op EXCEPT ![p] = t(len)] PROVE \E x : Begun(p, x)
    BY <1>2, <1>6 DEF Begun
<1> QED
    BY <1>4, <1>5, <1>6

\* A truncation begins, or a call that closes or syncs.
LEMMA BegunQuiet ==
    ASSUME IInv, DirInv, SameDir, NEW p \in Procs, op[p].pc = "idle", broken \subseteq broken', file' = file,
           \A q \in Procs : str'[q].of = str[q].of, NEW x, Begun(p, x)
    PROVE  DirInv'
<1>1. FewerUsers /\ SamePlaces
    BY DEF FewerUsers, SamePlaces
<1>2. Idle.of = None /\ Idle.victim = None /\ Idle.job = "none" /\ Idle.pc = "idle"
    BY DEF Idle
<1> QED
    BY <1>1, <1>2, SameDirNames, QuietStep DEF Begun

\* ftruncate.
LEMMA TruncateQuiet ==
    ASSUME IInv, DirInv, NEW p \in Procs, Truncate(p)
    PROVE  DirInv'
<1>1. PICK len \in 0..File(p).size : StartTruncate(p, "trunc", len)
    BY DEF Truncate
<1>2. Shared(p) /\ UNCHANGED <<file, writer>> /\ SameDir
    BY TruncateKeeps DEF Truncate
<1>3. len \in Nat /\ str[p].of \in Bindings /\ op[p].pc = "idle"
    BY <1>2, SharedFacts
<1>4. broken \subseteq broken' /\ \A q \in Procs : str'[q].of = str[q].of
    BY <1>1, <1>3, StartTruncateIs DEF MayStray
<1>5. PICK x : Begun(p, x)
    BY <1>1, <1>3, TruncationIs
<1> QED
    BY <1>2, <1>3, <1>4, <1>5, BegunQuiet

\* fsync and close begin.
LEMMA SyncQuiet ==
    ASSUME IInv, DirInv, NEW p \in Procs, NEW job \in {"sync", "close"}, Sync(p, job)
    PROVE  DirInv'
<1>1. /\ NoCall(p) /\ str[p].of # None /\ file' = file /\ SameDir
      /\ \/ StartTruncate(p, job, File(p).size)
         \/ GiveUp(p, job) /\ UNCHANGED <<vol, str, broken>>
    BY SyncKeeps DEF Sync, Alone
<1>2. str[p].of \in Bindings /\ File(p).size \in Nat /\ op[p].pc = "idle"
    BY <1>1, Typing, ObjectFields DEF File, NoCall
<1>3. broken \subseteq broken' /\ \A q \in Procs : str'[q].of = str[q].of
    BY <1>1, <1>2, StartTruncateIs, Unchanged DEF MayStray
<1>4. PICK x : Begun(p, x)
    BY <1>1, <1>2, TruncationIs
<1> QED
    BY <1>1, <1>2, <1>3, <1>4, BegunQuiet

\* Further in the same truncation.
LEMMA ChainQuiet ==
    ASSUME IInv, DirInv, SameDir, NEW p \in Procs, op[p].pc \in {"cut", "mark", "free", "unlink"},
           NEW pc \in {"mark", "free", "unlink"}, NEW cur \in Link, NEW next \in Link,
           op' = [op EXCEPT ![p] = [op[p] EXCEPT !.pc = pc, !.cur = cur, !.next = next]],
           UNCHANGED <<file, str, broken>>
    PROVE  DirInv'
<1> DEFINE x == [op[p] EXCEPT !.pc = pc, !.cur = cur, !.next = next]
<1>1. x \in Op /\ x.pc = pc /\ x.of = op[p].of /\ x.victim = op[p].victim /\ x.job = op[p].job
    <2>1. cur \in Int /\ next \in Int
        BY Geometry DEF Link, None, Failed
    <2> QED
        BY <2>1, Typing, ZenonT(60) DEF Op
<1> HIDE DEF x
<1> QED
    BY <1>1, SameDirNames, GoesOn DEF x

\* fat_truncate and free_cluster_chain.
LEMMA CutQuiet ==
    ASSUME IInv, DirInv, NEW p \in Procs, Cut(p)
    PROVE  DirInv'
<1> DEFINE g == GetNext(vol, str[p].last)
<1>1. /\ At(p, "cut") /\ UNCHANGED <<file, str, writer>> /\ SameDir
      /\ Goto(p, "free") \/ op' = [op EXCEPT ![p].pc = "mark", ![p].cur = g.r]
    BY CutKeeps DEF Cut
<1>2. /\ op[p].pc = "cut" /\ broken' = broken /\ op[p].cur \in Link /\ op[p].next \in Link
      /\ op[p] \in Op /\ op \in [Procs -> Op]
    BY <1>1, Typing DEF At, Known
<1>3. g.r \in Link
    BY Typing, GetNextIs
<1> HIDE DEF g
<1>4. PICK pc \in {"mark", "free"}, cur \in Link :
          op' = [op EXCEPT ![p] = [op[p] EXCEPT !.pc = pc, !.cur = cur, !.next = op[p].next]]
    <2>1. CASE Goto(p, "free")
        <3>1. op' = [op EXCEPT ![p] = [op[p] EXCEPT !.pc = "free", !.cur = op[p].cur, !.next = op[p].next]]
            BY <1>2, <2>1 DEF Goto, Op
        <3> QED
            BY <1>2, <3>1
    <2>2. CASE op' = [op EXCEPT ![p].pc = "mark", ![p].cur = g.r]
        <3>1. op' = [op EXCEPT ![p] = [op[p] EXCEPT !.pc = "mark", !.cur = g.r, !.next = op[p].next]]
            BY <1>2, <2>2 DEF Op
        <3> QED
            BY <1>3, <3>1
    <2> QED
        BY <1>1, <2>1, <2>2
<1> QED
    BY <1>1, <1>2, <1>4, ChainQuiet

\* The last cluster that is kept is marked as the end, or the truncation fails there.
LEMMA MarkQuiet ==
    ASSUME IInv, DirInv, NEW p \in Procs, Mark(p)
    PROVE  DirInv'
<1>1. /\ At(p, "mark") /\ UNCHANGED <<file, str, writer>> /\ SameDir
      /\ Goto(p, "free") \/ GiveUp(p, op[p].job)
    BY MarkKeeps DEF Mark
<1>2. /\ op[p].pc = "mark" /\ broken' = broken /\ op[p].cur \in Link /\ op[p].next \in Link
      /\ op[p] \in Op /\ op \in [Procs -> Op] /\ op[p].job \in {"trunc", "sync", "close"}
      /\ str[p].of \in Bindings
    BY <1>1, Typing DEF At, Known
<1>3. CASE Goto(p, "free")
    <2>1. op' = [op EXCEPT ![p] = [op[p] EXCEPT !.pc = "free", !.cur = op[p].cur, !.next = op[p].next]]
        BY <1>2, <1>3 DEF Goto, Op
    <2> QED
        BY <1>1, <1>2, <2>1, ChainQuiet
<1>4. CASE GiveUp(p, op[p].job)
    <2>1. PICK x : Begun(p, x) /\ x.pc # "cut"
        BY <1>2, <1>4, TruncationIs
    <2> QED
        BY <1>1, <1>2, <2>1, SameDirNames, GoesOn DEF Begun
<1> QED
    BY <1>1, <1>3, <1>4

\* The link of a cluster is read before it is freed.
LEMMA FreeNextQuiet ==
    ASSUME IInv, DirInv, NEW p \in Procs, FreeNext(p)
    PROVE  DirInv'
<1> DEFINE g == GetNext(vol, op[p].cur)
<1>1. /\ At(p, "free") /\ UNCHANGED <<file, str, writer>> /\ SameDir
      /\ op' = [op EXCEPT ![p].pc = "unlink", ![p].next = g.r]
    BY FreeNextKeeps DEF FreeNext
<1>2. /\ op[p].pc = "free" /\ broken' = broken /\ op[p].cur \in Link
      /\ op[p] \in Op /\ op \in [Procs -> Op]
    BY <1>1, Typing DEF At, Known
<1>3. g.r \in Link
    BY <1>2, Typing, GetNextIs
<1> HIDE DEF g
<1>4. op' = [op EXCEPT ![p] = [op[p] EXCEPT !.pc = "unlink", !.cur = op[p].cur, !.next = g.r]]
    BY <1>1, <1>2 DEF Op
<1>5. op[p].pc \in {"cut", "mark", "free", "unlink"} /\ UNCHANGED <<file, str, broken>> /\ SameDir
    BY <1>1, <1>2
<1> QED
    BY <1>2, <1>3, <1>4, <1>5, ChainQuiet

\* The cluster is freed, or the chain is given up.
LEMMA UnlinkQuiet ==
    ASSUME IInv, DirInv, NEW p \in Procs, Unlink(p)
    PROVE  DirInv'
<1> DEFINE u == UpdateFat(vol, op[p].cur, None)
           cur == IF u.ok THEN op[p].next ELSE None
<1>1. /\ At(p, "unlink") /\ UNCHANGED <<file, str, writer>> /\ SameDir
      /\ op' = [op EXCEPT ![p].pc = "free", ![p].next = None, ![p].cur = cur]
    BY UnlinkKeeps DEF Unlink
<1>2. /\ op[p].pc = "unlink" /\ broken' = broken /\ op[p].next \in Link
      /\ op[p] \in Op /\ op \in [Procs -> Op]
    BY <1>1, Typing DEF At, Known
<1>3. cur \in Link /\ None \in Link
    BY <1>2 DEF Link
<1> HIDE DEF u, cur
<1>4. op' = [op EXCEPT ![p] = [op[p] EXCEPT !.pc = "free", !.cur = cur, !.next = None]]
    BY <1>1, <1>2 DEF Op
<1>5. op[p].pc \in {"cut", "mark", "free", "unlink"} /\ UNCHANGED <<file, str, broken>> /\ SameDir
    BY <1>1, <1>2
<1> QED
    BY <1>2, <1>3, <1>4, <1>5, ChainQuiet

\* A call at its file that goes to another step.
LEMMA GotoQuiet ==
    ASSUME IInv, DirInv, SameNames, NEW p \in Procs, op[p].pc \in {"free", "closewrite", "entry"},
           NEW pc \in {"closewrite", "entry", "commit"}, Goto(p, pc), broken' = broken,
           \A q \in Procs : str'[q].of = str[q].of,
           \A b \in Bindings : file'[b].slot = file[b].slot /\ file'[b].removed = file[b].removed
    PROVE  DirInv'
<1> DEFINE x == [op[p] EXCEPT !.pc = pc]
<1>1. x \in Op /\ x.pc = pc /\ x.of = op[p].of /\ x.victim = op[p].victim /\ x.job = op[p].job
    BY Typing DEF Op
<1>2. op' = [op EXCEPT ![p] = x]
    BY DEF Goto
<1> HIDE DEF x
<1> QED
    BY <1>1, <1>2, GoesOn

\* The chain is free: an entry is to be written, or the call is over.
LEMMA FreedQuiet ==
    ASSUME IInv, DirInv, NEW p \in Procs, Freed(p)
    PROVE  DirInv'
<1> DEFINE b == op[p].of
           len == op[p].len
<1>1. /\ At(p, "free") /\ SameDir
      /\ \/ Goto(p, "commit") /\ UNCHANGED <<file, str>>
         \/ file' = [file EXCEPT ![b].trunc = FALSE] /\ Goto(p, "closewrite") /\ UNCHANGED str
         \/ /\ file' = [file EXCEPT ![b].trunc = FALSE, ![b].size = len]
            /\ str' = str \/ str' = Rewound(str, p, len)
            /\ op' = [op EXCEPT ![p] = Idle]
    BY FreedKeeps DEF Freed
<1> HIDE DEF b, len
<1>2. op[p].pc = "free" /\ broken' = broken
    BY <1>1 DEF At
<1>3. \A a \in Bindings : file'[a].slot = file[a].slot /\ file'[a].removed = file[a].removed
    BY <1>1, Typing DEF FilesTyped, Object
<1>4. \A q \in Procs : str'[q].of = str[q].of
    BY <1>1, RewoundIs, Typing DEF FilesTyped
<1>5. CASE Goto(p, "commit") \/ Goto(p, "closewrite")
    BY <1>1, <1>2, <1>3, <1>4, <1>5, SameDirNames, GotoQuiet
<1>6. CASE op' = [op EXCEPT ![p] = Idle]
    BY <1>1, <1>2, <1>3, <1>4, <1>6, IdleIs, SameDirNames, GoesOn
<1> QED
    BY <1>1, <1>5, <1>6

\* A close writes the entry, or has only the cache to write.
LEMMA CloseWriteQuiet ==
    ASSUME IInv, DirInv, NEW p \in Procs, CloseWrite(p)
    PROVE  DirInv'
<1> DEFINE b == op[p].of
<1>1. /\ At(p, "closewrite") /\ SameDir
      /\ Goto(p, "entry") \/ Goto(p, "commit")
      /\ file' = file \/ file' = [file EXCEPT ![b].first = None]
      /\ str' = str \/ str' = [str EXCEPT ![p].pos = 0, ![p].last = None]
    BY CloseWriteKeeps DEF CloseWrite
<1> HIDE DEF b
<1>2. op[p].pc = "closewrite" /\ broken' = broken
    BY <1>1 DEF At
<1>3. \A a \in Bindings : file'[a].slot = file[a].slot /\ file'[a].removed = file[a].removed
    BY <1>1, Typing DEF FilesTyped, Object
<1>4. \A q \in Procs : str'[q].of = str[q].of
    BY <1>1, Typing DEF FilesTyped, Stream
<1> QED
    BY <1>1, <1>2, <1>3, <1>4, SameDirNames, GotoQuiet

\* update_short_entry: the names stay.
LEMMA WriteEntryQuiet ==
    ASSUME IInv, DirInv, NEW p \in Procs, WriteEntry(p)
    PROVE  DirInv'
<1> DEFINE f == file[op[p].of]
           c == CacheSector(vol, Dir)
           old == c.d.buffer[c.e][f.slot]
           new == [old EXCEPT !.first = f.first, !.size = f.size]
           w == [c.d EXCEPT !.panic = TRUE]
           u == PutSlot(vol, f.slot, new)
<1>1. /\ At(p, "entry") /\ Goto(p, "commit") /\ UNCHANGED <<file, str, writer>>
      /\ vol' = CASE f.slot = NoSlot -> vol
                  [] f.slot # NoSlot /\ c.e = NoEntry -> c.d
                  [] f.slot # NoSlot /\ c.e # NoEntry /\ old.name = NoName -> w
                  [] OTHER -> u.d
    BY ZenonT(60) DEF WriteEntry
<1>2. op[p].pc = "entry" /\ broken' = broken /\ op[p].of \in Bindings
    BY <1>1, Typing, Zenon DEF At, Known
<1>3. Had(vol, Dir, c)
    BY Typing, Geometry, CacheSectorHas
<1>4. f.slot \in {NoSlot} \cup Slots /\ f.first \in {None} \cup Clusters /\ f.size \in Nat
    BY <1>2, ObjectFields
<1> HIDE DEF c, f
<1>5. Good(c.d) /\ Contents(c.d, Dir) = Contents(vol, Dir)
    BY <1>3, Geometry DEF Had, Kept, SameContents
<1>6. Contents(w, Dir) = Contents(vol, Dir)
    <2>1. w.flags = c.d.flags /\ w.sector = c.d.sector /\ w.disk = c.d.disk /\ w.buffer = c.d.buffer
        BY <1>5 DEF Good, Vol
    <2> HIDE DEF w
    <2> QED
        BY <1>5, <2>1 DEF Contents, Holders
<1>7. ASSUME f.slot # NoSlot, c.e # NoEntry PROVE SameNames
    <2>1. c.e \in c.d.used /\ c.d.sector[c.e] = Dir /\ c.d.buffer[c.e] \in [Slots -> DirSlot]
        BY <1>3, <1>5, <1>7 DEF Had, Good, HeldOK, Data
    <2>2. Contents(vol, Dir) = c.d.buffer[c.e]
        BY <1>5, <2>1, ContentsIs, Geometry
    <2>3. old \in DirSlot /\ old = Contents(vol, Dir)[f.slot]
        BY <1>4, <1>7, <2>1, <2>2
    <2> HIDE DEF old
    <2>4. new \in DirSlot /\ new.name = Contents(vol, Dir)[f.slot].name
        BY <1>4, <2>3 DEF DirSlot
    <2> HIDE DEF new
    <2>5. CacheSector(vol, Dir).e # NoEntry
        BY <1>7 DEF c
    <2>6. Contents(u.d, Dir) = [Contents(vol, Dir) EXCEPT ![f.slot] = new]
        BY <2>4, <2>5, Typing, PutSlotIs
    <2> HIDE DEF u
    <2>7. \A s \in Slots : Contents(u.d, Dir)[s].name = Contents(vol, Dir)[s].name
        <3>1. Contents(vol, Dir) \in [Slots -> DirSlot]
            BY <2>1, <2>2
        <3> QED
            BY <2>4, <2>6, <3>1
    <2> QED
        BY <1>1, <1>6, <1>7, <2>7 DEF SameNames
<1>8. ASSUME f.slot = NoSlot \/ c.e = NoEntry PROVE SameNames
    <2>1. vol' = vol \/ vol' = c.d
        BY <1>1, <1>8
    <2> QED
        BY <1>5, <2>1 DEF SameNames
<1>9. SameNames
    BY <1>7, <1>8
<1> QED
    BY <1>1, <1>2, <1>9, GotoQuiet

\* An object that the call gives up as nobody uses it.
LEMMA FileDropped ==
    ASSUME IInv, DirInv, NEW p \in Procs, \A q \in Procs : q # p => op[q].pc = "idle",
           NEW x \in Op, op' = [op EXCEPT ![p] = x], NEW b \in Bindings, x.of # b, x.victim = None,
           file' = file \/ (file' = [file EXCEPT ![b] = NoFile] /\ \A q \in Procs : str'[q].of # b)
    PROVE  SamePlaces
<1>1. CASE file' = file
    BY <1>1 DEF SamePlaces
<1>2. CASE file' = [file EXCEPT ![b] = NoFile] /\ \A q \in Procs : str'[q].of # b
    <2>1. \A q \in Procs : op'[q] = IF q = p THEN x ELSE Idle
        BY DEF IInv, CallsTyped, DirInv, CallsSound, IdleKnown
    <2>2. \A q \in Procs : op'[q].of # b /\ op'[q].victim # b
        BY <2>1, BindingsAssumption DEF Idle
    <2>3. b \in Unbound'
        BY <1>2, <2>2 DEF Unbound, Users
    <2> QED
        BY <1>2, <2>3, Typing DEF SamePlaces, FilesTyped
<1> QED
    BY <1>1, <1>2

\* The last stream of an object closes.
LEMMA ReleasedQuiet ==
    ASSUME IInv, DirInv, SameNames, broken' = broken, FewerUsers, NEW p \in Procs,
           op[p].pc \in {"commit", "release"}, op[p].of \in Bindings,
           \A q \in Procs : q # p => op[q].pc = "idle",
           NEW users, Released(p, op[p].of, users), users = {} => \A q \in Procs : str'[q].of # op[p].of
    PROVE  DirInv'
<1> DEFINE b == op[p].of
           x == [Idle EXCEPT !.pc = "free", !.job = "discard", !.of = b, !.cur = file[b].first]
<1>1. CASE users = {} /\ file[b].removed /\ file[b].first # None
    <2>1. op' = [op EXCEPT ![p] = x] /\ UNCHANGED <<file, writer>>
        BY <1>1 DEF Released
    <2>2. x \in Op /\ x.pc = "free" /\ x.of = b /\ x.victim = None
        <3>1. PICK c \in Link : c = file[b].first
            BY ObjectFields
        <3>2. c \in Int
            BY Geometry DEF Link, None, Failed
        <3>3. b \in Bindings
            OBVIOUS
        <3> HIDE DEF b
        <3>4. [Idle EXCEPT !.pc = "free", !.job = "discard", !.of = b, !.cur = c] \in Op
            BY <3>2, <3>3, IdleIs DEF Op
        <3> QED
            BY <3>1, <3>4, IdleIs DEF Op, Idle
    <2> HIDE DEF x
    <2>3. SamePlaces
        BY <2>1 DEF SamePlaces
    <2> QED
        BY <1>1, <2>1, <2>2, <2>3, QuietStep
<1>2. CASE ~(users = {} /\ file[b].removed /\ file[b].first # None)
    <2>1. op' = [op EXCEPT ![p] = Idle] /\ Idle.of = None /\ Idle.victim = None
        BY <1>2 DEF Released, Done, Idle
    <2>2. file' = file \/ (file' = [file EXCEPT ![b] = NoFile] /\ users = {})
        BY <1>2 DEF Released
    <2>3. SamePlaces
        BY <2>1, <2>2, IdleIs, BindingsAssumption, FileDropped
    <2> QED
        BY <2>1, <2>3, IdleIs, QuietStep
<1> QED
    BY <1>1, <1>2

\* The commit, and what closes after it.
LEMMA CommitStepQuiet ==
    ASSUME IInv, DirInv, NEW p \in Procs, CommitStep(p)
    PROVE  DirInv'
<1> DEFINE b == op[p].of
<1>1. /\ At(p, "commit") /\ SameDir
      /\ \/ Done(p) /\ UNCHANGED <<file, str>>
         \/ Released(p, b, Users(b) \ {p}) /\ str' = [str EXCEPT ![p] = NoStream]
         \/ op[p].job = "discard" /\ Done(p) /\ file' = [file EXCEPT ![b] = NoFile] /\ str' = str
    <2>1. At(p, "commit") => op[p].job \in {"sync", "close", "discard"}
        BY Typing DEF At, Known
    <2> QED
        BY <2>1, CommitStepKeeps DEF CommitStep
<1>2. Exclusive(op[p])
    BY <1>1 DEF At, Exclusive
<1>3. /\ b \in Bindings /\ broken' = broken /\ op[p].pc = "commit"
      /\ \A q \in Procs : q # p => op[q].pc = "idle"
    BY <1>1, <1>2, AtFacts
<1>4. FewerUsers
    BY <1>1, Typing DEF FewerUsers, FilesTyped, NoStream
<1>5. CASE Done(p) /\ str' = str /\ (file' = file \/ (op[p].job = "discard" /\ file' = [file EXCEPT ![b] = NoFile]))
    <2>1. op' = [op EXCEPT ![p] = Idle] /\ Idle.of = None /\ Idle.victim = None
        BY <1>5 DEF Done, Idle
    <2>2. op[p].job = "discard" => \A q \in Procs : str'[q].of # b
        BY <1>5 DEF DirInv, CallsSound, DiscardsKnown, Users
    <2>3. SamePlaces
        BY <1>3, <1>5, <2>1, <2>2, IdleIs, BindingsAssumption, FileDropped
    <2> QED
        BY <1>1, <1>3, <1>4, <2>1, <2>3, IdleIs, SameDirNames, QuietStep
<1>6. CASE Released(p, b, Users(b) \ {p}) /\ str' = [str EXCEPT ![p] = NoStream]
    <2>1. Users(b) \ {p} = {} => \A q \in Procs : str'[q].of # b
        <3>1. \A q \in Procs : str'[q] = IF q = p THEN NoStream ELSE str[q]
            BY <1>6, Typing DEF FilesTyped
        <3>2. NoStream.of # b
            BY <1>3, BindingsAssumption DEF NoStream
        <3>3. Users(b) \ {p} = {} => \A q \in Procs : q # p => str[q].of # b
            BY DEF Users
        <3> HIDE DEF b
        <3> QED
            BY <3>1, <3>2, <3>3
    <2> QED
        BY <1>1, <1>3, <1>4, <1>6, <2>1, SameDirNames, ReleasedQuiet
<1> QED
    BY <1>1, <1>5, <1>6

\* rename closes its streams.
LEMMA ReleaseQuiet ==
    ASSUME IInv, DirInv, NEW p \in Procs, Release(p)
    PROVE  DirInv'
<1> DEFINE b == op[p].of
           v == op[p].victim
           x == [Idle EXCEPT !.pc = "release", !.of = v]
<1>1. /\ At(p, "release") /\ UNCHANGED <<vol, str>>
      /\ \/ Released(p, b, Users(b))
         \/ /\ v # None /\ op' = [op EXCEPT ![p] = x]
            /\ file' = file \/ (Users(b) = {} /\ file' = [file EXCEPT ![b] = NoFile])
    BY DEF Release
<1>2. Exclusive(op[p])
    BY <1>1 DEF At, Exclusive
<1>3. /\ b \in Bindings /\ broken' = broken /\ op[p].pc = "release"
      /\ \A q \in Procs : q # p => op[q].pc = "idle"
    BY <1>1, <1>2, AtFacts
<1>4. SameNames /\ FewerUsers
    BY <1>1 DEF SameNames, FewerUsers
<1>5. Users(b) = {} => \A q \in Procs : str'[q].of # b
    BY <1>1 DEF Users
<1>6. CASE Released(p, b, Users(b))
    BY <1>3, <1>4, <1>5, <1>6, ReleasedQuiet
<1>7. CASE /\ v # None /\ op' = [op EXCEPT ![p] = x]
           /\ file' = file \/ (Users(b) = {} /\ file' = [file EXCEPT ![b] = NoFile])
    <2>1. v \in Bindings /\ v # b
        BY <1>7 DEF DirInv, CallsSound, VictimsKnown
    <2>2. x \in Op /\ x.pc = "release" /\ x.job = "none" /\ x.of = v /\ x.victim = None
        <3> HIDE DEF v
        <3> QED
            BY <2>1, IdleIs DEF Op, Idle
    <2> HIDE DEF x
    <2>3. SamePlaces
        BY <1>3, <1>5, <1>7, <2>1, <2>2, FileDropped
    <2> QED
        BY <1>3, <1>4, <1>7, <2>2, <2>3, QuietStep
<1> QED
    BY <1>1, <1>6, <1>7

(***************************************************************************)
(* The steps that change the directory.                                    *)
(***************************************************************************)
\* Nothing is under way: every call is over, and the names are unique.
LEMMA NothingUnderWay ==
    ASSUME IInv, DirInv, NEW p \in Procs, NoCall(p)
    PROVE  /\ \A q \in Procs : op[q] = Idle /\ op[q].pc = "idle" /\ op[q].of = None /\ op[q].victim = None
           /\ Unbound = {b \in Bindings : Users(b) = {}}
           /\ Dir \notin broken => \A s, t \in Named : Entry(s).name = Entry(t).name => s = t
           /\ \A s \in Slots, n \in Names : s \in SlotNamed(n) => s \in Named /\ Entry(s).name = n
           /\ \A s \in Named, n \in Names : Entry(s).name = n => s \in SlotNamed(n)
<1>1. \A q \in Procs : op[q] = Idle /\ op[q].pc = "idle" /\ op[q].of = None /\ op[q].victim = None
    BY AloneFacts DEF DirInv, CallsSound, IdleKnown, Idle
<1>2. Unbound = {b \in Bindings : Users(b) = {}}
    BY <1>1, BindingsAssumption DEF Unbound
<1>3. Dir \notin broken => \A s, t \in Named : Entry(s).name = Entry(t).name => s = t
    BY <1>1, NamesUnique DEF DirInv, DirSound
<1>4. Contents(vol, Dir) = vol.disk[Dir]
    BY AloneFacts
<1> QED
    BY <1>1, <1>2, <1>3, <1>4, NamesAssumption DEF SlotNamed, Named, Entry

\* The object of a file that is opened: one in use, or a new one.
LEMMA BindingMade ==
    ASSUME NEW s, NEW taken, BoundTo(s) \cup (Unbound \ taken) # {}
    PROVE  \/ Binding(s, taken) \in BoundTo(s)
           \/ BoundTo(s) = {} /\ Binding(s, taken) \in Unbound \ taken
<1>1. BoundTo(s) \subseteq Nat /\ Unbound \ taken \subseteq Nat
    BY BindingsAssumption DEF BoundTo, Unbound
<1> QED
    BY <1>1, LowestIn DEF Binding

\* What becomes of the objects.
LEMMA BoundMade ==
    ASSUME NEW fs \in [Bindings -> Object], NEW b \in Bindings, NEW s
    PROVE  /\ BoundTo(s) # {} => Bound(fs, b, s) = fs
           /\ BoundTo(s) = {} => /\ Bound(fs, b, s)[b].slot = s /\ ~Bound(fs, b, s)[b].removed
                                 /\ \A a \in Bindings : a # b => Bound(fs, b, s)[a] = fs[a]
<1> DEFINE x == [NoFile EXCEPT !.slot = s, !.first = vol.disk[Dir][s].first,
                               !.size = vol.disk[Dir][s].size]
<1>1. x.slot = s /\ ~x.removed
    BY DEF NoFile
<1>2. Bound(fs, b, s) = IF BoundTo(s) # {} THEN fs ELSE [fs EXCEPT ![b] = x]
    BY DEF Bound
<1> HIDE DEF x
<1> QED
    BY <1>1, <1>2

\* open.
LEMMA OpenSound ==
    ASSUME IInv, DirInv, NEW p \in Procs, Open(p)
    PROVE  DirInv'
<1>1. NoCall(p) /\ UNCHANGED <<vol, broken, op, writer>>
    BY DEF Open
<1>2. PICK n \in Names, trunc \in BOOLEAN : \E s \in SlotNamed(n) : Opened(p, trunc, s)
    BY DEF Open, Opened
<1>3. PICK s \in SlotNamed(n) : Opened(p, trunc, s)
    BY <1>2
<1> DEFINE b == Binding(s, {})
           fs == Bound(file, b, s)
           st == [str EXCEPT ![p] = [of |-> b, pos |-> 0, last |-> fs[b].first]]
<1>4. /\ file' = fs \/ file' = [fs EXCEPT ![b].trunc = TRUE, ![b].size = 0]
      /\ str' = st \/ str' = Rewound(st, p, 0)
      /\ BoundTo(s) \cup Unbound # {}
    BY <1>3 DEF Opened
<1>5. b \in BoundTo(s) \/ (BoundTo(s) = {} /\ b \in Unbound)
    <2>1. Unbound \ {} = Unbound
        OBVIOUS
    <2> QED
        BY <1>4, <2>1, BindingMade
<1>6. b \in Bindings /\ s \in Slots
    BY <1>3, <1>5 DEF SlotNamed, BoundTo, Unbound
<1> HIDE DEF b
<1>7. \A q \in Procs : str'[q].of = IF q = p THEN b ELSE str[q].of
    <2>1. fs \in [Bindings -> Object]
        BY <1>6, BoundIs, Typing DEF FilesTyped
    <2> HIDE DEF fs
    <2>2. [of |-> b, pos |-> 0, last |-> fs[b].first] \in Stream
        <3>1. fs[b].first \in Link
            BY <1>6, <2>1 DEF Object, Link
        <3> QED
            BY <1>6, <3>1 DEF Stream
    <2>3. st \in [Procs -> Stream] /\ \A q \in Procs : st[q].of = IF q = p THEN b ELSE str[q].of
        BY <2>2, Typing DEF FilesTyped
    <2> HIDE DEF st
    <2> QED
        BY <1>4, <2>3, RewoundIs
<1>8. \A a \in Bindings : /\ a # b \/ BoundTo(s) # {} => file'[a].slot = file[a].slot /\ file'[a].removed = file[a].removed
                          /\ a = b /\ BoundTo(s) = {} => file'[a].slot = s /\ ~file'[a].removed
    <2>1. fs \in [Bindings -> Object]
        BY <1>6, BoundIs, Typing DEF FilesTyped
    <2>2. /\ BoundTo(s) # {} => fs = file
          /\ BoundTo(s) = {} => /\ fs[b].slot = s /\ ~fs[b].removed
                                /\ \A a \in Bindings : a # b => fs[a] = file[a]
        BY <1>6, BoundMade, Typing DEF FilesTyped
    <2> HIDE DEF fs
    <2>3. \A a \in Bindings : file'[a].slot = fs[a].slot /\ file'[a].removed = fs[a].removed
        BY <1>4, <2>1 DEF Object
    <2> QED
        BY <2>2, <2>3
<1>9. /\ \A q \in Procs : op[q] = Idle /\ op[q].pc = "idle" /\ op[q].of = None /\ op[q].victim = None
      /\ Dir \notin broken => \A c, t \in Named : Entry(c).name = Entry(t).name => c = t
      /\ s \in Named
    BY <1>1, <1>3, <1>6, NothingUnderWay
<1>10. CallsSound'
    BY <1>1, <1>9, IdleIs DEF CallsSound, IdleKnown, VictimsKnown, DiscardsKnown, Users
<1>11. ASSUME Dir \notin broken' PROVE DirSound'
    <2>1. SameNames /\ DirSound
        BY <1>1, <1>11 DEF SameNames, DirInv
    <2>2. \A a \in Live' : a \in Live \/ a = b
        <3>1. \A a \in Bindings : a # b /\ a \in Unbound => a \in Unbound'
            BY <1>1, <1>7 DEF Unbound, Users
        <3> QED
            BY <1>8, <3>1 DEF Live
    <2>3. Placed' /\ OnePlace'
        <3> DEFINE N == IF BoundTo(s) = {} THEN {b} ELSE {}
        <3>1. \A a \in Live' : a \notin N => a \in Live /\ file'[a].slot = file[a].slot
            BY <1>5, <1>8, <2>2 DEF BoundTo, Live
        <3>2. \A a \in N : file'[a].slot \in Named /\ BoundTo(file'[a].slot) = {}
            BY <1>6, <1>8, <1>9
        <3>3. \A a, c \in N : a = c
            OBVIOUS
        <3> HIDE DEF N
        <3> QED
            BY <2>1, <3>1, <3>2, <3>3, PlacesMade DEF DirSound
    <2>4. NamesKnown'
        BY <1>1, <1>9, <1>11 DEF NamesKnown, Named, Entry
    <2> QED
        BY <1>1, <1>9, <2>3, <2>4 DEF DirSound, RenameKnown
<1> QED
    BY <1>10, <1>11 DEF DirInv

\* A commit leaves what is seen of the directory.
LEMMA CommitShows ==
    ASSUME NEW d, Good(d)
    PROVE  Contents(Commit(d), Dir) = Contents(d, Dir)
BY CommitIs, Geometry DEF Moves

\* A slot that is put is seen at its place, before a commit and after it.
LEMMA PutShows ==
    ASSUME NEW d, Good(d), NEW s \in Slots, NEW entry \in DirSlot, PutSlot(d, s, entry).ok
    PROVE  LET r == PutSlot(d, s, entry).d
           IN /\ Good(r) /\ Good(Commit(r)) /\ Contents(Commit(r), Dir) = Contents(r, Dir)
              /\ \A t \in Slots : Contents(r, Dir)[t] = IF t = s THEN entry ELSE Contents(d, Dir)[t]
<1> DEFINE r == PutSlot(d, s, entry).d
<1>1. Moves(d, r, {Dir}) /\ Contents(r, Dir) = [Contents(d, Dir) EXCEPT ![s] = entry]
    BY PutSlotIs
<1> HIDE DEF r
<1>2. Good(r) /\ Good(Commit(r)) /\ Contents(Commit(r), Dir) = Contents(r, Dir)
    BY <1>1, CommitIs, CommitShows DEF Moves
<1>3. Contents(d, Dir) \in [Slots -> DirSlot]
    BY ContentsIs, Geometry DEF Data
<1> QED
    BY <1>1, <1>2, <1>3 DEF r

\* While the directory is legible a slot can be written.
LEMMA Legible ==
    ASSUME IInv, Dir \notin broken, NEW s, NEW entry \in DirSlot
    PROVE  PutSlot(vol, s, entry).ok
<1>1. Dir \notin vol.bad
    BY Geometry DEF IInv, VolKnown
<1> QED
    BY <1>1, Typing, PutSlotIs DEF IInv, VolKnown

\* open with O_CREAT, of a name that is not there.
LEMMA CreateSound ==
    ASSUME IInv, DirInv, NEW p \in Procs, Create(p)
    PROVE  DirInv'
<1> DEFINE s == Lowest(FreeSlots(Contents(vol, Dir)))
           b == Lowest(Unbound)
           new(n) == [FreeSlot EXCEPT !.name = n]
           u(n) == PutSlot(vol, s, new(n))
           made == /\ file' = [file EXCEPT ![b] = [NoFile EXCEPT !.slot = s]]
                   /\ str' = [str EXCEPT ![p] = [NoStream EXCEPT !.of = b]]
<1>1. /\ NoCall(p) /\ Unbound # {} /\ FreeSlots(vol.disk[Dir]) # {}
      /\ UNCHANGED <<broken, op, writer>>
    BY DEF Create, Alone
<1>2. PICK n \in Names : /\ vol' = Commit(u(n).d) /\ SlotNamed(n) = {}
                         /\ IF u(n).ok THEN made ELSE UNCHANGED <<file, str>>
    BY DEF Create
<1>3. s \in FreeSlots(Contents(vol, Dir)) /\ s \in Slots /\ b \in Unbound /\ b \in Bindings
    <2>1. FreeSlots(Contents(vol, Dir)) # {}
        BY <1>1, AloneFacts
    <2>2. Unbound \subseteq Bindings /\ Unbound \subseteq Nat
        BY BindingsAssumption DEF Unbound
    <2> QED
        BY <1>1, <2>1, <2>2, FreeSlotIs, LowestIn
<1> HIDE DEF s, b
<1>4. new(n) \in DirSlot /\ new(n).name = n
    BY FreeSlotIs DEF DirSlot, FreeSlot
<1> HIDE DEF new
<1>5. /\ \A q \in Procs : op[q] = Idle /\ op[q].pc = "idle" /\ op[q].of = None /\ op[q].victim = None
      /\ Unbound = {c \in Bindings : Users(c) = {}}
      /\ Dir \notin broken => \A c, t \in Named : Entry(c).name = Entry(t).name => c = t
      /\ \A t \in Named : Entry(t).name # n
    BY <1>1, <1>2, NothingUnderWay
<1>6. CallsSound'
    BY <1>1, <1>5, IdleIs DEF CallsSound, IdleKnown, VictimsKnown, DiscardsKnown, Users
<1>7. ASSUME Dir \notin broken' PROVE DirSound'
    <2>1. DirSound /\ Dir \notin broken
        BY <1>1, <1>7 DEF DirInv
    <2>2. u(n).ok
        BY <1>4, <2>1, Legible
    <2>3. \A t \in Slots : Contents(vol', Dir)[t] = IF t = s THEN new(n) ELSE Contents(vol, Dir)[t]
        BY <1>2, <1>3, <1>4, <2>2, Typing, PutShows
    <2>4. /\ file' = [file EXCEPT ![b] = [NoFile EXCEPT !.slot = s]]
          /\ str' = [str EXCEPT ![p] = [NoStream EXCEPT !.of = b]]
        BY <1>2, <2>2
    <2> HIDE DEF u
    <2>5. /\ file'[b].slot = s /\ ~file'[b].removed
          /\ \A a \in Bindings : a # b => file'[a] = file[a]
        BY <1>3, <2>4, Typing DEF FilesTyped, NoFile
    <2>6. \A q \in Procs : str'[q].of = IF q = p THEN b ELSE str[q].of
        BY <2>4, Typing DEF FilesTyped, NoStream
    <2>7. Live' \subseteq Live \cup {b}
        <3>1. \A a \in Bindings : a # b /\ a \in Unbound => a \in Unbound'
            BY <1>1, <2>6 DEF Unbound, Users
        <3> QED
            BY <2>5, <3>1 DEF Live
    <2>8. Named' = Named \cup {s} /\ s \notin Named
        BY <1>3, <1>4, <2>3, NamesAssumption DEF Named, Entry, FreeSlots
    <2>9. \A a \in Live : file'[a].slot = file[a].slot /\ file[a].slot \in Named
        <3>1. b \notin Live
            BY <1>3 DEF Live
        <3> QED
            BY <2>1, <2>5, <3>1 DEF Live, Placed, DirSound
    <2>10. Placed' /\ OnePlace'
        <3>1. \A a \in Live' : file'[a].slot \in Named'
            BY <2>5, <2>7, <2>8, <2>9
        <3>2. \A a, c \in Live' : file'[a].slot = file'[c].slot => a = c
            BY <2>1, <2>5, <2>7, <2>8, <2>9 DEF OnePlace, DirSound
        <3> QED
            BY <3>1, <3>2 DEF Placed, OnePlace
    <2>11. NamesKnown'
        <3>1. \A t \in Named : Contents(vol', Dir)[t] = Entry(t)
            BY <2>3, <2>8 DEF Named, Entry
        <3>2. Contents(vol', Dir)[s].name = n
            BY <1>3, <1>4, <2>3
        <3>3. \A c, t \in Named' : Contents(vol', Dir)[c].name = Contents(vol', Dir)[t].name => c = t
            BY <1>5, <2>1, <2>8, <3>1, <3>2
        <3> QED
            BY <3>3 DEF NamesKnown, Entry
    <2> QED
        BY <1>1, <1>5, <2>10, <2>11 DEF DirSound, RenameKnown
<1> QED
    BY <1>6, <1>7 DEF DirInv

\* remove begins.
LEMMA RemoveFileSound ==
    ASSUME IInv, DirInv, NEW p \in Procs, RemoveFile(p)
    PROVE  DirInv'
<1>1. NoCall(p) /\ writer' = p /\ UNCHANGED <<vol, broken, str>>
    BY DEF RemoveFile, Alone
<1>2. PICK n \in Names : \E s \in SlotNamed(n) :
          /\ BoundTo(s) \cup Unbound # {}
          /\ op' = [op EXCEPT ![p] = [Idle EXCEPT !.pc = "remove", !.of = Binding(s, {})]]
          /\ file' = Bound(file, Binding(s, {}), s)
    BY DEF RemoveFile
<1>3. PICK s \in SlotNamed(n) :
          /\ BoundTo(s) \cup Unbound # {}
          /\ op' = [op EXCEPT ![p] = [Idle EXCEPT !.pc = "remove", !.of = Binding(s, {})]]
          /\ file' = Bound(file, Binding(s, {}), s)
    BY <1>2
<1> DEFINE b == Binding(s, {})
           x == [Idle EXCEPT !.pc = "remove", !.of = b]
<1>4. b \in BoundTo(s) \/ (BoundTo(s) = {} /\ b \in Unbound)
    <2>1. Unbound \ {} = Unbound
        OBVIOUS
    <2> QED
        BY <1>3, <2>1, BindingMade
<1>5. b \in Bindings /\ s \in Slots /\ op' = [op EXCEPT ![p] = x] /\ file' = Bound(file, b, s)
    BY <1>3, <1>4 DEF SlotNamed, BoundTo, Unbound
<1> HIDE DEF b
<1>6. x \in Op /\ x.pc = "remove" /\ x.job = "none" /\ x.of = b /\ x.victim = None
    BY <1>5, IdleIs DEF Op, Idle
<1> HIDE DEF x
<1>7. /\ BoundTo(s) # {} => file' = file
      /\ BoundTo(s) = {} => /\ file'[b].slot = s /\ ~file'[b].removed
                            /\ \A a \in Bindings : a # b => file'[a] = file[a]
    BY <1>5, BoundMade, Typing DEF FilesTyped
<1>8. /\ \A q \in Procs : op[q] = Idle /\ op[q].pc = "idle" /\ op[q].of = None /\ op[q].victim = None
      /\ Dir \notin broken => \A c, t \in Named : Entry(c).name = Entry(t).name => c = t
      /\ s \in Named
    BY <1>1, <1>3, <1>5, NothingUnderWay
<1>9. FewerUsers /\ CallsSound'
    <2>1. FewerUsers
        BY <1>1 DEF FewerUsers
    <2> QED
        BY <1>5, <1>6, <2>1, CallsStaySound DEF DirInv
<1>10. ASSUME Dir \notin broken' PROVE DirSound'
    <2>1. SameNames /\ DirSound
        BY <1>1, <1>10 DEF SameNames, DirInv
    <2>2. \A q \in Procs : op'[q] = IF q = p THEN x ELSE Idle
        BY <1>5, <1>8, Typing
    <2>3. \A a \in Live' : a \in Live \/ a = b
        <3>1. \A a \in Bindings : a # b /\ a \in Unbound => a \in Unbound'
            BY <1>1, <1>6, <2>2, BindingsAssumption DEF Unbound, Users, Idle
        <3> QED
            BY <1>7, <3>1 DEF Live
    <2>4. Placed' /\ OnePlace'
        <3> DEFINE N == IF BoundTo(s) = {} THEN {b} ELSE {}
        <3>1. \A a \in Live' : a \notin N => a \in Live /\ file'[a].slot = file[a].slot
            BY <1>4, <1>7, <2>3 DEF BoundTo, Live
        <3>2. \A a \in N : file'[a].slot \in Named /\ BoundTo(file'[a].slot) = {}
            BY <1>7, <1>8
        <3>3. \A a, c \in N : a = c
            OBVIOUS
        <3> HIDE DEF N
        <3> QED
            BY <2>1, <3>1, <3>2, <3>3, PlacesMade DEF DirSound
    <2>5. NamesKnown'
        BY <1>1, <1>8, <1>10 DEF NamesKnown, Named, Entry
    <2>6. ~file'[b].removed
        BY <1>4, <1>7 DEF BoundTo
    <2>7. \A q \in Procs : RenameKnown(q)'
        <3>1. Gone(p)' = b
            BY <1>6, <2>2 DEF Gone
        <3> QED
            BY <1>6, <2>2, <2>6, <3>1, IdleIs DEF RenameKnown
    <2> QED
        BY <2>4, <2>5, <2>7 DEF DirSound
<1> QED
    BY <1>9, <1>10 DEF DirInv

\* rename begins.
LEMMA RenameSound ==
    ASSUME IInv, DirInv, NEW p \in Procs, Rename(p)
    PROVE  DirInv'
<1>1. NoCall(p) /\ writer' = p /\ UNCHANGED <<vol, broken, str>>
    BY DEF Rename, Alone
<1>2. PICK old \in Names : \E new \in Names \ {old} : \E s \in SlotNamed(old) : Renamed(p, new, s)
    BY DEF Rename, Renamed
<1>3. PICK new \in Names \ {old} : \E s \in SlotNamed(old) : Renamed(p, new, s)
    BY <1>2
<1>4. PICK s \in SlotNamed(old) : Renamed(p, new, s)
    BY <1>3
<1> DEFINE b == Binding(s, {})
           t == SlotNamed(new)
           l == Lowest(t)
           v == IF t = {} THEN None ELSE Binding(l, {b})
           fs == Bound(file, b, s)
           x == [Idle EXCEPT !.pc = "newentry", !.of = b, !.victim = v, !.name = new]
<1>5. /\ BoundTo(s) \cup Unbound # {}
      /\ t # {} => BoundTo(l) \cup (Unbound \ {b}) # {}
      /\ file' = IF t = {} THEN fs ELSE Bound(fs, v, l)
      /\ op' = [op EXCEPT ![p] = x]
    BY <1>4 DEF Renamed
<1>6. /\ \A q \in Procs : op[q] = Idle /\ op[q].pc = "idle" /\ op[q].of = None /\ op[q].victim = None
      /\ Dir \notin broken => \A c, d \in Named : Entry(c).name = Entry(d).name => c = d
      /\ s \in Slots /\ s \in Named /\ Entry(s).name = old
      /\ t # {} => l \in Slots /\ l \in Named /\ Entry(l).name = new
      /\ t = {} => \A c \in Named : Entry(c).name # new
    <2>1. t \subseteq Slots /\ s \in Slots
        BY <1>4 DEF SlotNamed
    <2>2. t # {} => l \in t
        <3>1. t \subseteq Nat
            BY <2>1, Geometry
        <3> HIDE DEF t
        <3> QED
            BY <3>1, LowestIn
    <2> QED
        BY <1>1, <1>4, <2>1, <2>2, NothingUnderWay
<1>7. b \in Bindings /\ (b \in BoundTo(s) \/ (BoundTo(s) = {} /\ b \in Unbound))
    <2>1. Unbound \ {} = Unbound
        OBVIOUS
    <2> QED
        BY <1>5, <2>1, BindingMade DEF BoundTo, Unbound
<1> HIDE DEF b
<1>8. t # {} => v \in Bindings /\ (v \in BoundTo(l) \/ (BoundTo(l) = {} /\ v \in Unbound \ {b}))
    <2>1. t # {} => v \in BoundTo(l) \/ (BoundTo(l) = {} /\ v \in Unbound \ {b})
        BY <1>5, BindingMade
    <2> HIDE DEF v, t, l
    <2>2. BoundTo(l) \subseteq Bindings /\ Unbound \subseteq Bindings
        BY DEF BoundTo, Unbound
    <2> QED
        BY <2>1, <2>2
<1>9. /\ t = {} => v = None
      /\ t # {} => v # None /\ v # b /\ l # s
    <2>1. t # {} => l # s
        BY <1>3, <1>6
    <2>2. t # {} => v # None
        BY <1>8, BindingsAssumption
    <2> HIDE DEF t, l, v
    <2>3. t # {} => v # b
        BY <1>7, <1>8, <2>1 DEF BoundTo
    <2> QED
        BY <2>1, <2>2, <2>3 DEF t, v
<1> HIDE DEF t, l, v
<1>10. /\ fs \in [Bindings -> Object]
       /\ BoundTo(s) # {} => fs = file
       /\ BoundTo(s) = {} => /\ fs[b].slot = s /\ ~fs[b].removed
                             /\ \A a \in Bindings : a # b => fs[a] = file[a]
    BY <1>6, <1>7, BoundIs, BoundMade, Typing DEF FilesTyped
<1> HIDE DEF fs
<1>11. t # {} => /\ BoundTo(l) # {} => file' = fs
                 /\ BoundTo(l) = {} => /\ file'[v].slot = l /\ ~file'[v].removed
                                       /\ \A a \in Bindings : a # v => file'[a] = fs[a]
    BY <1>5, <1>8, <1>10, BoundMade
<1>12. x \in Op /\ x.pc = "newentry" /\ x.job = "none" /\ x.of = b /\ x.victim = v /\ x.name = new
    <2>1. v \in {None} \cup Bindings
        BY <1>8, <1>9
    <2> QED
        BY <1>3, <1>7, <2>1, IdleIs DEF Op, Idle
<1> HIDE DEF x
<1>13. FewerUsers /\ CallsSound'
    <2>1. FewerUsers
        BY <1>1 DEF FewerUsers
    <2> QED
        BY <1>5, <1>8, <1>9, <1>12, <2>1, CallsStaySound DEF DirInv
\* The two files are where they are to be, and the others where they were.
<1>14. file'[b].slot = s /\ ~file'[b].removed
    <2>1. fs[b].slot = s /\ ~fs[b].removed
        BY <1>7, <1>10 DEF BoundTo
    <2> QED
        BY <1>5, <1>7, <1>9, <1>11, <2>1
<1>15. t # {} => file'[v].slot = l /\ ~file'[v].removed
    <2>1. t # {} => fs[v] = file[v]
        BY <1>8, <1>9, <1>10
    <2> QED
        BY <1>8, <1>11, <2>1 DEF BoundTo
<1>16. \A a \in Bindings : a # b /\ a # v => file'[a] = file[a]
    BY <1>5, <1>10, <1>11
<1>17. ASSUME Dir \notin broken' PROVE DirSound'
    <2>1. SameNames /\ DirSound
        BY <1>1, <1>17 DEF SameNames, DirInv
    <2>2. \A q \in Procs : op'[q] = IF q = p THEN x ELSE Idle
        BY <1>5, <1>6, Typing
    <2>3. \A a \in Live' : a \in Live \/ a = b \/ a = v
        <3>1. \A a \in Bindings : a # b /\ a # v /\ a \in Unbound => a \in Unbound'
            BY <1>1, <1>12, <2>2, BindingsAssumption DEF Unbound, Users, Idle
        <3> QED
            BY <1>16, <3>1 DEF Live
    <2>4. Placed' /\ OnePlace'
        <3> DEFINE N == {a \in {b, v} \ {None} : BoundTo(file'[a].slot) = {}}
        <3>1. \A a \in Live' : a \notin N => a \in Live /\ file'[a].slot = file[a].slot
            <4> SUFFICES ASSUME NEW a \in Live', a \notin N PROVE a \in Live /\ file'[a].slot = file[a].slot
                OBVIOUS
            <4>1. a \in Bindings /\ a # None
                BY BindingsAssumption DEF Live
            <4>2. CASE a # b /\ a # v
                BY <1>16, <2>3, <4>1, <4>2
            <4>3. CASE a = b
                BY <1>7, <1>14, <4>1, <4>3 DEF BoundTo, Live
            <4>4. CASE a = v
                BY <1>8, <1>9, <1>15, <4>1, <4>4 DEF BoundTo, Live
            <4> QED
                BY <4>2, <4>3, <4>4
        <3>2. \A a \in N : file'[a].slot \in Named /\ BoundTo(file'[a].slot) = {}
            BY <1>6, <1>9, <1>14, <1>15
        <3>3. \A a, c \in N : file'[a].slot = file'[c].slot => a = c
            BY <1>9, <1>14, <1>15
        <3> HIDE DEF N
        <3> QED
            BY <2>1, <3>1, <3>2, <3>3, PlacesMade DEF DirSound
    <2>5. NamesKnown'
        BY <1>1, <1>6, <1>17 DEF NamesKnown, Named, Entry
    <2>6. RenameKnown(p)'
        <3>1. Named' = Named /\ \A c : Contents(vol', Dir)[c] = Entry(c)
            BY <1>1 DEF Named, Entry
        <3>2. IF v = None THEN \A c \in Named' : Contents(vol', Dir)[c].name # new
              ELSE Contents(vol', Dir)[file'[v].slot].name = new
            BY <1>6, <1>9, <1>15, <3>1
        <3> QED
            BY <1>9, <1>12, <1>14, <1>15, <2>2, <3>2 DEF RenameKnown, Entry
    <2>7. \A q \in Procs : RenameKnown(q)'
        BY <2>2, <2>6, IdleIs DEF RenameKnown
    <2> QED
        BY <2>4, <2>5, <2>7 DEF DirSound
<1> QED
    BY <1>13, <1>17 DEF DirInv

\* What a rename, or a remove, that has the lock alone starts from.
LEMMA AtEntry ==
    ASSUME IInv, DirInv, NEW p \in Procs, op[p].pc \in {"newentry", "oldentry", "remove"}
    PROVE  /\ \A q \in Procs : q # p => op[q] = Idle /\ op[q].pc = "idle"
           /\ op[p].of \in Bindings /\ op[p].of \notin Unbound
           /\ op[p].victim # None => /\ op[p].victim \in Bindings /\ op[p].victim \notin Unbound
                                     /\ op[p].victim # op[p].of
           /\ Gone(p) \in {op[p].of, op[p].victim} /\ Gone(p) \in Bindings /\ Gone(p) \notin Unbound
           /\ Dir \notin broken => \A s, t \in Named : s # t /\ Entry(s).name = Entry(t).name =>
                                       GivenUp(p, s) \/ GivenUp(p, t)
<1>1. Exclusive(op[p])
    BY DEF Exclusive
<1>2. \A q \in Procs : q # p => op[q].pc = "idle"
    BY <1>1 DEF IInv, LockHeld
<1>3. \A q \in Procs : q # p => op[q] = Idle /\ op[q].pc = "idle"
    BY <1>2 DEF DirInv, CallsSound, IdleKnown
<1>4. /\ op[p].of \in Bindings /\ op[p].of \notin Unbound
      /\ op[p].victim # None => /\ op[p].victim \in Bindings /\ op[p].victim \notin Unbound
                                /\ op[p].victim # op[p].of
    BY Typing DEF Known, Unbound, DirInv, CallsSound, VictimsKnown
<1>5. Dir \notin broken => \A s, t \in Named : s # t /\ Entry(s).name = Entry(t).name =>
                               GivenUp(p, s) \/ GivenUp(p, t)
    BY <1>2 DEF DirInv, DirSound, NamesKnown, GivenUp
<1> QED
    BY <1>3, <1>4, <1>5 DEF Gone

\* A step of such a call, to where it goes next.
LEMMA EntryStep ==
    ASSUME IInv, DirInv, NEW p \in Procs, op[p].pc \in {"newentry", "oldentry", "remove"},
           str' = str, NEW x \in Op, op' = [op EXCEPT ![p] = x], x.of = op[p].of,
           x.victim = op[p].victim, x.job = op[p].job, x.pc \in {"oldentry", "remove", "release"}
    PROVE  CallsSound' /\ Unbound' = Unbound /\ \A q \in Procs : op'[q] = IF q = p THEN x ELSE Idle
<1>1. \A q \in Procs : op'[q] = IF q = p THEN x ELSE op[q]
    BY Typing
<1>2. FewerUsers
    BY DEF FewerUsers
<1>3. CallsSound'
    <2>1. x.victim # None => x.victim \in Bindings /\ x.victim # x.of
        BY DEF DirInv, CallsSound, VictimsKnown
    <2>2. x.job = "discard" => \A q \in Procs : str'[q].of # x.of
        BY DEF DirInv, CallsSound, DiscardsKnown, Users
    <2> QED
        BY <1>2, <2>1, <2>2, CallsStaySound DEF DirInv
<1>4. Unbound' = Unbound
    BY <1>1 DEF Unbound, Users
<1> QED
    BY <1>1, <1>3, <1>4, AtEntry

\* fat_rename writes the new entry.
LEMMA NewEntrySound ==
    ASSUME IInv, DirInv, NEW p \in Procs, NewEntry(p)
    PROVE  DirInv'
<1> DEFINE f == file[op[p].of]
           s == Lowest(FreeSlots(Contents(vol, Dir)))
           old == Contents(vol, Dir)[f.slot]
           new == [old EXCEPT !.name = op[p].name, !.first = f.first]
           u == PutSlot(vol, s, new)
           v == op[p].victim
<1>1. /\ At(p, "newentry") /\ UNCHANGED <<file, str, writer>>
      /\ vol' = IF u.ok THEN u.d ELSE Commit(u.d)
      /\ op' = IF u.ok THEN [op EXCEPT ![p].pc = "oldentry", ![p].cur = s]
               ELSE [op EXCEPT ![p].pc = "release"]
    BY DEF NewEntry
<1>2. op[p].pc = "newentry" /\ broken' = broken
    BY <1>1 DEF At
<1>3. /\ op[p].name \in Names /\ f.slot \in Slots /\ f.first \in {None} \cup Clusters
      /\ s \in FreeSlots(Contents(vol, Dir)) /\ s \in Slots
    <2>1. Ready(op[p]) /\ op[p].of \in Bindings
        BY <1>2, Typing DEF IInv, RenamesReady, Known
    <2> QED
        BY <2>1, FreeSlotIs, ObjectFields DEF Ready
<1>4. Contents(vol, Dir) \in [Slots -> DirSlot]
    BY Typing, ContentsIs, Geometry DEF Data
<1> HIDE DEF f, s
<1>5. new \in DirSlot /\ new.name = op[p].name
    <2>1. old \in DirSlot
        BY <1>3, <1>4
    <2> HIDE DEF old
    <2> QED
        BY <1>3, <2>1 DEF DirSlot
<1> HIDE DEF new, old
<1>6. PICK x \in Op : /\ op' = [op EXCEPT ![p] = x] /\ x.of = op[p].of /\ x.victim = v /\ x.job = op[p].job
                      /\ x.pc = IF u.ok THEN "oldentry" ELSE "release"
                      /\ u.ok => x.cur = s
    <2> DEFINE o == [op[p] EXCEPT !.pc = "oldentry", !.cur = s]
               r == [op[p] EXCEPT !.pc = "release"]
    <2>1. op[p] \in Op /\ op \in [Procs -> Op] /\ s \in Int
        BY <1>3, Typing, Geometry
    <2>2. o \in Op /\ o.of = op[p].of /\ o.victim = v /\ o.job = op[p].job /\ o.pc = "oldentry" /\ o.cur = s
        BY <2>1 DEF Op
    <2>3. r \in Op /\ r.of = op[p].of /\ r.victim = v /\ r.job = op[p].job /\ r.pc = "release"
        BY <2>1 DEF Op
    <2>4. op' = [op EXCEPT ![p] = IF u.ok THEN o ELSE r]
        BY <1>1, <2>1 DEF Op
    <2> HIDE DEF o, r, u, v
    <2> QED
        BY <2>2, <2>3, <2>4
<1>7. /\ CallsSound' /\ Unbound' = Unbound
      /\ \A q \in Procs : op'[q] = IF q = p THEN x ELSE Idle
    BY <1>1, <1>2, <1>6, EntryStep
<1>8. ASSUME Dir \notin broken' PROVE DirSound'
    <2>1. DirSound /\ Dir \notin broken /\ u.ok
        BY <1>2, <1>5, <1>8, Legible DEF DirInv
    <2>2. \A t \in Slots : Contents(vol', Dir)[t] = IF t = s THEN new ELSE Contents(vol, Dir)[t]
        BY <1>1, <1>3, <1>5, <2>1, Typing, PutShows
    <2> HIDE DEF u
    <2>3. Live' = Live /\ file' = file
        BY <1>1, <1>7 DEF Live
    <2>4. Named' = Named \cup {s} /\ s \notin Named
        BY <1>3, <1>5, <2>2, NamesAssumption DEF Named, Entry, FreeSlots
    <2>5. Placed' /\ OnePlace'
        BY <2>1, <2>3, <2>4 DEF Placed, OnePlace, DirSound
    <2>6. /\ ~file[op[p].of].removed /\ (v # None => ~file[v].removed)
          /\ IF v = None THEN \A t \in Named : Entry(t).name # op[p].name
             ELSE Entry(file[v].slot).name = op[p].name
        BY <1>2, <2>1 DEF DirSound, RenameKnown
    <2>7. \A t \in Named : Contents(vol', Dir)[t] = Entry(t)
        BY <2>2, <2>4 DEF Named, Entry
    <2>8. \A t, r \in Named : Entry(t).name = Entry(r).name => t = r
        BY <1>2, <2>1, AtEntry DEF GivenUp
    <2>9. \A t \in Named : Entry(t).name = op[p].name => v # None /\ file[v].slot = t
        <3>1. v # None => v \in Live
            BY <1>2, <2>6, AtEntry DEF Live
        <3>2. v # None => file[v].slot \in Named
            BY <2>1, <3>1 DEF DirSound, Placed
        <3> QED
            BY <2>6, <2>8, <3>2
    <2>10. NamesKnown'
        <3>1. Contents(vol', Dir)[s].name = op[p].name
            BY <1>3, <1>5, <2>2
        <3>2. \A t \in Named : Contents(vol', Dir)[t].name = Contents(vol', Dir)[s].name => GivenUp(p, t)'
            BY <1>6, <1>7, <2>1, <2>3, <2>7, <2>9, <3>1 DEF GivenUp
        <3>3. \A t, r \in Named' : t # r /\ Contents(vol', Dir)[t].name = Contents(vol', Dir)[r].name =>
                  GivenUp(p, t)' \/ GivenUp(p, r)'
            BY <2>4, <2>7, <2>8, <3>2
        <3> QED
            BY <3>3 DEF NamesKnown, Entry
    <2>11. RenameKnown(p)'
        <3>1. \A b \in Live' : file'[b].slot # s
            BY <2>1, <2>3, <2>4 DEF DirSound, Placed
        <3> QED
            BY <1>6, <1>7, <2>1, <2>3, <2>4, <2>6, <3>1 DEF RenameKnown
    <2>12. \A q \in Procs : RenameKnown(q)'
        BY <1>7, <2>11, IdleIs DEF RenameKnown
    <2> QED
        BY <2>5, <2>10, <2>12 DEF DirSound
<1> QED
    BY <1>7, <1>8 DEF DirInv

\* A call at the directory that goes to another step.
LEMMA GotoIs ==
    ASSUME IInv, NEW p \in Procs, NEW pc \in {"remove", "release"}, Goto(p, pc)
    PROVE  \E x \in Op : /\ op' = [op EXCEPT ![p] = x] /\ x.of = op[p].of /\ x.victim = op[p].victim
                         /\ x.job = op[p].job /\ x.pc = pc
<1> DEFINE x == [op[p] EXCEPT !.pc = pc]
<1>1. x \in Op /\ x.of = op[p].of /\ x.victim = op[p].victim /\ x.job = op[p].job /\ x.pc = pc
    BY Typing DEF Op
<1>2. op' = [op EXCEPT ![p] = x]
    BY DEF Goto
<1> QED
    BY <1>1, <1>2

\* A slot is freed: who else has one keeps it.
LEMMA SlotFreed ==
    ASSUME IInv, DirInv, Dir \notin broken, NEW b \in Live,
           \A t \in Slots : Contents(vol', Dir)[t] = IF t = file[b].slot THEN FreeSlot ELSE Contents(vol, Dir)[t]
    PROVE  /\ Named' = Named \ {file[b].slot} /\ \A t \in Named' : Contents(vol', Dir)[t] = Entry(t)
           /\ \A a \in Live : a # b => file[a].slot \in Named'
<1>1. Named' = Named \ {file[b].slot} /\ \A t \in Named' : Contents(vol', Dir)[t] = Entry(t)
    BY DEF Named, Entry, FreeSlot
<1>2. \A a \in Live : a # b => file[a].slot \in Named /\ file[a].slot # file[b].slot
    BY DEF DirInv, DirSound, Placed, OnePlace
<1> QED
    BY <1>1, <1>2

\* fat_rename frees the old one.
LEMMA OldEntrySound ==
    ASSUME IInv, DirInv, NEW p \in Procs, OldEntry(p)
    PROVE  DirInv'
<1> DEFINE b == op[p].of
           v == op[p].victim
           u == PutSlot(vol, file[b].slot, FreeSlot)
           w == PutSlot(u.d, op[p].cur, FreeSlot)
<1>1. /\ At(p, "oldentry") /\ UNCHANGED <<str, writer>>
      /\ vol' = OldFreed(p).d
      /\ file' = IF OldFreed(p).ok THEN [file EXCEPT ![b].slot = op[p].cur] ELSE file
      /\ Goto(p, IF OldFreed(p).ok /\ v # None THEN "remove" ELSE "release")
    BY DEF OldEntry
<1>2. /\ op[p].pc = "oldentry" /\ broken' = broken /\ op[p].cur \in Slots
      /\ b \in Bindings /\ b \notin Unbound
    BY <1>1, Typing, AtEntry DEF At, Known
<1>3. OldFreed(p).d = Commit(IF u.ok THEN u.d ELSE w.d) /\ OldFreed(p).ok = u.ok
    BY DEF OldFreed, PutSlot, PutIn
<1> HIDE DEF b, v, w, u
<1>4. PICK pc \in {"remove", "release"} : /\ Goto(p, pc)
                                          /\ pc = IF u.ok /\ v # None THEN "remove" ELSE "release"
    BY <1>1, <1>3
<1>5. PICK x \in Op : /\ op' = [op EXCEPT ![p] = x] /\ x.of = op[p].of /\ x.victim = op[p].victim
                      /\ x.job = op[p].job /\ x.pc = pc
    BY <1>4, GotoIs
<1>6. /\ CallsSound' /\ Unbound' = Unbound
      /\ \A q \in Procs : op'[q] = IF q = p THEN x ELSE Idle
    BY <1>1, <1>2, <1>5, EntryStep
<1>7. ASSUME Dir \notin broken' PROVE DirSound'
    <2>1. DirSound /\ Dir \notin broken /\ u.ok
        BY <1>2, <1>7, FreeSlotIs, Legible DEF DirInv, u
    <2>2. file' = [file EXCEPT ![b].slot = op[p].cur] /\ file \in [Bindings -> Object]
        BY <1>1, <1>3, <2>1, Typing DEF FilesTyped
    <2>3. /\ file'[b].slot = op[p].cur /\ file'[b].removed = file[b].removed
          /\ \A a \in Bindings : a # b => file'[a] = file[a]
        BY <1>2, <2>2 DEF Object
    <2>4. Live' = Live
        BY <1>6, <2>3 DEF Live
    <2>5. /\ b \in Live /\ op[p].cur \in Named /\ \A a \in Live : file[a].slot # op[p].cur
          /\ v # None => v \in Live /\ v # b
        <3>1. v # None => v \in Bindings /\ v \notin Unbound /\ v # b
            BY <1>2, AtEntry DEF v, b
        <3> QED
            BY <1>2, <2>1, <3>1 DEF DirSound, RenameKnown, Live, b, v
    <2>6. file[b].slot \in Slots
        BY <2>1, <2>5 DEF DirSound, Placed, Named
    <2>7. \A t \in Slots : Contents(vol', Dir)[t] = IF t = file[b].slot THEN FreeSlot ELSE Contents(vol, Dir)[t]
        BY <1>1, <1>3, <2>1, <2>6, FreeSlotIs, Typing, PutShows DEF u
    <2>8. /\ Named' = Named \ {file[b].slot} /\ \A t \in Named' : Contents(vol', Dir)[t] = Entry(t)
          /\ \A a \in Live : a # b => file[a].slot \in Named'
        BY <2>1, <2>5, <2>7, SlotFreed
    <2>9. Placed' /\ OnePlace'
        <3>1. op[p].cur \in Named'
            BY <2>5, <2>8
        <3>2. \A a \in Live : file'[a].slot \in Named'
            BY <2>3, <2>8, <3>1 DEF Live
        <3>3. \A a, c \in Live : file'[a].slot = file'[c].slot => a = c
            BY <2>1, <2>3, <2>5 DEF DirSound, OnePlace, Live
        <3> QED
            BY <2>4, <3>2, <3>3 DEF Placed, OnePlace
    <2>10. NamesKnown'
        <3>1. ASSUME NEW t, GivenUp(p, t) PROVE GivenUp(p, t)'
            BY <1>4, <1>5, <1>6, <2>1, <2>3, <2>5, <3>1 DEF GivenUp, v, Live
        <3>2. \A t, r \in Named' : t # r /\ Contents(vol', Dir)[t].name = Contents(vol', Dir)[r].name =>
                  GivenUp(p, t) \/ GivenUp(p, r)
            BY <1>2, <2>1, <2>8, AtEntry
        <3> QED
            BY <3>1, <3>2 DEF NamesKnown, Entry
    <2>11. RenameKnown(p)'
        <3>1. pc = "remove" => Gone(p)' = v /\ ~file'[v].removed
            BY <1>4, <1>5, <1>6, <2>3, <2>5 DEF Gone, Live, v
        <3> QED
            BY <1>5, <1>6, <3>1 DEF RenameKnown
    <2>12. \A q \in Procs : RenameKnown(q)'
        BY <1>6, <2>11, IdleIs DEF RenameKnown
    <2> QED
        BY <2>9, <2>10, <2>12 DEF DirSound
<1> QED
    BY <1>6, <1>7 DEF DirInv

\* fat_remove.
LEMMA RemoveEntrySound ==
    ASSUME IInv, DirInv, NEW p \in Procs, RemoveEntry(p)
    PROVE  DirInv'
<1> DEFINE b == Gone(p)
           u == PutSlot(vol, file[b].slot, FreeSlot)
<1>1. /\ At(p, "remove") /\ UNCHANGED <<str, writer>> /\ Goto(p, "release")
      /\ vol' = Commit(u.d)
      /\ file' = IF u.ok THEN [file EXCEPT ![b].slot = NoSlot, ![b].removed = TRUE] ELSE file
    BY DEF RemoveEntry
<1>2. op[p].pc = "remove" /\ broken' = broken /\ b \in Bindings /\ b \notin Unbound
    BY <1>1, AtEntry DEF At
<1> HIDE DEF b, u
<1>3. PICK x \in Op : /\ op' = [op EXCEPT ![p] = x] /\ x.of = op[p].of /\ x.victim = op[p].victim
                      /\ x.job = op[p].job /\ x.pc = "release"
    BY <1>1, GotoIs
<1>4. /\ CallsSound' /\ Unbound' = Unbound
      /\ \A q \in Procs : op'[q] = IF q = p THEN x ELSE Idle
    BY <1>1, <1>2, <1>3, EntryStep
<1>5. ASSUME Dir \notin broken' PROVE DirSound'
    <2>1. DirSound /\ Dir \notin broken /\ u.ok
        BY <1>2, <1>5, FreeSlotIs, Legible DEF DirInv, u
    <2>2. file' = [file EXCEPT ![b].slot = NoSlot, ![b].removed = TRUE] /\ file \in [Bindings -> Object]
        BY <1>1, <2>1, Typing DEF FilesTyped
    <2>3. file'[b].removed /\ \A a \in Bindings : a # b => file'[a] = file[a]
        BY <1>2, <2>2 DEF Object
    <2>4. b \in Live /\ Live' = Live \ {b}
        <3>1. b \in Live
            BY <1>2, <2>1 DEF DirSound, RenameKnown, Live, b
        <3> QED
            BY <1>4, <2>3, <3>1 DEF Live
    <2>5. file[b].slot \in Slots
        BY <2>1, <2>4 DEF DirSound, Placed, Named
    <2>6. \A t \in Slots : Contents(vol', Dir)[t] = IF t = file[b].slot THEN FreeSlot ELSE Contents(vol, Dir)[t]
        BY <1>1, <2>1, <2>5, FreeSlotIs, Typing, PutShows DEF u
    <2>7. /\ Named' = Named \ {file[b].slot} /\ \A t \in Named' : Contents(vol', Dir)[t] = Entry(t)
          /\ \A a \in Live : a # b => file[a].slot \in Named'
        BY <2>1, <2>4, <2>6, SlotFreed
    <2>8. Placed' /\ OnePlace'
        <3>1. \A a \in Live' : a \in Live /\ a # b /\ file'[a] = file[a]
            BY <2>3, <2>4 DEF Live
        <3> QED
            BY <2>1, <2>7, <3>1 DEF DirSound, Placed, OnePlace
    <2>9. NamesKnown'
        <3>1. \A t \in Named' : ~GivenUp(p, t)
            BY <2>7 DEF GivenUp, Gone, b
        <3>2. \A t, r \in Named' : t # r => Contents(vol', Dir)[t].name # Contents(vol', Dir)[r].name
            BY <1>2, <2>1, <2>7, <3>1, AtEntry
        <3> QED
            BY <3>2 DEF NamesKnown, Entry
    <2>10. \A q \in Procs : RenameKnown(q)'
        BY <1>3, <1>4, IdleIs DEF RenameKnown
    <2> QED
        BY <2>8, <2>9, <2>10 DEF DirSound
<1> QED
    BY <1>4, <1>5 DEF DirInv

\* A volume just mounted has no file open.
LEMMA InitSound ==
    ASSUME Init
    PROVE  DirInv
<1>1. PICK image \in Images : vol = Mounted(CacheInit(DiskOf(image)), DiskOf(image)[Info])
    BY DEF Init
<1>2. /\ str = [p \in Procs |-> NoStream] /\ op = [p \in Procs |-> Idle] /\ broken = {}
    BY DEF Init
<1>3. Contents(vol, Dir) = image.slots
    <2>1. vol.disk = DiskOf(image) /\ vol.flags = [e \in Entries |-> {}]
        BY <1>1 DEF Mounted, CacheInit
    <2>2. Contents(vol, Dir) = DiskOf(image)[Dir]
        BY <2>1 DEF Contents, Holders
    <2> QED
        BY <2>2, Geometry DEF DiskOf
<1>4. \A s, t \in Named : Entry(s).name = Entry(t).name => s = t
    BY <1>3, ImagesAssumption DEF Named, Entry
<1>5. \A q \in Procs : op[q] = Idle /\ op[q].pc = "idle" /\ op[q].of = None /\ op[q].victim = None
                       /\ op[q].job = "none" /\ str[q].of = None
    BY <1>2 DEF Idle, NoStream
<1>6. Live = {}
    BY <1>5, BindingsAssumption DEF Live, Unbound, Users
<1>7. CallsSound
    BY <1>5 DEF CallsSound, IdleKnown, VictimsKnown, DiscardsKnown
<1>8. Placed /\ OnePlace /\ NamesKnown
    BY <1>4, <1>6 DEF Placed, OnePlace, NamesKnown
<1> QED
    BY <1>5, <1>7, <1>8 DEF DirInv, DirSound, RenameKnown

\* Every step keeps it.
LEMMA StepSound == IInv /\ DirInv /\ [Next]_vars => DirInv'
<1> SUFFICES ASSUME IInv, DirInv, [Next]_vars PROVE DirInv'
    OBVIOUS
<1>1. ASSUME NEW p \in Procs, Call(p) PROVE DirInv'
    <2>1. CASE Fsync(p) \/ Close(p)
        BY <2>1, SyncQuiet DEF Fsync, Close
    <2> QED
        BY <1>1, <2>1, SeekQuiet, ReadQuiet, WriteQuiet, TruncateQuiet, OpenSound, CreateSound,
           RemoveFileSound, RenameSound DEF Call
<1>2. ASSUME NEW p \in Procs, Continue(p) PROVE DirInv'
    BY <1>2, AllocQuiet, CutQuiet, MarkQuiet, FreeNextQuiet, UnlinkQuiet, FreedQuiet,
       CloseWriteQuiet, WriteEntryQuiet, CommitStepQuiet, NewEntrySound, OldEntrySound,
       RemoveEntrySound, ReleaseQuiet DEF Continue
<1>3. CASE Remount \/ Lend \/ Return \/ Break \/ Heal
    <2>1. SameNames
        BY <1>3, RemountKeeps, LendKeeps, ReturnKeeps, BreakKeeps, HealKeeps, SameDirNames
    <2>2. broken \subseteq broken' /\ UNCHANGED <<file, str, op>>
        BY <1>3 DEF Remount, Lend, Return, Break, Heal
    <2> QED
        BY <2>1, <2>2, QuietVolume
<1>4. CASE UNCHANGED vars
    <2>1. SameNames /\ broken \subseteq broken' /\ UNCHANGED <<file, str, op>>
        BY <1>4 DEF vars, SameNames
    <2> QED
        BY <2>1, QuietVolume
<1>5. CASE Stopped
    BY <1>4, <1>5 DEF Stopped
<1> QED
    BY <1>1, <1>2, <1>3, <1>4, <1>5 DEF Next

(***************************************************************************)
(* While the directory is legible each file that was not removed has an    *)
(* entry, at whichever step a rename is or fails; and between the calls    *)
(* that change it no two entries have one name.  The directory is of one   *)
(* sector, so that the old entry of a rename can always be freed.          *)
(***************************************************************************)
THEOREM DirectoryAlwaysKept == Spec => []DirectoryKept
<1>1. Init => IInv /\ DirInv
    BY InitKeeps, InitSound
<1>2. IInv /\ DirInv /\ [Next]_vars => (IInv /\ DirInv)'
    BY StepKeeps, StepSound
<1>3. IInv /\ DirInv => DirectoryKept
    <2> SUFFICES ASSUME IInv, DirInv PROVE DirectoryKept
        OBVIOUS
    <2>1. NeverNameless
        BY DEF DirInv, DirSound, Placed, Live, NeverNameless
    <2>2. UniqueNames
        BY NoWriter, NamesUnique DEF DirInv, DirSound, UniqueNames, Exclusive
    <2> QED
        BY <2>1, <2>2 DEF DirectoryKept
<1> QED
    BY <1>1, <1>2, <1>3, PTL DEF Spec
==============================================================================
