------------------------------ MODULE FatTable ------------------------------
(***************************************************************************)
(* What the FAT driver promises of the table it keeps through its cache:   *)
(* a cluster is handed out only while it is free, is linked only behind    *)
(* the end of a chain, and is freed only when no entry points at it.  As   *)
(* long as the directory could be kept up to date and every stream knows   *)
(* its place (intact), no entry ever points at a free cluster and no two   *)
(* at the same one.                                                        *)
(***************************************************************************)
EXTENDS Integers

CONSTANTS Clusters, Free, EndOfChain

\* What the constants have to be: both marks are told from clusters.
Marked == Free \notin Clusters /\ EndOfChain \notin Clusters /\ Free # EndOfChain

VARIABLES table, intact
tableVars == <<table, intact>>

TypeOK ==
    /\ table \in [Clusters -> Clusters \cup {Free, EndOfChain}]
    /\ intact \in BOOLEAN

Init ==
    /\ Marked
    /\ TypeOK
    /\ \A c \in Clusters : table[c] \in Clusters => table[table[c]] # Free
    /\ \A c, e \in Clusters : table[c] = table[e] /\ table[c] \in Clusters => c = e

PointedAt(c) == \E e \in Clusters : table[e] = c

Start(c) ==
    /\ table[c] = Free
    /\ table' = [table EXCEPT ![c] = EndOfChain]
Append(c, e) ==
    /\ table[c] = Free
    /\ table[e] = EndOfChain
    /\ table' = [table EXCEPT ![e] = c, ![c] = EndOfChain]
Cut(c) ==
    /\ table[c] # Free
    /\ table' = [table EXCEPT ![c] = EndOfChain]
Release(c) ==
    /\ table[c] # Free
    /\ ~PointedAt(c)
    /\ table' = [table EXCEPT ![c] = Free]
Sound ==
    /\ table' # table
    /\ \E c \in Clusters : Start(c) \/ Cut(c) \/ Release(c) \/ \E e \in Clusters : Append(c, e)
    /\ UNCHANGED intact
Fails == intact' = FALSE /\ UNCHANGED table
Adrift == ~intact /\ UNCHANGED intact /\ table' \in [Clusters -> Clusters \cup {Free, EndOfChain}]

Next == (intact /\ Sound) \/ Fails \/ Adrift
Spec == Init /\ [][Next]_tableVars

\* No entry points at a free cluster, nor two at the same one.
NoDanglingLink == \A c \in Clusters : table[c] \in Clusters => table[table[c]] # Free
NoSharedCluster ==
    \A c, e \in Clusters : table[c] \in Clusters /\ table[c] = table[e] => c = e
WellLinked == intact => NoDanglingLink /\ NoSharedCluster
=============================================================================
