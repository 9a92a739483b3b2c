--------------------------- MODULE FatTableProofs ---------------------------
(***************************************************************************)
(* Proofs about Fat's table, on the invariants of FatProofs: each step     *)
(* changes it only as FatTable allows (TableAlwaysKept, LinksAlwaysSound), *)
(* and no cluster is in two files' chains (NeverCrossLinked), while the    *)
(* directory is legible and no stream has lost its place.  The order: the  *)
(* labels that say whose each cluster is and what calls, streams and       *)
(* entries claim (Chained, Laid); a lemma for what each operation does to  *)
(* them; the invariant ChainInv; what a chain walked by ChainFrom holds.   *)
(***************************************************************************)
EXTENDS FatProofs

(***************************************************************************)
(* Whose the chains are.  A file that is open is known by its place in the *)
(* directory, or once that is gone by its object; one that is not open by  *)
(* its place.  It claims the chain its first cluster is in, and the chains *)
(* its streams stand in (a link that could not be made leaves a stream in  *)
(* one of its own).  A stream beyond the end that is being made claims     *)
(* nothing until it is rewound.                                            *)
(***************************************************************************)
Token(b) == IF file[b].removed THEN <<1, b>> ELSE <<0, file[b].slot>>
Holding == {b \in Bindings \ Unbound : ~Discarding(b)}
Firsts ==
    {<<Token(b), file[b].first>> : b \in Holding}
    \cup {<<<<0, s>>, Entry(s).first>> : s \in Closed}
Freeing(o) == o.pc \in {"free", "unlink"}
CutsOff(o, s) == Freeing(o) /\ o.job # "discard" /\ o.of = s.of /\ s.pos > o.len
Standing ==
    {p \in Procs : str[p].of # None /\ str[p].pos > 0 /\ \A q \in Procs : ~CutsOff(op[q], str[p])}
Claims(root) == Firsts \cup {<<Token(str[p].of), root[str[p].last]>> : p \in Standing}
Apart(S) == \A x, y \in S : x[2] = y[2] /\ x[2] # None => x[1] = y[1]
Rooted(S, root, at) == \A x \in S : x[2] # None => root[x[2]] = x[2] /\ at[x[2]] = 1

\* Where a stream, an entry of the directory and a call stand.
Stands(root, at, s) == s.last \in Clusters /\ root[s.last] # None /\ at[s.last] = s.pos
StreamsLaid(root, at) ==
    /\ \A p \in Procs : str[p].of # None => str[p].pos <= file[str[p].of].size
    /\ \A p \in Standing : Stands(root, at, str[p])
EntryLaid(b) ==
    (\A q \in Procs : op[q].pc = "entry" => op[q].of # b) =>
        Entry(file[b].slot).first \in {None, file[b].first}
EntriesLaid ==
    /\ \A b \in Bindings : file[b].removed => file[b].slot = NoSlot
    /\ \A b \in Live : EntryLaid(b)
    /\ \A p \in Procs : op[p].pc = "oldentry" =>
           Entry(op[p].cur).first \in {None, file[op[p].of].first}
CutFree(T, root, c) ==
    c \in Clusters => root[c] = None /\ T[c] # None /\ \A e \in Clusters : T[e] # c
CallLaid(T, root, fs, o, s) ==
    /\ o.pc = "alloc" \/ o.job \in {"trunc", "sync", "close"} => s.of = o.of
    /\ o.pc # "idle" /\ o.job = "discard" => fs[o.of].removed
    /\ o.pc \in {"newentry", "oldentry", "remove", "release"} => o.job = "none"
    /\ o.pc = "alloc" => IF s.pos = 0 THEN fs[o.of].first = None ELSE T[s.last] = EndMark
    /\ o.pc = "cut" => o.cur = None
    /\ o.pc \in {"cut", "mark"} /\ s.pos = 0 => s.last = fs[o.of].first
    /\ o.pc \in {"cut", "mark", "free", "unlink"} /\ o.job # "discard" =>
           /\ s.pos = o.len /\ o.len <= fs[o.of].size
           /\ o.job # "trunc" => o.len = fs[o.of].size
    /\ o.pc = "mark" => s.last \in Clusters /\ o.cur \in {Failed, LinkIn(T, s.last)}
    /\ Freeing(o) => CutFree(T, root, o.cur)
    /\ o.pc = "unlink" /\ o.cur \in Clusters => o.next \in {Failed, LinkIn(T, o.cur)}
TwoCalls(o, x) ==
    o.pc # "idle" /\ x.pc # "idle" =>
        o.of # x.of /\ (Freeing(o) /\ Freeing(x) /\ o.cur \in Clusters => o.cur # x.cur)
CallsLaid(T, root) ==
    /\ \A p \in Procs : CallLaid(T, root, file, op[p], str[p])
    /\ \A p, q \in Procs : p # q => TwoCalls(op[p], op[q])
Owned(T, root, at) == Chained(T, root, at) /\ Rooted(Firsts, root, at) /\ Apart(Firsts)
Laid(T, root, at) ==
    /\ Chained(T, root, at) /\ Rooted(Firsts, root, at) /\ Apart(Claims(root))
    /\ StreamsLaid(root, at) /\ EntriesLaid /\ CallsLaid(T, root)

\* Claims that are fewer, or another on a chain nobody claims.
LEMMA ApartFewer ==
    ASSUME NEW S, Apart(S), NEW R, \A x \in R : x[2] = None \/ x \in S
    PROVE  Apart(R)
BY DEF Apart

\* Another claim, on a chain that nobody claims.
LEMMA ApartMore ==
    ASSUME NEW S, Apart(S), NEW a, NEW t, \A x \in S : x[2] # a
    PROVE  Apart(S \cup {<<t, a>>})
BY DEF Apart

\* Open files and closed ones have names of their own.
LEMMA TokensApart ==
    ASSUME DirSound, NEW b \in Bindings \ Unbound
    PROVE  /\ \A c \in Bindings \ Unbound : Token(b) = Token(c) => b = c
           /\ \A s \in Closed : Token(b) # <<0, s>>
<1>1. ASSUME NEW c \in Bindings \ Unbound, Token(b) = Token(c) PROVE b = c
    <2>1. CASE file[b].removed
        <3>1. file[c].removed
            BY <1>1, <2>1 DEF Token
        <3> QED
            BY <1>1, <2>1, <3>1 DEF Token
    <2>2. CASE ~file[b].removed
        <3>1. ~file[c].removed
            BY <1>1, <2>2 DEF Token
        <3> QED
            BY <1>1, <2>2, <3>1 DEF Token, DirSound, OnePlace, Live
    <2> QED
        BY <2>1, <2>2
<1>2. ASSUME NEW s \in Closed, Token(b) = <<0, s>> PROVE FALSE
    <2>1. ~file[b].removed /\ file[b].slot = s
        BY <1>2 DEF Token
    <2> QED
        BY <1>2, <2>1 DEF Closed, BoundTo
<1> QED
    BY <1>1, <1>2

\* A chain has one owner among the open files.
LEMMA OneOwner ==
    ASSUME DirSound, NEW root, Apart(Claims(root)), NEW b \in Bindings \ Unbound,
           NEW c \in Bindings \ Unbound, NEW r, r # None,
           <<Token(b), r>> \in Claims(root), <<Token(c), r>> \in Claims(root)
    PROVE  b = c
<1>1. Token(b) = Token(c)
    <2> DEFINE x == <<Token(b), r>>
               y == <<Token(c), r>>
    <2>1. x[2] = r /\ y[2] = r /\ x[1] = Token(b) /\ y[1] = Token(c) /\ x \in Claims(root) /\ y \in Claims(root)
        OBVIOUS
    <2> HIDE DEF x, y
    <2> QED
        BY <2>1 DEF Apart
<1> QED
    BY <1>1, TokensApart

\* Files that are in use.
LEMMA InUse ==
    ASSUME IInv, NEW p \in Procs
    PROVE  /\ str[p].of # None => str[p].of \in Bindings \ Unbound
           /\ op[p].pc # "idle" => op[p].of \in Bindings \ Unbound
           /\ op[p].victim \in Bindings => op[p].victim \in Bindings \ Unbound
BY Typing DEF Unbound, Users, Known

\* The same files are open, closed and held while a call goes on.
LEMMA SameFiles ==
    ASSUME IInv, NEW p \in Procs, NEW x \in Op, op' = [op EXCEPT ![p] = x],
           \A q \in Procs : str'[q].of = str[q].of,
           x.of \in {None, str[p].of, op[p].of}, op[p].of \in {None, str[p].of, x.of},
           op[p].victim = None, x.victim = None, op[p].pc # "oldentry", x.pc # "oldentry",
           x.job = "discard" \/ op[p].job = "discard" => x.job = op[p].job /\ x.of = op[p].of,
           \A b \in Bindings : file'[b].slot = file[b].slot /\ file'[b].removed = file[b].removed,
           SameNames
    PROVE  /\ Unbound' = Unbound /\ Live' = Live /\ Holding' = Holding /\ Closed' = Closed
           /\ \A b \in Bindings : Token(b)' = Token(b)
<1>1. \A q \in Procs : op'[q] = IF q = p THEN x ELSE op[q]
    BY DEF IInv, CallsTyped
<1>2. \A b \in Bindings : b # None
    BY BindingsAssumption
<1>3. ASSUME NEW b \in Bindings PROVE b \in Unbound' <=> b \in Unbound
    BY <1>1, <1>2 DEF Unbound, Users
<1>4. Unbound' = Unbound
    BY <1>3 DEF Unbound
<1>5. Live' = Live
    BY <1>4 DEF Live
<1>6. ASSUME NEW b \in Bindings PROVE Discarding(b)' <=> Discarding(b)
    BY <1>1 DEF Discarding
<1>7. Holding' = Holding
    BY <1>4, <1>6 DEF Holding
<1>8. Named' = Named
    BY NamedStays
<1>9. ASSUME NEW s \in Named PROVE (Renaming(s)' <=> Renaming(s)) /\ BoundTo(s)' = BoundTo(s)
    BY <1>1, <1>4 DEF Renaming, BoundTo
<1>10. Closed' = Closed
    BY <1>8, <1>9 DEF Closed
<1>11. \A b \in Bindings : Token(b)' = Token(b)
    BY DEF Token
<1> QED
    BY <1>4, <1>5, <1>7, <1>10, <1>11

\* And have the same first clusters.
LEMMA SameFirsts ==
    ASSUME Holding' = Holding, Closed' = Closed, \A b \in Bindings : Token(b)' = Token(b),
           \A b \in Bindings : file'[b].first = file[b].first,
           \A s \in Closed : Contents(vol', Dir)[s].first = Contents(vol, Dir)[s].first
    PROVE  Firsts' = Firsts
<1>1. Holding \subseteq Bindings
    BY DEF Holding
<1>2. {<<Token(b), file[b].first>> : b \in Holding}' = {<<Token(b), file[b].first>> : b \in Holding}
    BY <1>1
<1>3. {<<<<0, s>>, Entry(s).first>> : s \in Closed}' = {<<<<0, s>>, Entry(s).first>> : s \in Closed}
    BY DEF Entry
<1> QED
    BY <1>2, <1>3 DEF Firsts

\* No stream but that of the call comes to stand somewhere.
LEMMA FewerStand ==
    ASSUME IInv, NEW p \in Procs, NEW x \in Op, op' = [op EXCEPT ![p] = x],
           \A q \in Procs : q # p => str'[q] = str[q],
           \A q \in Procs : q # p /\ CutsOff(op[p], str[q]) => CutsOff(x, str[q])
    PROVE  \A q \in Standing' : q # p => q \in Standing
<1>1. \A q \in Procs : op'[q] = IF q = p THEN x ELSE op[q]
    BY DEF IInv, CallsTyped
<1> SUFFICES ASSUME NEW q \in Standing', q # p PROVE q \in Standing
    OBVIOUS
<1>2. \A r \in Procs : ~CutsOff(op'[r], str'[q])
    BY DEF Standing
<1>3. \A r \in Procs : ~CutsOff(op[r], str[q])
    BY <1>1, <1>2 DEF Standing
<1> QED
    BY <1>3 DEF Standing

\* Streams of the others stand where they stood.
LEMMA StreamsStay ==
    ASSUME IInv, NEW root, NEW at, StreamsLaid(root, at), NEW w, NEW y,
           NEW p \in Procs, NEW x \in Op, op' = [op EXCEPT ![p] = x],
           \A q \in Procs : q # p => str'[q] = str[q],
           \A q \in Procs : q # p /\ CutsOff(op[p], str[q]) => CutsOff(x, str[q]),
           \A b \in Bindings : file[b].size <= file'[b].size /\ file'[b].size \in Nat,
           str'[p].of # None => str'[p].pos <= file'[str'[p].of].size,
           \A q \in Standing : q # p /\ q \in Standing' =>
               w[str[q].last] = root[str[q].last] /\ y[str[q].last] = at[str[q].last],
           p \in Standing' => Stands(w, y, str'[p])
    PROVE  StreamsLaid(w, y)'
<1>1. \A q \in Procs : op'[q] = IF q = p THEN x ELSE op[q]
    BY DEF IInv, CallsTyped
<1>2. \A q \in Standing' : q # p => q \in Standing
    BY FewerStand
<1>3. ASSUME NEW q \in Procs, str'[q].of # None PROVE str'[q].pos <= file'[str'[q].of].size
    <2>1. CASE q = p
        BY <1>3, <2>1
    <2>2. CASE q # p
        <3>1. str'[q] = str[q] /\ str[q].of \in Bindings /\ str[q].pos \in Nat
              /\ str[q].pos <= file[str[q].of].size
            BY <1>3, <2>2, Typing DEF StreamsLaid
        <3>2. file[str[q].of].size \in Nat
            BY <3>1, ObjectFields
        <3>3. PICK i \in Nat : i = str[q].pos
            BY <3>1
        <3>4. PICK j \in Nat : j = file[str[q].of].size
            BY <3>2
        <3>5. PICK k \in Nat : k = file'[str[q].of].size
            BY <3>1
        <3>6. i <= j /\ j <= k
            BY <3>1, <3>3, <3>4, <3>5
        <3>7. i <= k
            BY <3>6
        <3> QED
            BY <3>1, <3>3, <3>5, <3>7
    <2> QED
        BY <2>1, <2>2
<1>4. ASSUME NEW q \in Standing' PROVE Stands(w, y, str'[q])
    <2>1. CASE q = p
        BY <2>1
    <2>2. CASE q # p
        <3>1. q \in Procs
            BY DEF Standing
        <3>2. q \in Standing /\ str'[q] = str[q] /\ Stands(root, at, str[q])
            BY <1>2, <2>2, <3>1 DEF StreamsLaid
        <3> QED
            BY <2>2, <3>2 DEF Stands
    <2> QED
        BY <2>1, <2>2
<1> QED
    BY <1>3, <1>4 DEF StreamsLaid

\* And claim what they claimed.
LEMMA ClaimsStay ==
    ASSUME IInv, NEW root, NEW w, NEW p \in Procs, NEW S, Apart(S),
           \A q \in Procs : q # p => str'[q] = str[q],
           \A q \in Standing' : q # p => q \in Standing /\ w[str[q].last] = root[str[q].last],
           \A b \in Bindings : Token(b)' = Token(b),
           \A z \in Firsts' : z[2] = None \/ z \in S,
           \A q \in Standing : q # p => <<Token(str[q].of), root[str[q].last]>> \in S,
           p \in Standing' => str'[p].of \in Bindings /\ <<Token(str'[p].of), w[str'[p].last]>> \in S
    PROVE  Apart(Claims(w)')
<1>1. ASSUME NEW z \in Claims(w)' PROVE z[2] = None \/ z \in S
    <2>1. CASE z \in Firsts'
        BY <2>1
    <2>2. CASE z \notin Firsts'
        <3>1. PICK q \in Standing' : z = <<Token(str[q].of)', w[str'[q].last]>>
            BY <1>1, <2>2 DEF Claims
        <3>2. q \in Procs /\ str'[q].of # None
            BY DEF Standing
        <3>3. CASE q = p
            BY <3>1, <3>3
        <3>4. CASE q # p
            <4>1. str'[q] = str[q] /\ str[q].of \in Bindings /\ q \in Standing
                BY <3>2, <3>4, Typing
            <4>2. Token(str[q].of)' = Token(str[q].of)
                BY <4>1 DEF Token
            <4> QED
                BY <3>1, <3>4, <4>1, <4>2
        <3> QED
            BY <3>3, <3>4
    <2> QED
        BY <2>1, <2>2
<1> QED
    BY <1>1, ApartFewer

\* A call that does not step is where it was.
LEMMA CallStays ==
    ASSUME NEW T, NEW root, NEW fs, NEW o, NEW s, CallLaid(T, root, fs, o, s),
           NEW U, NEW w, NEW gs,
           o.pc # "idle" => /\ gs[o.of].first = fs[o.of].first /\ gs[o.of].size = fs[o.of].size
                            /\ gs[o.of].removed = fs[o.of].removed,
           o.pc = "alloc" /\ s.pos # 0 => U[s.last] = T[s.last],
           o.pc = "mark" => U[s.last] = T[s.last],
           Freeing(o) /\ o.cur \in Clusters =>
               /\ w[o.cur] = None /\ U[o.cur] = T[o.cur] /\ \A e \in Clusters : U[e] # o.cur
    PROVE  CallLaid(U, w, gs, o, s)
<1>1. o.pc = "alloc" => IF s.pos = 0 THEN gs[o.of].first = None ELSE U[s.last] = EndMark
    BY DEF CallLaid
<1>2. o.pc \in {"cut", "mark"} /\ s.pos = 0 => s.last = gs[o.of].first
    BY DEF CallLaid
<1>3. o.pc \in {"cut", "mark", "free", "unlink"} /\ o.job # "discard" =>
           /\ s.pos = o.len /\ o.len <= gs[o.of].size
           /\ o.job # "trunc" => o.len = gs[o.of].size
    BY DEF CallLaid
<1>4. o.pc = "mark" => s.last \in Clusters /\ o.cur \in {Failed, LinkIn(U, s.last)}
    BY DEF CallLaid, LinkIn
<1>5. Freeing(o) => CutFree(U, w, o.cur)
    BY DEF CallLaid, CutFree
<1>6. o.pc = "unlink" /\ o.cur \in Clusters => o.next \in {Failed, LinkIn(U, o.cur)}
    BY DEF CallLaid, LinkIn, Freeing
<1>7. /\ o.pc = "alloc" \/ o.job \in {"trunc", "sync", "close"} => s.of = o.of
      /\ o.pc # "idle" /\ o.job = "discard" => gs[o.of].removed
      /\ o.pc = "cut" => o.cur = None
    BY DEF CallLaid
<1> QED
    BY <1>1, <1>2, <1>3, <1>4, <1>5, <1>6, <1>7 DEF CallLaid

\* One call steps, the others are where they were.
LEMMA CallsStay ==
    ASSUME IInv, NEW T, NEW root, CallsLaid(T, root), NEW U, NEW w,
           NEW p \in Procs, NEW x \in Op, op' = [op EXCEPT ![p] = x],
           CallLaid(U, w, file', x, str'[p]),
           \A q \in Procs : q # p => CallLaid(U, w, file', op[q], str'[q]),
           \A q \in Procs : q # p => TwoCalls(x, op[q])
    PROVE  CallsLaid(U, w)'
<1>1. \A q \in Procs : op'[q] = IF q = p THEN x ELSE op[q]
    BY DEF IInv, CallsTyped
<1>2. \A q, r \in Procs : q # r => TwoCalls(op[q], op[r])
    BY DEF CallsLaid
<1>3. \A q \in Procs : q # p => TwoCalls(op[q], x)
    BY DEF TwoCalls
<1>4. \A q \in Procs : CallLaid(U, w, file', op'[q], str'[q])
    BY <1>1
<1>5. \A q, r \in Procs : q # r => TwoCalls(op'[q], op'[r])
    BY <1>1, <1>2, <1>3
<1> QED
    BY <1>4, <1>5 DEF CallsLaid

\* The entries of the directory are as they were.
LEMMA EntriesStay ==
    ASSUME IInv, EntriesLaid, Live' \subseteq Live, SameDir,
           \A b \in Bindings : /\ file'[b].slot = file[b].slot /\ file'[b].first = file[b].first
                               /\ file'[b].removed = file[b].removed,
           NEW p \in Procs, NEW x \in Op, op' = [op EXCEPT ![p] = x],
           op[p].pc # "entry", x.pc # "oldentry"
    PROVE  EntriesLaid'
<1>1. \A q \in Procs : op'[q] = IF q = p THEN x ELSE op[q]
    BY DEF IInv, CallsTyped
<1>2. ASSUME NEW b \in Live' PROVE EntryLaid(b)'
    <2>1. b \in Live /\ b \in Bindings
        BY DEF Live
    <2>2. EntryLaid(b)
        BY <2>1 DEF EntriesLaid
    <2>3. (\A q \in Procs : op'[q].pc = "entry" => op'[q].of # b) =>
              (\A q \in Procs : op[q].pc = "entry" => op[q].of # b)
        BY <1>1
    <2> QED
        BY <2>1, <2>2, <2>3 DEF EntryLaid, Entry, SameDir
<1>3. ASSUME NEW q \in Procs, op'[q].pc = "oldentry"
      PROVE  Contents(vol', Dir)[op'[q].cur].first \in {None, file'[op'[q].of].first}
    <2>1. op'[q] = op[q] /\ op[q].of \in Bindings
        BY <1>1, <1>3, Typing DEF Known
    <2> QED
        BY <1>3, <2>1 DEF EntriesLaid, Entry, SameDir
<1>4. \A b \in Bindings : file'[b].removed => file'[b].slot = NoSlot
    BY DEF EntriesLaid
<1> QED
    BY <1>2, <1>3, <1>4 DEF EntriesLaid, Entry

\* A step that leaves the table and the files alone.
LEMMA QuietLaid ==
    ASSUME IInv, NEW T, NEW root, NEW at, Laid(T, root, at),
           NEW p \in Procs, NEW x \in Op, op' = [op EXCEPT ![p] = x], str'[p].of = str[p].of,
           \A q \in Procs : q # p => str'[q] = str[q],
           x.of \in {None, str[p].of, op[p].of}, op[p].of \in {None, str[p].of, x.of},
           op[p].victim = None, x.victim = None,
           op[p].pc \notin {"entry", "oldentry"}, x.pc # "oldentry",
           x.job = "discard" \/ op[p].job = "discard" => x.job = op[p].job /\ x.of = op[p].of,
           \A b \in Bindings : /\ file'[b].slot = file[b].slot /\ file'[b].removed = file[b].removed
                               /\ file'[b].first = file[b].first
                               /\ file[b].size <= file'[b].size /\ file'[b].size \in Nat,
           \A q \in Procs : q # p /\ op[q].pc # "idle" => file'[op[q].of].size = file[op[q].of].size,
           SameDir,
           \A q \in Procs : q # p /\ CutsOff(op[p], str[q]) => CutsOff(x, str[q]),
           str'[p].of # None => str'[p].pos <= file'[str'[p].of].size,
           p \in Standing' => /\ Stands(root, at, str'[p])
                              /\ <<Token(str[p].of), root[str'[p].last]>> \in Claims(root),
           CallLaid(T, root, file', x, str'[p]),
           \A q \in Procs : q # p => TwoCalls(x, op[q])
    PROVE  Laid(T, root, at)'
<1>1. /\ Live' = Live /\ Holding' = Holding /\ Closed' = Closed
      /\ \A b \in Bindings : Token(b)' = Token(b)
    <2>1. \A q \in Procs : str'[q].of = str[q].of
        OBVIOUS
    <2>2. SameNames
        BY SameDirNames
    <2> QED
        BY <2>1, <2>2, SameFiles
<1>2. Firsts' = Firsts
    BY <1>1, SameFirsts DEF SameDir
<1>3. Chained(T, root, at) /\ Rooted(Firsts, root, at) /\ Apart(Claims(root))
      /\ StreamsLaid(root, at) /\ EntriesLaid /\ CallsLaid(T, root)
    BY DEF Laid
<1>4. StreamsLaid(root, at)' /\ \A q \in Standing' : q # p => q \in Standing
    <2>1. \A q \in Standing' : q # p => q \in Standing
        BY FewerStand
    <2>2. \A b \in Bindings : file[b].size <= file'[b].size /\ file'[b].size \in Nat
        OBVIOUS
    <2>3. p \in Standing' => Stands(root, at, str'[p])
        OBVIOUS
    <2>4. StreamsLaid(root, at)'
        BY <1>3, <2>2, <2>3, StreamsStay
    <2> QED
        BY <2>1, <2>4
<1>5. Apart(Claims(root)')
    <2>1. \A z \in Firsts' : z[2] = None \/ z \in Claims(root)
        BY <1>2 DEF Claims
    <2>2. \A q \in Standing : q # p => <<Token(str[q].of), root[str[q].last]>> \in Claims(root)
        BY DEF Claims
    <2>3. p \in Standing' => str'[p].of \in Bindings
                             /\ <<Token(str'[p].of), root[str'[p].last]>> \in Claims(root)
        BY Typing DEF Standing
    <2> QED
        BY <1>1, <1>3, <1>4, <2>1, <2>2, <2>3, ClaimsStay
<1>6. EntriesLaid'
    BY <1>1, <1>3, EntriesStay
<1>7. ASSUME NEW q \in Procs, q # p PROVE CallLaid(T, root, file', op[q], str'[q])
    <2>1. CallLaid(T, root, file, op[q], str[q]) /\ str'[q] = str[q]
        BY <1>3, <1>7 DEF CallsLaid
    <2>2. op[q].pc # "idle" => op[q].of \in Bindings
        BY Typing DEF Known
    <2>3. Freeing(op[q]) /\ op[q].cur \in Clusters =>
              root[op[q].cur] = None /\ \A e \in Clusters : T[e] # op[q].cur
        BY <2>1 DEF CallLaid, CutFree
    <2> QED
        BY <1>7, <2>1, <2>2, <2>3, CallStays
<1>8. CallsLaid(T, root)'
    BY <1>3, <1>7, CallsStay
<1> QED
    BY <1>2, <1>3, <1>4, <1>5, <1>6, <1>8 DEF Laid

\* Where a call's own stream stands, and the chain of its file.
LEMMA OwnStream ==
    ASSUME IInv, DirInv, NEW T, NEW root, NEW at, Laid(T, root, at), NEW p \in Procs, NEW b,
           b = str[p].of, b # None,
           \A q \in Procs : op[q].pc # "idle" /\ op[q].of = b =>
               q = p /\ (Freeing(op[q]) => str[p].pos = op[q].len)
    PROVE  /\ str[p].pos # 0 => /\ p \in Standing /\ Stands(root, at, str[p])
                                /\ <<Token(b), root[str[p].last]>> \in Claims(root)
           /\ file[b].first # None => /\ file[b].first \in Clusters
                                      /\ root[file[b].first] = file[b].first /\ at[file[b].first] = 1
                                      /\ <<Token(b), file[b].first>> \in Claims(root)
           /\ str[p].pos <= file[b].size /\ b \in Bindings \ Unbound /\ b \in Holding
<1>1. b \in Bindings \ Unbound
    BY InUse
<1>2. str[p].pos \in Nat /\ file[b].first \in {None} \cup Clusters
    BY <1>1, Typing, ObjectFields
<1>3. b \in Holding
    <2>1. ~Discarding(b)
        BY DEF Discarding, DirInv, CallsSound, DiscardsKnown, Users
    <2> QED
        BY <1>1, <2>1 DEF Holding
<1>4. <<Token(b), file[b].first>> \in Firsts
    BY <1>3 DEF Firsts
<1>5. ASSUME NEW q \in Procs PROVE ~CutsOff(op[q], str[p])
    <2>1. SUFFICES ASSUME CutsOff(op[q], str[p]) PROVE FALSE
        OBVIOUS
    <2>2. op[q].pc # "idle" /\ op[q].of = b /\ Freeing(op[q]) /\ str[p].pos > op[q].len
        BY <2>1 DEF CutsOff, Freeing
    <2>3. str[p].pos = op[q].len
        BY <2>2
    <2> QED
        BY <1>2, <2>2, <2>3
<1>6. ASSUME str[p].pos # 0
      PROVE  /\ p \in Standing /\ Stands(root, at, str[p])
             /\ <<Token(b), root[str[p].last]>> \in Claims(root)
    <2>1. str[p].pos > 0
        BY <1>2, <1>6
    <2>2. p \in Standing
        BY <1>5, <2>1 DEF Standing
    <2> QED
        BY <2>2 DEF Laid, StreamsLaid, Claims
<1>7. ASSUME file[b].first # None
      PROVE  /\ file[b].first \in Clusters
             /\ root[file[b].first] = file[b].first /\ at[file[b].first] = 1
             /\ <<Token(b), file[b].first>> \in Claims(root)
    <2> DEFINE z == <<Token(b), file[b].first>>
    <2>1. z \in Firsts /\ z[2] = file[b].first
        BY <1>4
    <2> HIDE DEF z
    <2>2. root[z[2]] = z[2] /\ at[z[2]] = 1
        BY <1>7, <2>1 DEF Laid, Rooted
    <2> QED
        BY <1>2, <1>7, <2>1, <2>2 DEF Claims, z
<1>8. str[p].pos <= file[b].size
    BY DEF Laid, StreamsLaid
<1> QED
    BY <1>1, <1>3, <1>6, <1>7, <1>8

\* A call begins on a stream that no other call works on.
LEMMA BeginsLaid ==
    ASSUME IInv, DirInv, NEW T, NEW root, NEW at, Laid(T, root, at), SameDir,
           NEW p \in Procs, op[p].pc = "idle", NEW b, b = str[p].of, b # None,
           \A q \in Procs : op[q].pc # "idle" => op[q].of # b,
           NEW x \in Op, op' = [op EXCEPT ![p] = x],
           \/ x = Idle
           \/ /\ x.pc \in {"alloc", "cut", "closewrite"} /\ x.job \in {"none", "trunc", "sync", "close"}
              /\ x.of = b /\ x.victim = None,
           \A q \in Procs : q # p => str'[q] = str[q],
           str'[p].of = b, str'[p].pos <= file'[b].size,
           str'[p].pos > 0 => /\ Stands(root, at, str'[p])
                              /\ <<Token(b), root[str'[p].last]>> \in Claims(root),
           \A a \in Bindings : /\ file'[a].slot = file[a].slot /\ file'[a].removed = file[a].removed
                               /\ file'[a].first = file[a].first
                               /\ file[a].size <= file'[a].size /\ file'[a].size \in Nat
                               /\ a # b => file'[a].size = file[a].size,
           CallLaid(T, root, file', x, str'[p])
    PROVE  Laid(T, root, at)'
<1>1. op[p] = Idle
    BY DEF DirInv, CallsSound, IdleKnown
<1>2. Idle.of = None /\ Idle.victim = None /\ Idle.job = "none" /\ Idle.pc = "idle"
    BY DEF Idle
<1>3. /\ x.of \in {None, str[p].of, op[p].of} /\ op[p].of \in {None, str[p].of, x.of}
      /\ op[p].victim = None /\ x.victim = None
      /\ op[p].pc \notin {"entry", "oldentry"} /\ x.pc # "oldentry"
      /\ ~(x.job = "discard" \/ op[p].job = "discard")
    BY <1>1, <1>2
<1>4. \A q \in Procs : ~CutsOff(op[p], str[q])
    BY DEF CutsOff, Freeing
<1>5. \A q \in Procs : q # p => TwoCalls(x, op[q])
    BY <1>2 DEF TwoCalls, Freeing
<1>6. p \in Standing' => /\ Stands(root, at, str'[p])
                         /\ <<Token(str[p].of), root[str'[p].last]>> \in Claims(root)
    BY DEF Standing
<1>7. \A q \in Procs : q # p /\ op[q].pc # "idle" => file'[op[q].of].size = file[op[q].of].size
    BY Typing DEF Known
<1>8. \A a \in Bindings : /\ file'[a].slot = file[a].slot /\ file'[a].removed = file[a].removed
                          /\ file'[a].first = file[a].first
                          /\ file[a].size <= file'[a].size /\ file'[a].size \in Nat
    OBVIOUS
<1>9. str'[p].of = str[p].of /\ (str'[p].of # None => str'[p].pos <= file'[str'[p].of].size)
    OBVIOUS
<1>10. \A q \in Procs : q # p /\ CutsOff(op[p], str[q]) => CutsOff(x, str[q])
    BY <1>4
<1> QED
    BY <1>3, <1>5, <1>6, <1>7, <1>8, <1>9, <1>10, QuietLaid

\* fat_seek leaves a stream in a chain of its file, or where it was.
LEMMA SoughtLaid ==
    ASSUME IInv, DirInv, NEW root, NEW at, Laid(TableOf(vol), root, at), Intact',
           NEW p \in Procs, NEW b, b = str[p].of, b # None,
           \A q \in Procs : op[q].pc # "idle" => op[q].of # b,
           NEW len \in 0..file[b].size, SoughtTo(p, len)
    PROVE  /\ TableOf(vol') = TableOf(vol) /\ SameDir
           /\ \A q \in Procs : q # p => str'[q] = str[q]
           /\ str'[p].of = b /\ str'[p].pos \in Nat /\ str'[p].pos <= file[b].size
           /\ str'[p].pos > 0 => /\ Stands(root, at, str'[p])
                                 /\ <<Token(b), root[str'[p].last]>> \in Claims(root)
           /\ ~Eof(p, len) => str'[p].pos = len /\ (len = 0 => str'[p].last = file[b].first)
<1> DEFINE r == SeekTo(p, len).r
           T == TableOf(vol)
<1>1. /\ str[p].pos # 0 => /\ p \in Standing /\ Stands(root, at, str[p])
                           /\ <<Token(b), root[str[p].last]>> \in Claims(root)
      /\ file[b].first # None => /\ file[b].first \in Clusters
                                 /\ root[file[b].first] = file[b].first /\ at[file[b].first] = 1
                                 /\ <<Token(b), file[b].first>> \in Claims(root)
      /\ str[p].pos <= file[b].size /\ b \in Bindings
    BY OwnStream
<1>2. str[p].pos \in Nat /\ str[p].last \in Link /\ File(p).first \in Link /\ Good(vol) /\ File(p) = file[b]
      /\ file[b].size \in Nat
    BY <1>1, Typing, ObjectFields DEF File
<1>3. len \in Nat /\ len <= file[b].size
    BY <1>2
<1>4. SeekTo(p, len) \in Walked(vol)
    BY <1>2, <1>3, SeekToIs
<1>5. Moves(vol, vol', {})
    BY <1>4 DEF Walked, SoughtTo
<1>6. TableOf(vol') = TableOf(vol) /\ SameDir
    BY <1>5, TableStays, DirStays
<1>7. r # Failed
    <2>1. r = Failed => Far \in broken'
        BY DEF SoughtTo, Noted
    <2> QED
        BY <2>1 DEF Intact
<1>8. \/ r = None \/ (len = 0 /\ r = file[b].first)
      \/ /\ r \in Clusters /\ len > 0 /\ at[r] = len /\ root[r] # None
         /\ \/ str[p].pos > 0 /\ root[r] = root[str[p].last]
            \/ file[b].first # None /\ root[r] = root[file[b].first]
    <2>1. Chained(T, root, at)
        BY DEF Laid
    <2>2. str[p].pos > 0 => /\ str[p].last \in Clusters /\ root[str[p].last] # None
                            /\ at[str[p].last] = str[p].pos
        BY <1>1, <1>2 DEF Stands
    <2>3. File(p).first # None => /\ File(p).first \in Clusters /\ root[File(p).first] # None
                                  /\ at[File(p).first] = 1
        BY <1>1, <1>2
    <2>4. \/ r \in {None, Failed} \/ (len = 0 /\ r = File(p).first)
          \/ /\ r \in Clusters /\ len > 0 /\ at[r] = len /\ root[r] # None
             /\ \/ str[p].pos > 0 /\ root[r] = root[str[p].last]
                \/ File(p).first # None /\ root[r] = root[File(p).first]
        BY <1>2, <1>3, <2>1, <2>2, <2>3, SeekToLands
    <2> HIDE DEF r
    <2> QED
        BY <1>2, <1>7, <2>4
<1>9. CASE Eof(p, len)
    <2>1. str' = str
        BY <1>9 DEF SoughtTo
    <2> QED
        BY <1>1, <1>2, <1>6, <1>9, <2>1
<1>10. CASE ~Eof(p, len)
    <2>1. str' = [str EXCEPT ![p] = [str[p] EXCEPT !.pos = len, !.last = r]]
        BY <1>10, Typing DEF SoughtTo, FilesTyped
    <2>2. /\ \A q \in Procs : q # p => str'[q] = str[q]
          /\ str'[p].of = b /\ str'[p].pos = len /\ str'[p].last = r
        BY <2>1, Typing DEF FilesTyped, Stream
    <2>3. len > 0 => r # None
        BY <1>10 DEF Eof
    <2>4. ASSUME len = 0 PROVE r = file[b].first
        <3>1. PICK sought : /\ SeekTo(p, len) = sought[SeekHops(p, len)]
                            /\ sought[0] = [d |-> vol, r |-> SeekStart(p, len)]
            BY <1>2, <1>3, SeekToIs
        <3>2. SeekHops(p, len) = 0 /\ ~Near(p, len)
            BY <1>2, <2>4 DEF SeekHops, Near, At0
        <3> QED
            BY <1>2, <3>1, <3>2 DEF SeekStart
    <2> HIDE DEF r
    <2>5. ASSUME len > 0 PROVE Stands(root, at, str'[p]) /\ <<Token(b), root[r]>> \in Claims(root)
        <3>1. r \in Clusters /\ at[r] = len /\ root[r] # None
              /\ (\/ str[p].pos > 0 /\ root[r] = root[str[p].last]
                  \/ file[b].first # None /\ root[r] = root[file[b].first])
            BY <1>8, <2>3, <2>5
        <3>2. Stands(root, at, str'[p])
            BY <2>2, <3>1 DEF Stands
        <3>3. CASE str[p].pos > 0 /\ root[r] = root[str[p].last]
            BY <1>1, <1>2, <3>2, <3>3
        <3>4. CASE file[b].first # None /\ root[r] = root[file[b].first]
            BY <1>1, <3>2, <3>4
        <3> QED
            BY <3>1, <3>3, <3>4
    <2> QED
        BY <1>3, <1>6, <2>2, <2>4, <2>5
<1> QED
    BY <1>9, <1>10

\* The next cluster of a stream is the next of a chain of its file.
LEMMA NextLaid ==
    ASSUME IInv, DirInv, NEW root, NEW at, Laid(TableOf(vol), root, at),
           NEW p \in Procs, NEW b, b = str[p].of, b # None,
           \A q \in Procs : op[q].pc # "idle" => op[q].of # b, NEW g, g = NextOf(p)
    PROVE  /\ TableOf(g.d) = TableOf(vol) /\ Moves(vol, g.d, {})
           /\ \/ g.r = Failed
              \/ /\ g.r = None
                 /\ IF str[p].pos = 0 THEN file[b].first = None ELSE TableOf(vol)[str[p].last] = EndMark
              \/ /\ g.r \in Clusters /\ root[g.r] # None /\ at[g.r] = str[p].pos + 1
                 /\ <<Token(b), root[g.r]>> \in Claims(root)
<1> DEFINE T == TableOf(vol)
           l == str[p].last
<1>1. /\ str[p].pos # 0 => /\ Stands(root, at, str[p])
                           /\ <<Token(b), root[l]>> \in Claims(root)
      /\ file[b].first # None => /\ file[b].first \in Clusters
                                 /\ root[file[b].first] = file[b].first /\ at[file[b].first] = 1
                                 /\ <<Token(b), file[b].first>> \in Claims(root)
      /\ b \in Bindings
    BY OwnStream
<1>2. Moves(vol, g.d, {}) /\ Good(vol) /\ File(p) = file[b]
    BY <1>1, NextOfIs, Typing DEF File
<1>3. TableOf(g.d) = TableOf(vol)
    BY <1>2, TableStays
<1>4. CASE str[p].pos = 0
    <2>1. g.r = file[b].first
        BY <1>2, <1>4 DEF NextOf
    <2>2. CASE file[b].first = None
        BY <1>2, <1>3, <1>4, <2>1, <2>2
    <2>3. CASE file[b].first # None
        <3>1. file[b].first # None /\ root[file[b].first] # None
            BY <1>1, <2>3
        <3> QED
            BY <1>1, <1>2, <1>3, <1>4, <2>1, <2>3, <3>1
    <2> QED
        BY <2>2, <2>3
<1>5. CASE str[p].pos # 0
    <2>1. l \in Clusters /\ root[l] # None /\ at[l] = str[p].pos
        BY <1>1, <1>5 DEF Stands
    <2>2. l # Failed
        BY <2>1, EntryPlace
    <2>3. g = GetNext(vol, l)
        BY <1>5, <2>2 DEF NextOf
    <2>4. g.r \in {Failed, LinkIn(T, l)}
        BY <1>2, <2>1, <2>3, GetNextReads
    <2>5. Chained(T, root, at) /\ T[l] \in Word
        BY <1>2, <2>1, TableTyped DEF Laid, Typed
    <2> HIDE DEF T, l
    <2>6. T[l] # None
        BY <2>1, <2>5 DEF Chained
    <2>7. CASE T[l] = EndMark
        BY <1>2, <1>3, <1>5, <2>4, <2>7 DEF LinkIn, T, l
    <2>8. CASE T[l] # EndMark
        <3>1. T[l] \in Clusters /\ LinkIn(T, l) = T[l]
            BY <2>5, <2>6, <2>8 DEF Word, LinkIn
        <3>2. root[T[l]] = root[l] /\ at[T[l]] = at[l] + 1
            BY <2>1, <2>5, <3>1 DEF Chained
        <3>3. PICK c \in Clusters : c = T[l]
            BY <3>1
        <3>4. root[c] = root[l] /\ at[c] = str[p].pos + 1 /\ root[c] # None
            BY <2>1, <3>2, <3>3
        <3>5. <<Token(b), root[c]>> \in Claims(root)
            BY <1>1, <1>5, <3>4 DEF l
        <3> QED
            BY <1>2, <1>3, <2>4, <3>1, <3>3, <3>4, <3>5
    <2> QED
        BY <2>7, <2>8
<1> QED
    BY <1>4, <1>5

(***************************************************************************)
(* The chains, their owners and the streams are as described: by labels of *)
(* the clusters that some state before this one gave them.                 *)
(***************************************************************************)
LaidOut ==
    \E root, at : IF vol.panic THEN Owned(TableOf(vol), root, at) ELSE Laid(TableOf(vol), root, at)

\* What is laid out is owned.
LEMMA LaidIsOwned ==
    ASSUME NEW T, NEW root, NEW at, Laid(T, root, at)
    PROVE  Owned(T, root, at)
BY DEF Laid, Owned, Claims, Apart

\* Labels that lay the table out witness that it is laid out.
LEMMA LaidIsOut ==
    ASSUME NEW T, NEW root, NEW at, Laid(T, root, at)', T = TableOf(vol')
    PROVE  LaidOut'
<1>1. Owned(T, root, at)'
    BY DEF Laid, Owned, Claims, Apart
<1> QED
    BY <1>1 DEF LaidOut

\* A call on a stream that no other works on.
LEMMA OthersApart ==
    ASSUME IInv, NEW p \in Procs, Shared(p) \/ Alone(p) \/ NoCall(p), str[p].of # None
    PROVE  \A q \in Procs : op[q].pc # "idle" => op[q].of # str[p].of
BY DEF Shared, Alone, NoCall

\* A call that is over is laid anywhere.
LEMMA IdleLaid ==
    ASSUME NEW T, NEW root, NEW fs, NEW s
    PROVE  CallLaid(T, root, fs, Idle, s)
BY DEF CallLaid, Idle, Freeing

\* fat_readwrite, to read.
LEMMA ReadLaid ==
    ASSUME IInv, DirInv, Intact', NEW root, NEW at, Laid(TableOf(vol), root, at), NEW p \in Procs, Read(p)
    PROVE  LaidOut'
<1>1. PICK g : g = NextOf(p)
    OBVIOUS
<1>2. /\ Shared(p) /\ UNCHANGED <<file, op, writer>> /\ vol' = g.d /\ Noted(g.r)
      /\ str[p].pos < file[str[p].of].size
      /\ IF g.r = None THEN str' = str ELSE Moved(p, g.r)
    BY <1>1 DEF Read, File
<1>3. PICK b : b = str[p].of /\ b # None /\ b \in Bindings /\ op[p].pc = "idle"
    BY <1>2, SharedFacts
<1>4. \A q \in Procs : op[q].pc # "idle" => op[q].of # b
    BY <1>2, <1>3, OthersApart
<1>5. g.r # Failed
    BY <1>2 DEF Noted, Intact
<1>6. /\ TableOf(g.d) = TableOf(vol) /\ Moves(vol, g.d, {})
      /\ \/ g.r = None
         \/ /\ g.r \in Clusters /\ root[g.r] # None /\ at[g.r] = str[p].pos + 1
            /\ <<Token(b), root[g.r]>> \in Claims(root)
    BY <1>1, <1>3, <1>4, <1>5, NextLaid
<1>7. SameDir
    BY <1>2, <1>6, DirStays
<1>8. op' = [op EXCEPT ![p] = Idle] /\ Idle \in Op
    BY <1>2, <1>3, Typing, IdleIs DEF DirInv, CallsSound, IdleKnown
<1>9. \A a \in Bindings : file[a].size \in Nat /\ file[a].size <= file[a].size
    BY ObjectFields
<1>10. PICK T : T = TableOf(vol)
    OBVIOUS
<1>11. /\ \A q \in Procs : q # p => str'[q] = str[q]
       /\ str'[p].of = b /\ str'[p].pos <= file[b].size
       /\ str'[p].pos > 0 => /\ Stands(root, at, str'[p])
                             /\ <<Token(b), root[str'[p].last]>> \in Claims(root)
    <2>1. CASE g.r = None
        <3>1. str' = str
            BY <1>2, <2>1
        <3>2. /\ str[p].pos # 0 => /\ p \in Standing /\ Stands(root, at, str[p])
                                   /\ <<Token(b), root[str[p].last]>> \in Claims(root)
              /\ str[p].pos <= file[b].size
            BY <1>3, <1>4, OwnStream
        <3>3. str[p].pos > 0 => str[p].pos # 0
            OBVIOUS
        <3> QED
            BY <1>3, <3>1, <3>2, <3>3
    <2>2. CASE g.r # None
        <3>1. g.r \in Clusters /\ root[g.r] # None /\ at[g.r] = str[p].pos + 1
              /\ <<Token(b), root[g.r]>> \in Claims(root)
            BY <1>6, <2>2
        <3>2. Moved(p, g.r)
            BY <1>2, <2>2
        <3>3. /\ \A q \in Procs : q # p => str'[q] = str[q]
              /\ str'[p].of = b /\ str'[p].pos = str[p].pos + 1 /\ str'[p].last = g.r
            BY <1>3, <3>2, Typing DEF Moved, FilesTyped, Stream
        <3>4. Stands(root, at, str'[p])
            BY <3>1, <3>3 DEF Stands
        <3>5. str[p].pos + 1 <= file[b].size
            BY <1>2, <1>3, <1>9, Typing
        <3> QED
            BY <3>1, <3>3, <3>4, <3>5
    <2> QED
        BY <2>1, <2>2
<1>12. Laid(T, root, at)'
    BY <1>2, <1>3, <1>4, <1>7, <1>8, <1>9, <1>10, <1>11, IdleLaid, BeginsLaid
<1> QED
    BY <1>2, <1>6, <1>10, <1>12, LaidIsOut

\* fat_seek is over; ftruncate, fsync and close begin.
LEMMA BegunLaid ==
    ASSUME IInv, DirInv, Intact', NEW root, NEW at, Laid(TableOf(vol), root, at),
           NEW p \in Procs, NEW job \in {"trunc", "sync", "close"}, NEW b, b = str[p].of, b # None,
           op[p].pc = "idle", \A q \in Procs : op[q].pc # "idle" => op[q].of # b,
           NEW len \in 0..file[b].size, job # "trunc" => len = file[b].size,
           file' = file,
           \/ StartTruncate(p, job, len)
           \/ GiveUp(p, job) /\ UNCHANGED <<vol, str>>
           \/ SoughtTo(p, len) /\ op' = op
    PROVE  LaidOut'
<1> DEFINE c == [Idle EXCEPT !.pc = "cut", !.job = job, !.of = b, !.len = len]
           w == [Idle EXCEPT !.pc = "closewrite", !.job = job, !.of = b]
<1>1. b \in Bindings /\ file[b].size \in Nat
    BY Typing, ObjectFields
<1>2. /\ c \in Op /\ c.pc = "cut" /\ c.job = job /\ c.of = b /\ c.victim = None /\ c.len = len /\ c.cur = None
      /\ w \in Op /\ w.pc = "closewrite" /\ w.job = job /\ w.of = b /\ w.victim = None
      /\ Idle \in Op
    <2>1. len \in Nat /\ job \in {"none", "trunc", "sync", "close", "discard"}
        BY <1>1
    <2>2. c \in Op /\ w \in Op
        BY <1>1, <2>1, IdleIs DEF Op
    <2> QED
        BY <2>2, IdleIs DEF Idle
<1>3. PICK T : T = TableOf(vol)
    OBVIOUS
<1>4. PICK x \in Op :
          /\ op' = [op EXCEPT ![p] = x]
          /\ x = Idle \/ (x = w /\ job # "trunc") \/ (x = c /\ SoughtTo(p, len) /\ ~Eof(p, len))
    BY <1>2, Typing DEF StartTruncate, GiveUp, DirInv, CallsSound, IdleKnown
<1>5. /\ TableOf(vol') = TableOf(vol) /\ SameDir
      /\ \A q \in Procs : q # p => str'[q] = str[q]
      /\ str'[p].of = b /\ str'[p].pos <= file[b].size
      /\ str'[p].pos > 0 => /\ Stands(root, at, str'[p])
                            /\ <<Token(b), root[str'[p].last]>> \in Claims(root)
      /\ SoughtTo(p, len) /\ ~Eof(p, len) => str'[p].pos = len /\ (len = 0 => str'[p].last = file[b].first)
    <2>1. CASE SoughtTo(p, len)
        BY <2>1, SoughtLaid
    <2>2. CASE ~SoughtTo(p, len)
        <3>1. UNCHANGED <<vol, str>>
            BY <2>2 DEF StartTruncate
        <3>2. /\ str[p].pos # 0 => /\ p \in Standing /\ Stands(root, at, str[p])
                                   /\ <<Token(b), root[str[p].last]>> \in Claims(root)
              /\ str[p].pos <= file[b].size
            BY OwnStream
        <3>3. str[p].pos > 0 => str[p].pos # 0
            OBVIOUS
        <3> QED
            BY <2>2, <3>1, <3>2, <3>3 DEF SameDir
    <2> QED
        BY <2>1, <2>2
<1> HIDE DEF c, w
<1>6. CallLaid(T, root, file', x, str'[p])
    <2>1. CASE x = Idle
        BY <2>1, IdleLaid
    <2>2. CASE x = w
        BY <1>2, <1>5, <2>2 DEF CallLaid, Freeing
    <2>3. CASE x = c /\ SoughtTo(p, len) /\ ~Eof(p, len)
        <3>1. str'[p].of = b /\ str'[p].pos = len /\ (len = 0 => str'[p].last = file[b].first)
            BY <1>5, <2>3
        <3>2. len <= file[b].size
            BY <1>1
        <3> QED
            BY <1>2, <2>3, <3>1, <3>2 DEF CallLaid, Freeing
    <2> QED
        BY <1>4, <2>1, <2>2, <2>3
<1>7. \/ x = Idle
      \/ /\ x.pc \in {"alloc", "cut", "closewrite"} /\ x.job \in {"none", "trunc", "sync", "close"}
         /\ x.of = b /\ x.victim = None
    BY <1>2, <1>4
<1>8. \A a \in Bindings : file[a].size \in Nat /\ file[a].size <= file[a].size
    BY ObjectFields
<1>9. Laid(T, root, at)'
    BY <1>3, <1>4, <1>5, <1>6, <1>7, <1>8, BeginsLaid
<1> QED
    BY <1>3, <1>5, <1>9, LaidIsOut

\* fat_seek.
LEMMA SeekLaid ==
    ASSUME IInv, DirInv, Intact', NEW root, NEW at, Laid(TableOf(vol), root, at), NEW p \in Procs, Seek(p)
    PROVE  LaidOut'
<1>1. PICK len \in 0..File(p).size : SoughtTo(p, len)
    BY DEF Seek
<1>2. Shared(p) /\ file' = file /\ op' = op
    BY DEF Seek
<1>3. PICK b : b = str[p].of /\ b # None /\ op[p].pc = "idle"
    BY <1>2, SharedFacts
<1>4. (\A q \in Procs : op[q].pc # "idle" => op[q].of # b) /\ len \in 0..file[b].size
    BY <1>1, <1>2, <1>3, OthersApart DEF File
<1>5. PICK job \in {"trunc", "sync", "close"} : job = "trunc"
    OBVIOUS
<1> QED
    BY <1>1, <1>2, <1>3, <1>4, <1>5, BegunLaid

\* ftruncate.
LEMMA TruncateLaid ==
    ASSUME IInv, DirInv, Intact', NEW root, NEW at, Laid(TableOf(vol), root, at), NEW p \in Procs,
           Truncate(p)
    PROVE  LaidOut'
<1>1. PICK len \in 0..File(p).size : StartTruncate(p, "trunc", len)
    BY DEF Truncate
<1>2. Shared(p) /\ file' = file
    BY DEF Truncate
<1>3. PICK b : b = str[p].of /\ b # None /\ op[p].pc = "idle"
    BY <1>2, SharedFacts
<1>4. (\A q \in Procs : op[q].pc # "idle" => op[q].of # b) /\ len \in 0..file[b].size
    BY <1>1, <1>2, <1>3, OthersApart DEF File
<1> QED
    BY <1>1, <1>2, <1>3, <1>4, BegunLaid

\* fsync and close.
LEMMA SyncLaid ==
    ASSUME IInv, DirInv, Intact', NEW root, NEW at, Laid(TableOf(vol), root, at), NEW p \in Procs,
           NEW job \in {"sync", "close"}, Sync(p, job)
    PROVE  LaidOut'
<1>1. /\ NoCall(p) /\ str[p].of # None /\ file' = file
      /\ \/ StartTruncate(p, job, File(p).size)
         \/ GiveUp(p, job) /\ UNCHANGED <<vol, str>>
    BY DEF Sync, Alone
<1>2. PICK b : b = str[p].of /\ b # None /\ op[p].pc = "idle" /\ b \in Bindings
    BY <1>1, Typing DEF NoCall
<1>3. PICK len \in 0..file[b].size : len = file[b].size
    BY <1>2, ObjectFields
<1>4. \A q \in Procs : op[q].pc # "idle" => op[q].of # b
    BY <1>1, <1>2 DEF NoCall
<1>5. File(p).size = len
    BY <1>2, <1>3 DEF File
<1> QED
    BY <1>1, <1>2, <1>3, <1>4, <1>5, BegunLaid

\* The files, when one of them is written to.
LEMMA LongerIs ==
    ASSUME IInv, NEW p \in Procs, NEW b \in Bindings, b = str[p].of, Longer(p)
    PROVE  /\ \A a \in Bindings : /\ file'[a].slot = file[a].slot /\ file'[a].removed = file[a].removed
                                  /\ file'[a].first = file[a].first
                                  /\ file[a].size <= file'[a].size /\ file'[a].size \in Nat
                                  /\ a # b => file'[a].size = file[a].size
           /\ str[p].pos + 1 <= file'[b].size
<1> DEFINE n == IF str[p].pos + 1 > file[b].size THEN str[p].pos + 1 ELSE file[b].size
<1>1. str[p].pos + 1 \in Nat /\ file[b].size \in Nat
    BY Typing, ObjectFields
<1>2. n \in Nat /\ file[b].size <= n /\ str[p].pos + 1 <= n
    BY <1>1
<1>3. file' = [file EXCEPT ![b].size = n]
    BY <1>1 DEF Longer
<1> HIDE DEF n
<1>4. file \in [Bindings -> Object]
    BY DEF IInv, FilesTyped
<1>5. /\ file'[b].size = n /\ file'[b].slot = file[b].slot /\ file'[b].removed = file[b].removed
      /\ file'[b].first = file[b].first /\ \A a \in Bindings : a # b => file'[a] = file[a]
    BY <1>3, <1>4 DEF Object
<1>6. \A a \in Bindings : file[a].size \in Nat /\ file[a].size <= file[a].size
    BY ObjectFields
<1> QED
    BY <1>2, <1>5, <1>6

\* The writer's panic: the files own what they owned.
LEMMA PanicLaid ==
    ASSUME IInv, DirInv, NEW T, NEW root, NEW at, Laid(T, root, at), T = TableOf(vol'), vol'.panic,
           NEW p \in Procs, op[p].pc = "idle", op' = op, \A q \in Procs : str'[q].of = str[q].of, SameDir,
           \A a \in Bindings : /\ file'[a].slot = file[a].slot /\ file'[a].removed = file[a].removed
                               /\ file'[a].first = file[a].first
    PROVE  LaidOut'
<1>1. op[p] = Idle
    BY DEF DirInv, CallsSound, IdleKnown
<1>2. Idle.of = None /\ Idle.victim = None /\ Idle.job = "none" /\ Idle.pc = "idle"
    BY DEF Idle
<1>3. PICK x \in Op : x = Idle
    BY IdleIs
<1>4. op' = [op EXCEPT ![p] = x]
    BY <1>1, <1>3, Typing
<1>5. /\ Holding' = Holding /\ Closed' = Closed
      /\ \A b \in Bindings : Token(b)' = Token(b)
    BY <1>1, <1>2, <1>3, <1>4, SameDirNames, SameFiles
<1>6. Firsts' = Firsts
    BY <1>5, SameFirsts DEF SameDir
<1>7. Owned(T, root, at)'
    BY <1>6, LaidIsOwned DEF Owned
<1> QED
    BY <1>7 DEF LaidOut

\* fat_readwrite, to write.
LEMMA WriteLaid ==
    ASSUME IInv, DirInv, Intact', NEW root, NEW at, Laid(TableOf(vol), root, at), NEW p \in Procs, Write(p)
    PROVE  LaidOut'
<1> DEFINE x == [Idle EXCEPT !.pc = "alloc", !.of = str[p].of]
<1>1. PICK g : g = NextOf(p)
    OBVIOUS
<1>2. /\ Shared(p)
      /\ vol' = IF g.r = Failed THEN [g.d EXCEPT !.panic = TRUE] ELSE g.d
      /\ IF g.r = None THEN op' = [op EXCEPT ![p] = x] /\ UNCHANGED <<file, str>>
         ELSE op' = op /\ Moved(p, g.r) /\ Longer(p)
    BY <1>1 DEF Write
<1>3. PICK b : b = str[p].of /\ b # None /\ b \in Bindings /\ op[p].pc = "idle"
    BY <1>2, SharedFacts
<1>4. \A q \in Procs : op[q].pc # "idle" => op[q].of # b
    BY <1>2, <1>3, OthersApart
<1>5. /\ TableOf(g.d) = TableOf(vol) /\ Moves(vol, g.d, {})
      /\ \/ g.r = Failed
         \/ /\ g.r = None
            /\ IF str[p].pos = 0 THEN file[b].first = None ELSE TableOf(vol)[str[p].last] = EndMark
         \/ /\ g.r \in Clusters /\ root[g.r] # None /\ at[g.r] = str[p].pos + 1
            /\ <<Token(b), root[g.r]>> \in Claims(root)
    BY <1>1, <1>3, <1>4, NextLaid
<1>6. x \in Op /\ x.pc = "alloc" /\ x.job = "none" /\ x.of = b /\ x.victim = None /\ x.cur = None
    <2>1. x = [Idle EXCEPT !.pc = "alloc", !.of = b]
        BY <1>3
    <2> HIDE DEF x
    <2> QED
        BY <1>3, <2>1, IdleIs DEF Op, Idle
<1> HIDE DEF x
<1>7. PICK T : T = TableOf(vol)
    OBVIOUS
<1>8. CASE g.r = None
    <2>1. vol' = g.d /\ op' = [op EXCEPT ![p] = x] /\ file' = file /\ str' = str
        BY <1>2, <1>8 DEF None, Failed
    <2>2. SameDir
        BY <1>5, <2>1, DirStays
    <2>3. CallLaid(T, root, file', x, str'[p])
        <3>1. IF str[p].pos = 0 THEN file[b].first = None ELSE T[str[p].last] = EndMark
            BY <1>5, <1>7, <1>8, EntryPlace DEF None, Failed
        <3> QED
            BY <1>3, <1>6, <2>1, <3>1 DEF CallLaid, Freeing
    <2>4. /\ str[p].pos # 0 => /\ p \in Standing /\ Stands(root, at, str[p])
                               /\ <<Token(b), root[str[p].last]>> \in Claims(root)
          /\ str[p].pos <= file[b].size
        BY <1>3, <1>4, OwnStream
    <2>5. str[p].pos > 0 => str[p].pos # 0
        OBVIOUS
    <2>6. \A a \in Bindings : file[a].size \in Nat /\ file[a].size <= file[a].size
        BY ObjectFields
    <2>7. Laid(T, root, at)'
        BY <1>3, <1>4, <1>6, <1>7, <2>1, <2>2, <2>3, <2>4, <2>5, <2>6, BeginsLaid
    <2> QED
        BY <1>5, <1>7, <2>1, <2>7, LaidIsOut
<1>9. CASE g.r # None
    <2>1. op' = op /\ Moved(p, g.r) /\ Longer(p)
        BY <1>2, <1>9
    <2>2. /\ \A a \in Bindings : /\ file'[a].slot = file[a].slot /\ file'[a].removed = file[a].removed
                                 /\ file'[a].first = file[a].first
                                 /\ file[a].size <= file'[a].size /\ file'[a].size \in Nat
                                 /\ a # b => file'[a].size = file[a].size
          /\ str[p].pos + 1 <= file'[b].size
        BY <1>3, <2>1, LongerIs
    <2>3. /\ \A q \in Procs : q # p => str'[q] = str[q]
          /\ str'[p].of = b /\ str'[p].pos = str[p].pos + 1 /\ str'[p].last = g.r
        BY <1>3, <2>1, Typing DEF Moved, FilesTyped, Stream
    <2>4. CASE g.r = Failed
        <3>1. PICK w : w = [g.d EXCEPT !.panic = TRUE]
            OBVIOUS
        <3>2. Moves(g.d, w, {})
            BY <1>5, <3>1, PanicMoves, GoodAfter
        <3>3. vol' = w /\ w.panic
            <4>1. g.d \in Vol
                BY <1>5 DEF Moves, Good
            <4> QED
                BY <1>2, <2>4, <3>1, <4>1 DEF Vol
        <3>4. Moves(vol, vol', {})
            BY <1>5, <3>2, <3>3, MovesAgain
        <3>5. TableOf(vol') = T /\ SameDir
            BY <1>7, <3>4, TableStays, DirStays
        <3>6. \A q \in Procs : str'[q].of = str[q].of
            BY <1>3, <2>3
        <3> QED
            BY <1>3, <1>7, <2>1, <2>2, <3>3, <3>5, <3>6, PanicLaid
    <2>5. CASE g.r # Failed
        <3>1. vol' = g.d
            BY <1>2, <2>5
        <3>2. SameDir
            BY <1>5, <3>1, DirStays
        <3>3. g.r \in Clusters /\ root[g.r] # None /\ at[g.r] = str[p].pos + 1
              /\ <<Token(b), root[g.r]>> \in Claims(root)
            BY <1>5, <1>9, <2>5
        <3>4. Stands(root, at, str'[p]) /\ <<Token(b), root[str'[p].last]>> \in Claims(root)
              /\ str'[p].pos <= file'[b].size
            BY <2>2, <2>3, <3>3 DEF Stands
        <3>5. PICK y \in Op : y = Idle
            BY IdleIs
        <3>6. op' = [op EXCEPT ![p] = y]
            BY <1>3, <2>1, <3>5, Typing DEF DirInv, CallsSound, IdleKnown
        <3>7. CallLaid(T, root, file', y, str'[p])
            BY <3>5, IdleLaid
        <3>8. Laid(T, root, at)'
            BY <1>3, <1>4, <1>7, <2>2, <2>3, <3>2, <3>4, <3>5, <3>6, <3>7, BeginsLaid
        <3> QED
            BY <1>5, <1>7, <3>1, <3>8, LaidIsOut
    <2> QED
        BY <2>4, <2>5
<1> QED
    BY <1>8, <1>9

\* Links are numbers.
LEMMA LinkIsInt == Link \subseteq Int
BY Geometry DEF Link, None, Failed

\* A call goes on, or is over, and the table is as it was.
LEMMA GoesLaid ==
    ASSUME IInv, DirInv, NEW T, NEW root, NEW at, Laid(T, root, at), SameDir, T = TableOf(vol'),
           NEW p \in Procs, op[p].pc \in {"alloc", "cut", "mark", "free", "unlink", "closewrite", "commit"},
           NEW x \in Op, op' = [op EXCEPT ![p] = x], x.victim = None, x.pc # "oldentry",
           \/ x.of = op[p].of /\ (x.job = "discard" <=> op[p].job = "discard")
           \/ x = Idle /\ (op[p].pc = "alloc" \/ op[p].job \in {"trunc", "sync", "close"}),
           Freeing(x) /\ x.cur \in Clusters => Freeing(op[p]) /\ x.cur = op[p].cur,
           str' = str,
           \A a \in Bindings : /\ file'[a].slot = file[a].slot /\ file'[a].removed = file[a].removed
                               /\ file'[a].first = file[a].first /\ file'[a].size = file[a].size,
           \A q \in Procs : CutsOff(op[p], str[q]) => CutsOff(x, str[q]),
           CallLaid(T, root, file', x, str[p])
    PROVE  LaidOut'
<1>1. CallLaid(T, root, file, op[p], str[p]) /\ StreamsLaid(root, at)
    BY DEF Laid, CallsLaid
<1>2. Idle.of = None /\ Idle.job = "none" /\ Idle.pc = "idle"
    BY DEF Idle
<1>3. op[p].pc # "alloc" \/ op[p].job # "discard"
    BY Typing DEF Known
<1>4. /\ x.of \in {None, str[p].of, op[p].of} /\ op[p].of \in {None, str[p].of, x.of}
      /\ (x.job = "discard" \/ op[p].job = "discard" => x.job = op[p].job /\ x.of = op[p].of)
    <2>1. CASE x.of = op[p].of /\ (x.job = "discard" <=> op[p].job = "discard")
        BY <2>1
    <2>2. CASE x = Idle /\ (op[p].pc = "alloc" \/ op[p].job \in {"trunc", "sync", "close"})
        BY <1>1, <1>2, <1>3, <2>2 DEF CallLaid
    <2> QED
        BY <2>1, <2>2
<1>5. op[p].victim = None /\ op[p].pc \notin {"entry", "oldentry"}
    BY DEF DirInv, CallsSound, VictimsKnown
<1>6. \A a \in Bindings : file[a].size \in Nat /\ file[a].size <= file[a].size
    BY ObjectFields
<1>7. \A q \in Procs : q # p /\ op[q].pc # "idle" => file'[op[q].of].size = file[op[q].of].size
    BY Typing DEF Known
<1>8. ASSUME p \in Standing' PROVE p \in Standing
    <2>1. \A q \in Procs : op'[q] = IF q = p THEN x ELSE op[q]
        BY DEF IInv, CallsTyped
    <2>2. ASSUME NEW r \in Procs PROVE ~CutsOff(op[r], str[p])
        <3>1. ~CutsOff(op'[r], str[p])
            BY <1>8 DEF Standing
        <3> QED
            BY <2>1, <3>1
    <2> QED
        BY <1>8, <2>2 DEF Standing
<1>9. p \in Standing' => /\ Stands(root, at, str'[p])
                         /\ <<Token(str[p].of), root[str'[p].last]>> \in Claims(root)
    BY <1>1, <1>8 DEF StreamsLaid, Claims
<1>10. \A q \in Procs : q # p => TwoCalls(x, op[q])
    <2>1. ASSUME NEW q \in Procs, q # p PROVE TwoCalls(op[p], op[q])
        BY <2>1 DEF Laid, CallsLaid
    <2> QED
        BY <1>2, <2>1 DEF TwoCalls, Freeing
<1>11. str'[p].of # None => str'[p].pos <= file'[str'[p].of].size
    <2>1. str[p].of # None => str[p].of \in Bindings
        BY Typing
    <2> QED
        BY <1>1, <2>1 DEF StreamsLaid
<1>12. \A a \in Bindings : /\ file'[a].slot = file[a].slot /\ file'[a].removed = file[a].removed
                           /\ file'[a].first = file[a].first
                           /\ file[a].size <= file'[a].size /\ file'[a].size \in Nat
    BY <1>6
<1>13. Laid(T, root, at)'
    BY <1>4, <1>5, <1>7, <1>9, <1>10, <1>11, <1>12, QuietLaid
<1> QED
    BY <1>13, LaidIsOut

\* Where a call's cut starts: at a cluster of its file, or before the first.
LEMMA CutPlace ==
    ASSUME IInv, DirInv, NEW T, NEW root, NEW at, Laid(T, root, at),
           NEW p \in Procs, NEW b, b = op[p].of,
           op[p].pc \in {"cut", "mark"} \/ (op[p].pc = "alloc" /\ str[p].pos # 0)
    PROVE  /\ b \in Bindings \ Unbound /\ str[p].of = b
           /\ \/ str[p].last = None /\ str[p].pos = 0 /\ file[b].first = None
              \/ /\ str[p].last \in Clusters /\ root[str[p].last] # None
                 /\ <<Token(b), root[str[p].last]>> \in Claims(root)
                 /\ at[str[p].last] = IF str[p].pos = 0 THEN 1 ELSE str[p].pos
<1>1. CallLaid(T, root, file, op[p], str[p])
    BY DEF Laid, CallsLaid
<1>2. str[p].of = b /\ b # None
    <2>1. op[p].pc # "alloc" => op[p].job \in {"trunc", "sync", "close"}
        BY Typing DEF Known
    <2> QED
        BY <1>1, <2>1, Typing, BindingsAssumption DEF CallLaid, Known
<1>3. \A q \in Procs : op[q].pc # "idle" /\ op[q].of = b =>
          q = p /\ (Freeing(op[q]) => str[p].pos = op[q].len)
    <2>1. ASSUME NEW q \in Procs, q # p, op[q].pc # "idle" PROVE op[q].of # b
        BY <2>1 DEF Laid, CallsLaid, TwoCalls
    <2> QED
        BY <2>1 DEF Freeing
<1>4. /\ str[p].pos # 0 => /\ Stands(root, at, str[p])
                           /\ <<Token(b), root[str[p].last]>> \in Claims(root)
      /\ file[b].first # None => /\ file[b].first \in Clusters
                                 /\ root[file[b].first] = file[b].first /\ at[file[b].first] = 1
                                 /\ <<Token(b), file[b].first>> \in Claims(root)
      /\ b \in Bindings \ Unbound
    BY <1>2, <1>3, OwnStream
<1>5. CASE str[p].pos = 0
    <2>1. str[p].last = file[b].first
        BY <1>1, <1>5 DEF CallLaid
    <2>2. CASE file[b].first = None
        BY <1>2, <1>4, <1>5, <2>1, <2>2
    <2>3. CASE file[b].first # None
        <3>1. root[file[b].first] # None /\ file[b].first \in Clusters
            BY <1>4, <2>3
        <3> QED
            BY <1>2, <1>4, <1>5, <2>1, <2>3, <3>1
    <2> QED
        BY <2>2, <2>3
<1>6. CASE str[p].pos # 0
    BY <1>2, <1>4, <1>6 DEF Stands
<1> QED
    BY <1>5, <1>6

\* fat_truncate looks up the cluster after the last.
LEMMA CutLaid ==
    ASSUME IInv, DirInv, NEW root, NEW at, Laid(TableOf(vol), root, at), NEW p \in Procs, Cut(p)
    PROVE  LaidOut'
<1>1. PICK g : g = GetNext(vol, str[p].last)
    OBVIOUS
<1>2. /\ At(p, "cut") /\ UNCHANGED <<file, str>>
      /\ IF str[p].last = None THEN Goto(p, "free") /\ vol' = vol
         ELSE vol' = g.d /\ op' = [op EXCEPT ![p].pc = "mark", ![p].cur = g.r]
    BY <1>1 DEF Cut
<1>3. /\ op[p].pc = "cut" /\ op[p] \in Op /\ op \in [Procs -> Op] /\ Good(vol) /\ str[p].last \in Link
      /\ op[p].job \in {"trunc", "sync", "close"}
    BY <1>2, Typing DEF At, Known
<1>4. PICK T : T = TableOf(vol)
    OBVIOUS
<1>5. CallLaid(T, root, file, op[p], str[p])
    BY <1>4 DEF Laid, CallsLaid
<1>6. op[p].victim = None
    BY <1>3 DEF DirInv, CallsSound, VictimsKnown
<1>7. \A q \in Procs : ~CutsOff(op[p], str[q])
    BY <1>3 DEF CutsOff, Freeing
<1>8. Moves(vol, g.d, {}) /\ g.r \in Link
    BY <1>1, <1>3, GetNextIs
<1>9. CASE str[p].last = None
    <2> DEFINE x == [op[p] EXCEPT !.pc = "free"]
    <2>1. /\ x \in Op /\ x.pc = "free" /\ x.of = op[p].of /\ x.job = op[p].job /\ x.victim = None
          /\ x.cur = None /\ x.len = op[p].len
        BY <1>3, <1>5, <1>6 DEF Op, CallLaid
    <2>2. op' = [op EXCEPT ![p] = x] /\ vol' = vol
        BY <1>2, <1>9 DEF Goto
    <2> HIDE DEF x
    <2>3. x.cur \notin Clusters
        BY <2>1, EntryPlace
    <2>4. CallLaid(T, root, file', x, str[p])
        BY <1>2, <1>3, <1>5, <2>1, <2>3 DEF CallLaid, Freeing, CutFree
    <2>5. SameDir /\ T = TableOf(vol')
        BY <1>4, <2>2 DEF SameDir
    <2> QED
        BY <1>2, <1>3, <1>4, <1>7, <2>1, <2>2, <2>3, <2>4, <2>5, GoesLaid
<1>10. CASE str[p].last # None
    <2> DEFINE x == [op[p] EXCEPT !.pc = "mark", !.cur = g.r]
    <2>1. g.r \in Int
        BY <1>8, LinkIsInt
    <2>2. /\ x \in Op /\ x.pc = "mark" /\ x.of = op[p].of /\ x.job = op[p].job /\ x.victim = None
          /\ x.cur = g.r /\ x.len = op[p].len
        BY <1>3, <1>6, <2>1 DEF Op
    <2>3. op' = [op EXCEPT ![p] = x] /\ vol' = g.d
        BY <1>2, <1>3, <1>10 DEF Op
    <2> HIDE DEF x
    <2>4. str[p].last \in Clusters
        BY <1>3, <1>10, CutPlace
    <2>5. g.r \in {Failed, LinkIn(T, str[p].last)}
        BY <1>1, <1>3, <1>4, <2>4, GetNextReads
    <2>6. CallLaid(T, root, file', x, str[p])
        BY <1>2, <1>3, <1>5, <2>2, <2>4, <2>5 DEF CallLaid, Freeing
    <2>7. SameDir /\ T = TableOf(vol')
        BY <1>4, <1>8, <2>3, DirStays, TableStays
    <2>8. ~Freeing(x)
        BY <2>2 DEF Freeing
    <2> QED
        BY <1>2, <1>3, <1>4, <1>7, <2>2, <2>3, <2>6, <2>7, <2>8, GoesLaid
<1> QED
    BY <1>9, <1>10

\* free_cluster_chain reads a link.
LEMMA FreeNextLaid ==
    ASSUME IInv, DirInv, NEW root, NEW at, Laid(TableOf(vol), root, at), NEW p \in Procs, FreeNext(p)
    PROVE  LaidOut'
<1>1. PICK g : g = GetNext(vol, op[p].cur)
    OBVIOUS
<1> DEFINE x == [op[p] EXCEPT !.pc = "unlink", !.next = g.r]
<1>2. /\ At(p, "free") /\ UNCHANGED <<file, str>> /\ vol' = g.d
      /\ op' = [op EXCEPT ![p].pc = "unlink", ![p].next = g.r]
    BY <1>1 DEF FreeNext
<1>3. op[p].pc = "free" /\ op[p] \in Op /\ op \in [Procs -> Op] /\ Good(vol) /\ op[p].cur \in Link
    BY <1>2, Typing DEF At, Known
<1>4. PICK T : T = TableOf(vol)
    OBVIOUS
<1>5. CallLaid(T, root, file, op[p], str[p])
    BY <1>4 DEF Laid, CallsLaid
<1>6. op[p].victim = None
    BY <1>3 DEF DirInv, CallsSound, VictimsKnown
<1>7. Moves(vol, g.d, {}) /\ g.r \in Link
    BY <1>1, <1>3, GetNextIs
<1>8. g.r \in Int
    BY <1>7, LinkIsInt
<1>9. /\ x \in Op /\ x.pc = "unlink" /\ x.of = op[p].of /\ x.job = op[p].job /\ x.victim = None
      /\ x.cur = op[p].cur /\ x.next = g.r /\ x.len = op[p].len
    BY <1>3, <1>6, <1>8 DEF Op
<1>10. op' = [op EXCEPT ![p] = x]
    BY <1>2, <1>3 DEF Op
<1> HIDE DEF x
<1>11. x.cur \in Clusters => x.next \in {Failed, LinkIn(T, x.cur)}
    BY <1>1, <1>3, <1>4, <1>9, GetNextReads
<1>12. CallLaid(T, root, file', x, str[p])
    BY <1>2, <1>3, <1>5, <1>9, <1>11 DEF CallLaid, Freeing
<1>13. SameDir /\ T = TableOf(vol')
    BY <1>2, <1>4, <1>7, DirStays, TableStays
<1>14. Freeing(op[p]) /\ Freeing(x) /\ \A q \in Procs : CutsOff(op[p], str[q]) => CutsOff(x, str[q])
    BY <1>3, <1>9 DEF CutsOff, Freeing
<1> QED
    BY <1>2, <1>3, <1>4, <1>9, <1>10, <1>12, <1>13, <1>14, GoesLaid, ZenonT(60)

\* How the table may change.
May(T, U) ==
    \/ U = T
    \/ \E c \in Clusters :
           \/ T[c] = None /\ U = [T EXCEPT ![c] = EndMark]
           \/ T[c] # None /\ U = [T EXCEPT ![c] = EndMark]
           \/ T[c] # None /\ (\A e \in Clusters : T[e] # c) /\ U = [T EXCEPT ![c] = None]
           \/ \E e \in Clusters :
                  T[c] = None /\ T[e] = EndMark /\ U = [T EXCEPT ![e] = c, ![c] = EndMark]

\* The chains that are not file b's, and the loose clusters but that of call
\* o, are as they were.
Spared(T, U, root, b) ==
    \A c \in Clusters : root[c] # None /\ <<Token(b), root[c]>> \notin Claims(root) => U[c] = T[c]
LooseStay(T, U, root, w, o) ==
    \A c \in Clusters : /\ root[c] = None /\ T[c] # None /\ \A e \in Clusters : T[e] # c
                        /\ ~(Freeing(o) /\ c = o.cur)
                        => w[c] = None /\ U[c] = T[c] /\ \A e \in Clusters : U[e] # c

\* The other files are as they were.
OnlyFile(b) == \A a \in Bindings : a # b => file'[a] = file[a]

\* First clusters are clusters.
LEMMA FirstsTyped ==
    ASSUME IInv, NEW z \in Firsts
    PROVE  z[2] \in {None} \cup Clusters
<1>1. \A b \in Holding : file[b].first \in {None} \cup Clusters
    BY ObjectFields DEF Holding
<1>2. \A s \in Closed : Entry(s).first \in {None} \cup Clusters
    <2>1. Contents(vol, Dir) \in [Slots -> DirSlot]
        BY ContentsIs, Geometry DEF IInv, VolKnown, Data
    <2> QED
        BY <2>1 DEF Closed, Named, Entry, DirSlot
<1> QED
    BY <1>1, <1>2 DEF Firsts

\* The calls that do not step are on other files and at other clusters.
LEMMA OthersLaid ==
    ASSUME IInv, DirInv, DirSound, NEW T, NEW root, NEW at, Laid(T, root, at),
           NEW p \in Procs, op[p].pc # "idle", NEW b, b = op[p].of, NEW U, NEW w,
           Spared(T, U, root, b), LooseStay(T, U, root, w, op[p]),
           OnlyFile(b), NEW q \in Procs, q # p
    PROVE  CallLaid(U, w, file', op[q], str[q])
<1> DEFINE a == op[q].of
           l == str[q].last
<1>1. CallLaid(T, root, file, op[q], str[q]) /\ TwoCalls(op[p], op[q])
    BY DEF Laid, CallsLaid
<1>2. op[q].pc # "idle" => a \in Bindings /\ a # b
    BY <1>1, InUse DEF TwoCalls
<1>3. b \in Bindings \ Unbound
    BY InUse
<1>4. ASSUME op[q].pc = "mark" \/ (op[q].pc = "alloc" /\ str[q].pos # 0)
      PROVE  U[l] = T[l]
    <2>1. a \in Bindings \ Unbound /\ l \in Clusters /\ root[l] # None /\ <<Token(a), root[l]>> \in Claims(root)
        <3>1. op[q].pc = "mark" => l \in Clusters
            BY <1>1 DEF CallLaid
        <3>2. None \notin Clusters
            BY EntryPlace
        <3> QED
            BY <1>4, <3>1, <3>2, CutPlace
    <2>2. a # b /\ Apart(Claims(root))
        BY <1>2, <1>4 DEF Laid
    <2>3. <<Token(b), root[l]>> \notin Claims(root)
        BY <1>3, <2>1, <2>2, OneOwner
    <2> QED
        BY <2>1, <2>3 DEF Spared
<1>5. ASSUME Freeing(op[q]), op[q].cur \in Clusters
      PROVE  /\ w[op[q].cur] = None /\ U[op[q].cur] = T[op[q].cur]
             /\ \A e \in Clusters : U[e] # op[q].cur
    <2>1. root[op[q].cur] = None /\ T[op[q].cur] # None /\ \A e \in Clusters : T[e] # op[q].cur
        BY <1>1, <1>5 DEF CallLaid, CutFree
    <2>2. ~(Freeing(op[p]) /\ op[q].cur = op[p].cur)
        BY <1>1, <1>5 DEF TwoCalls, Freeing
    <2> QED
        BY <1>5, <2>1, <2>2 DEF LooseStay
<1>6. op[q].pc # "idle" => file'[a] = file[a]
    BY <1>2 DEF OnlyFile
<1> QED
    BY <1>1, <1>4, <1>5, <1>6, CallStays

\* fat_truncate marks the last cluster that stays.
LEMMA MarkedLaid ==
    ASSUME IInv, DirInv, DirSound, NEW T, NEW root, NEW at, Laid(T, root, at), Typed(T), SameDir,
           NEW p \in Procs, op[p].pc = "mark", UNCHANGED <<file, str>>,
           NEW l, l = str[p].last, NEW U, U = [T EXCEPT ![l] = EndMark],
           NEW x \in Op, op' = [op EXCEPT ![p] = x], x.pc = "free", x.job = op[p].job, x.of = op[p].of,
           x.cur = op[p].cur, x.len = op[p].len, x.victim = None
    PROVE  /\ T[l] # None /\ l \in Clusters
           /\ \E w, y : Laid(U, w, y)'
<1> DEFINE b == op[p].of
           w == Cutting(root, at, l)
<1>1. CallLaid(T, root, file, op[p], str[p]) /\ op[p].victim = None /\ Chained(T, root, at)
    BY DEF Laid, CallsLaid, DirInv, CallsSound, VictimsKnown
<1>2. /\ b \in Bindings \ Unbound /\ str[p].of = b /\ b # None
      /\ l \in Clusters /\ root[l] # None
      /\ <<Token(b), root[l]>> \in Claims(root)
      /\ at[l] = IF str[p].pos = 0 THEN 1 ELSE str[p].pos
    <2>1. l \in Clusters /\ None \notin Clusters
        BY <1>1, EntryPlace DEF CallLaid
    <2> QED
        <3>1. PICK m \in Clusters : m = l /\ m # None
            BY <2>1
        <3>2. PICK a : a = b
            OBVIOUS
        <3>3. /\ a \in Bindings \ Unbound /\ str[p].of = a
              /\ \/ str[p].last = None /\ str[p].pos = 0 /\ file[a].first = None
                 \/ /\ str[p].last \in Clusters /\ root[str[p].last] # None
                    /\ <<Token(a), root[str[p].last]>> \in Claims(root)
                    /\ at[str[p].last] = IF str[p].pos = 0 THEN 1 ELSE str[p].pos
            BY <3>2, CutPlace
        <3>4. a # None
            BY <3>3, BindingsAssumption
        <3> QED
            BY <3>1, <3>2, <3>3, <3>4
<1>3. op[p].job \in {"trunc", "sync", "close"} /\ str[p].pos = op[p].len /\ str[p].pos \in Nat
    BY <1>1, Typing DEF Known, CallLaid
<1>4. Chained(U, w, at)
    BY <1>1, <1>2, ChainCut
<1>5. /\ \A c \in Clusters : w[c] = IF root[c] = root[l] /\ at[c] > at[l] THEN None ELSE root[c]
      /\ U[l] = EndMark /\ \A c \in Clusters : c # l => U[c] = T[c]
      /\ at \in [Clusters -> Nat] /\ EndMark \notin Clusters /\ EndMark # None
    <2>1. \A c \in Clusters : w[c] = IF root[c] = root[l] /\ at[c] > at[l] THEN None ELSE root[c]
        BY DEF Cutting
    <2>2. U[l] = EndMark /\ \A c \in Clusters : c # l => U[c] = T[c]
        BY <1>2 DEF Typed
    <2>3. at \in [Clusters -> Nat]
        BY <1>1 DEF Chained
    <2> QED
        BY <2>1, <2>2, <2>3, MarksAreWords DEF EndMark, None
<1>6. T[l] # None /\ root[root[l]] = root[l] /\ at[root[l]] <= at[l] /\ root[l] \in Clusters
    BY <1>1, <1>2 DEF Chained
<1> HIDE DEF w
<1>7. w[l] = root[l]
    BY <1>2, <1>5
<1>8. /\ Live' = Live /\ Holding' = Holding /\ Closed' = Closed
      /\ \A a \in Bindings : Token(a)' = Token(a)
    BY <1>1, <1>3, SameDirNames, SameFiles
<1>9. Firsts' = Firsts
    BY <1>8, SameFirsts DEF SameDir
<1>10. Rooted(Firsts, w, at)
    <2> SUFFICES ASSUME NEW z \in Firsts, z[2] # None PROVE w[z[2]] = z[2] /\ at[z[2]] = 1
        BY DEF Rooted
    <2>1. PICK c \in Clusters : c = z[2]
        BY FirstsTyped
    <2>2. root[c] = c /\ at[c] = 1
        BY <2>1 DEF Laid, Rooted
    <2>3. ~(root[c] = root[l] /\ at[c] > at[l])
        BY <1>2, <1>5, <1>6, <2>2
    <2> QED
        BY <1>5, <2>1, <2>2, <2>3
<1>11. \A q \in Procs : ~CutsOff(op[p], str[q])
    BY DEF CutsOff, Freeing
<1>12. \A q \in Standing' : q # p => q \in Standing
    BY <1>11, FewerStand
<1>13. ASSUME NEW q \in Standing, q # p, q \in Standing' PROVE w[str[q].last] = root[str[q].last]
    <2>1. q \in Procs /\ str[q].of # None /\ str[q].pos > 0
        BY DEF Standing
    <2>2. Stands(root, at, str[q]) /\ <<Token(str[q].of), root[str[q].last]>> \in Claims(root)
        BY DEF Laid, StreamsLaid, Claims
    <2>3. PICK m \in Clusters : m = str[q].last /\ root[m] # None /\ at[m] = str[q].pos
        BY <2>2 DEF Stands
    <2>4. CASE str[q].of = b
        <3>1. ~CutsOff(x, str[q])
            <4>1. op'[p] = x
                BY DEF IInv, CallsTyped
            <4> QED
                BY <1>13, <4>1 DEF Standing
        <3>2. ~(str[q].pos > op[p].len)
            BY <1>3, <2>4, <3>1 DEF CutsOff, Freeing
        <3>3. at[m] <= at[l]
            BY <1>2, <1>3, <1>5, <2>1, <2>3, <3>2, Typing
        <3> QED
            BY <1>5, <1>2, <2>3, <3>3
    <2>5. CASE str[q].of # b
        <3>1. str[q].of \in Bindings \ Unbound /\ Apart(Claims(root))
            BY <2>1, InUse DEF Laid
        <3>2. root[m] # root[l]
            BY <1>2, <2>2, <2>3, <2>5, <3>1, OneOwner
        <3> QED
            BY <1>5, <2>3, <3>2
    <2> QED
        BY <2>4, <2>5
<1>14. p \in Standing' => Stands(w, at, str'[p])
    BY <1>2, <1>7 DEF Standing, Stands
<1>15. StreamsLaid(w, at)'
    <2>1. StreamsLaid(root, at)
        BY DEF Laid
    <2>2. ASSUME NEW q \in Standing' PROVE Stands(w, at, str'[q])
        <3>1. CASE q = p
            BY <1>14, <2>2, <3>1
        <3>2. CASE q # p
            <4>1. q \in Standing /\ w[str[q].last] = root[str[q].last] /\ Stands(root, at, str[q])
                BY <1>12, <1>13, <2>1, <2>2, <3>2 DEF StreamsLaid
            <4> QED
                BY <4>1 DEF Stands
        <3> QED
            BY <3>1, <3>2
    <2> QED
        BY <2>1, <2>2 DEF StreamsLaid
<1>16. Apart(Claims(w)')
    <2>1. \A z \in Firsts' : z[2] = None \/ z \in Claims(root)
        BY <1>9 DEF Claims
    <2>2. \A q \in Standing : q # p => <<Token(str[q].of), root[str[q].last]>> \in Claims(root)
        BY DEF Claims
    <2>3. p \in Standing' => str'[p].of \in Bindings
                             /\ <<Token(str'[p].of), w[str'[p].last]>> \in Claims(root)
        BY <1>2, <1>7
    <2>4. \A q \in Standing' : q # p => q \in Standing /\ w[str[q].last] = root[str[q].last]
        BY <1>12, <1>13
    <2>5. Apart(Claims(root))
        BY DEF Laid
    <2> QED
        BY <1>8, <2>1, <2>2, <2>3, <2>4, <2>5, ClaimsStay
<1>17. EntriesLaid'
    BY <1>8, EntriesStay DEF Laid
<1>18. CallLaid(U, w, file', x, str'[p])
    <2>1. CutFree(U, w, x.cur)
        <3> SUFFICES ASSUME x.cur \in Clusters
                     PROVE  w[x.cur] = None /\ U[x.cur] # None /\ \A e \in Clusters : U[e] # x.cur
            BY DEF CutFree
        <3>1. PICK c \in Clusters : c = x.cur
            OBVIOUS
        <3>2. T[l] = c
            <4>1. c \in {Failed, LinkIn(T, l)} /\ c # Failed /\ c # None
                BY <1>1, <3>1, EntryPlace DEF CallLaid
            <4> QED
                BY <4>1 DEF LinkIn
        <3>3. root[c] = root[l] /\ at[c] = at[l] + 1 /\ T[c] # None
            BY <1>1, <1>2, <3>2 DEF Chained
        <3>4. at[c] \in Nat /\ at[l] \in Nat /\ c # l
            BY <1>2, <1>5, <3>3
        <3>5. w[c] = None /\ U[c] # None
            BY <1>5, <3>3, <3>4
        <3>6. ASSUME NEW e \in Clusters PROVE U[e] # c
            BY <1>1, <1>2, <1>5, <3>2 DEF Chained
        <3> QED
            BY <3>1, <3>5, <3>6
    <2> QED
        BY <1>1, <1>2, <1>3, <2>1 DEF CallLaid
<1>19. ASSUME NEW q \in Procs, q # p PROVE CallLaid(U, w, file', op[q], str'[q])
    <2>1. Spared(T, U, root, b)
        BY <1>2, <1>5 DEF Spared
    <2>2. LooseStay(T, U, root, w, op[p])
        BY <1>2, <1>5 DEF LooseStay
    <2>3. OnlyFile(b)
        BY DEF OnlyFile
    <2>4. op[p].pc # "idle"
        OBVIOUS
    <2> QED
        BY <1>19, <2>1, <2>2, <2>3, <2>4, OthersLaid
<1>20. ASSUME NEW q \in Procs, q # p PROVE TwoCalls(x, op[q])
    <2>1. TwoCalls(op[p], op[q]) /\ CallLaid(T, root, file, op[q], str[q])
        BY <1>20 DEF Laid, CallsLaid
    <2>2. ASSUME Freeing(op[q]), x.cur \in Clusters PROVE x.cur # op[q].cur
        <3>1. SUFFICES ASSUME x.cur = op[q].cur PROVE FALSE
            OBVIOUS
        <3>2. T[l] # x.cur
            BY <1>2, <2>1, <2>2, <3>1 DEF CallLaid, CutFree
        <3>3. x.cur \in {Failed, LinkIn(T, l)} /\ x.cur # Failed /\ x.cur # None
            BY <1>1, <2>2, EntryPlace DEF CallLaid
        <3> QED
            BY <3>2, <3>3 DEF LinkIn
    <2> QED
        BY <2>1, <2>2 DEF TwoCalls
<1>21. CallsLaid(U, w)'
    <2>1. CallsLaid(T, root)
        BY DEF Laid
    <2> QED
        BY <1>18, <1>19, <1>20, <2>1, CallsStay
<1>22. Laid(U, w, at)'
    BY <1>4, <1>9, <1>10, <1>15, <1>16, <1>17, <1>21 DEF Laid
<1> QED
    BY <1>2, <1>6, <1>22

\* A legible directory has been legible.
LEMMA IsIntact ==
    ASSUME DirInv, Intact', broken \subseteq broken'
    PROVE  Intact /\ DirSound
BY DEF Intact, DirInv

\* What a call becomes that gives up its truncation.
LEMMA GivesUp ==
    ASSUME IInv, NEW p \in Procs, NEW job \in {"trunc", "sync", "close"}, str[p].of \in Bindings, GiveUp(p, job)
    PROVE  \E x \in Op : /\ op' = [op EXCEPT ![p] = x]
                         /\ \/ x = Idle
                            \/ /\ x.pc = "closewrite" /\ x.job = job /\ x.of = str[p].of /\ x.victim = None
<1> DEFINE w == [Idle EXCEPT !.pc = "closewrite", !.job = job, !.of = str[p].of]
<1>1. Idle \in Op /\ w \in Op
    BY IdleIs DEF Op
<1>2. w.pc = "closewrite" /\ w.job = job /\ w.of = str[p].of /\ w.victim = None
    BY DEF Idle
<1> QED
    BY <1>1, <1>2 DEF GiveUp

\* fat_truncate marks the last cluster that stays.
LEMMA MarkLaid ==
    ASSUME IInv, DirInv, Intact', NEW root, NEW at, Laid(TableOf(vol), root, at), NEW p \in Procs, Mark(p)
    PROVE  LaidOut' /\ May(TableOf(vol), TableOf(vol'))
<1>1. PICK l : l = str[p].last
    OBVIOUS
<1>2. PICK u : u = UpdateFat(vol, l, EndMark)
    OBVIOUS
<1>3. /\ At(p, "mark") /\ UNCHANGED <<file, str>> /\ vol' = u.d
      /\ IF u.ok THEN Goto(p, "free") ELSE GiveUp(p, op[p].job)
    BY <1>1, <1>2 DEF Mark
<1>4. /\ op[p].pc = "mark" /\ op[p] \in Op /\ op \in [Procs -> Op] /\ Good(vol)
      /\ op[p].job \in {"trunc", "sync", "close"} /\ broken' = broken
    BY <1>3, Typing DEF At, Known
<1>5. DirSound
    BY <1>4, IsIntact
<1>6. PICK T : T = TableOf(vol)
    OBVIOUS
<1>7. PICK U : U = TableOf(vol')
    OBVIOUS
<1>8. CallLaid(T, root, file, op[p], str[p]) /\ op[p].victim = None
    BY <1>4, <1>6 DEF Laid, CallsLaid, DirInv, CallsSound, VictimsKnown
<1>9. l \in Clusters /\ l \in Link /\ EndMark \in Word /\ l # EndMark
    BY <1>1, <1>4, <1>8, EntryPlace, MarksAreWords DEF CallLaid
<1>10. U = IF u.ok THEN [T EXCEPT ![l] = EndMark] ELSE T
    BY <1>2, <1>3, <1>4, <1>6, <1>7, <1>9, UpdateFatSets
<1>11. SameDir
    <2>1. Moves(vol, vol', FatSectors)
        BY <1>2, <1>3, <1>4, <1>9, UpdateFatIs
    <2> QED
        BY <2>1, DirStays, Geometry
<1>12. Typed(T)
    BY <1>4, <1>6, TableTyped
<1>13. CASE u.ok
    <2> DEFINE x == [op[p] EXCEPT !.pc = "free"]
    <2>1. /\ x \in Op /\ x.pc = "free" /\ x.of = op[p].of /\ x.job = op[p].job /\ x.victim = None
          /\ x.cur = op[p].cur /\ x.len = op[p].len
        BY <1>4, <1>8 DEF Op
    <2>2. op' = [op EXCEPT ![p] = x]
        BY <1>3, <1>13 DEF Goto
    <2> HIDE DEF x
    <2>3. U = [T EXCEPT ![l] = EndMark] /\ Laid(T, root, at) /\ UNCHANGED <<file, str>>
        BY <1>3, <1>6, <1>10, <1>13
    <2>4. T[l] # None /\ l \in Clusters /\ \E w, y : Laid(U, w, y)'
        BY <1>1, <1>4, <1>5, <1>11, <1>12, <2>1, <2>2, <2>3, MarkedLaid
    <2>5. LaidOut'
        BY <1>7, <2>4, LaidIsOut
    <2> QED
        BY <1>6, <1>7, <2>3, <2>4, <2>5 DEF May
<1>14. CASE ~u.ok
    <2>1. str[p].of = op[p].of /\ str[p].of \in Bindings
        BY <1>4, <1>8, Typing DEF CallLaid, Known
    <2>2. PICK x \in Op : /\ op' = [op EXCEPT ![p] = x]
                          /\ \/ x = Idle
                             \/ /\ x.pc = "closewrite" /\ x.job = op[p].job /\ x.of = str[p].of /\ x.victim = None
        BY <1>3, <1>4, <1>14, <2>1, GivesUp
    <2>3. /\ x.victim = None /\ x.pc # "oldentry" /\ ~Freeing(x)
          /\ \/ x.of = op[p].of /\ (x.job = "discard" <=> op[p].job = "discard")
             \/ x = Idle /\ (op[p].pc = "alloc" \/ op[p].job \in {"trunc", "sync", "close"})
        BY <1>4, <2>1, <2>2 DEF Idle, Freeing
    <2>4. CallLaid(T, root, file', x, str[p])
        <3>1. CASE x = Idle
            BY <3>1, IdleLaid
        <3>2. CASE x.pc = "closewrite" /\ x.job = op[p].job /\ x.of = str[p].of
            BY <1>4, <3>2 DEF CallLaid, Freeing
        <3> QED
            BY <2>2, <3>1, <3>2
    <2>5. T = TableOf(vol') /\ \A q \in Procs : ~CutsOff(op[p], str[q])
        BY <1>4, <1>7, <1>10, <1>14 DEF CutsOff, Freeing
    <2>6. LaidOut'
        BY <1>3, <1>4, <1>6, <1>11, <2>2, <2>3, <2>4, <2>5, GoesLaid
    <2> QED
        BY <1>6, <2>5, <2>6 DEF May
<1> QED
    BY <1>13, <1>14

\* free_cluster_chain frees a cluster and goes on with the next.
LEMMA UnlinkedLaid ==
    ASSUME IInv, DirInv, DirSound, NEW T, NEW root, NEW at, Laid(T, root, at), Typed(T), SameDir,
           NEW p \in Procs, op[p].pc = "unlink", UNCHANGED <<file, str>>,
           NEW c \in Clusters, c = op[p].cur, NEW U, U = [T EXCEPT ![c] = None],
           NEW x \in Op, op' = [op EXCEPT ![p] = x], x.pc = "free", x.job = op[p].job, x.of = op[p].of,
           x.cur = op[p].next, x.len = op[p].len, x.victim = None
    PROVE  /\ T[c] # None /\ \A e \in Clusters : T[e] # c
           /\ Laid(U, root, at)'
<1> DEFINE b == op[p].of
<1>1. CallLaid(T, root, file, op[p], str[p]) /\ op[p].victim = None /\ Chained(T, root, at)
    BY DEF Laid, CallsLaid, DirInv, CallsSound, VictimsKnown
<1>2. root[c] = None /\ T[c] # None /\ \A e \in Clusters : T[e] # c
    BY <1>1 DEF CallLaid, CutFree, Freeing
<1>3. Chained(U, root, at)
    BY <1>1, <1>2, ChainFree
<1>4. U[c] = None /\ (\A e \in Clusters : e # c => U[e] = T[e]) /\ None \notin Clusters
    BY EntryPlace DEF Typed
<1>5. /\ Live' = Live /\ Holding' = Holding /\ Closed' = Closed
      /\ \A a \in Bindings : Token(a)' = Token(a)
    BY <1>1, SameDirNames, SameFiles
<1>6. Firsts' = Firsts
    BY <1>5, SameFirsts DEF SameDir
<1>7. \A q \in Procs : op'[q] = IF q = p THEN x ELSE op[q]
    BY DEF IInv, CallsTyped
<1>8. \A q \in Procs : CutsOff(op[p], str[q]) => CutsOff(x, str[q])
    BY DEF CutsOff, Freeing
<1>9. \A q \in Standing' : q \in Standing
    <2> SUFFICES ASSUME NEW q \in Standing' PROVE q \in Standing
        OBVIOUS
    <2>1. ASSUME NEW r \in Procs PROVE ~CutsOff(op[r], str[q])
        <3>1. ~CutsOff(op'[r], str[q])
            BY DEF Standing
        <3> QED
            BY <1>7, <1>8, <3>1 DEF Standing
    <2> QED
        BY <2>1 DEF Standing
<1>10. StreamsLaid(root, at)'
    BY <1>9 DEF Laid, StreamsLaid
<1>11. Apart(Claims(root)')
    <2>1. ASSUME NEW z \in Claims(root)' PROVE z \in Claims(root)
        <3>1. CASE z \in Firsts'
            BY <1>6, <3>1 DEF Claims
        <3>2. CASE z \notin Firsts'
            <4>1. PICK q \in Standing' : z = <<Token(str[q].of)', root[str[q].last]>>
                BY <2>1, <3>2 DEF Claims
            <4>2. q \in Standing /\ str[q].of \in Bindings
                BY <1>9, Typing DEF Standing
            <4>3. Token(str[q].of)' = Token(str[q].of)
                BY <4>2 DEF Token
            <4> QED
                BY <4>1, <4>2, <4>3 DEF Claims
        <3> QED
            BY <3>1, <3>2
    <2> QED
        BY <2>1 DEF Laid, Apart
<1>12. EntriesLaid'
    BY <1>5, EntriesStay DEF Laid
<1>13. x.cur \in Clusters => T[c] = x.cur
    <2>1. op[p].next \in {Failed, LinkIn(T, c)}
        BY <1>1 DEF CallLaid
    <2> QED
        BY <2>1, EntryPlace DEF LinkIn
<1>14. CallLaid(U, root, file', x, str'[p])
    <2>1. CutFree(U, root, x.cur)
        <3> SUFFICES ASSUME x.cur \in Clusters
                     PROVE  root[x.cur] = None /\ U[x.cur] # None /\ \A e \in Clusters : U[e] # x.cur
            BY DEF CutFree
        <3>1. PICK n \in Clusters : n = x.cur /\ n = T[c]
            BY <1>13
        <3>2. n # c /\ root[n] = None /\ T[n] # None
            BY <1>1, <1>2, <3>1 DEF Chained
        <3>3. U[n] # None
            BY <1>4, <3>2
        <3>4. ASSUME NEW e \in Clusters PROVE U[e] # n
            BY <1>1, <1>4, <3>1 DEF Chained
        <3> QED
            BY <3>1, <3>2, <3>3, <3>4
    <2> QED
        BY <1>1, <2>1 DEF CallLaid, Freeing
<1>15. ASSUME NEW q \in Procs, q # p PROVE CallLaid(U, root, file', op[q], str'[q])
    <2>1. Spared(T, U, root, b)
        BY <1>2, <1>4 DEF Spared
    <2>2. LooseStay(T, U, root, root, op[p])
        BY <1>4 DEF LooseStay, Freeing
    <2>3. OnlyFile(b)
        BY DEF OnlyFile
    <2>4. op[p].pc # "idle"
        OBVIOUS
    <2> QED
        BY <1>15, <2>1, <2>2, <2>3, <2>4, OthersLaid
<1>16. ASSUME NEW q \in Procs, q # p PROVE TwoCalls(x, op[q])
    <2>1. TwoCalls(op[p], op[q]) /\ CallLaid(T, root, file, op[q], str[q])
        BY <1>16 DEF Laid, CallsLaid
    <2>2. ASSUME Freeing(op[q]), x.cur \in Clusters PROVE x.cur # op[q].cur
        BY <1>13, <2>1, <2>2 DEF CallLaid, CutFree
    <2> QED
        BY <2>1, <2>2 DEF TwoCalls
<1>17. CallsLaid(U, root)'
    <2>1. CallsLaid(T, root)
        BY DEF Laid
    <2> QED
        BY <1>14, <1>15, <1>16, <2>1, CallsStay
<1>18. Laid(U, root, at)'
    BY <1>3, <1>6, <1>10, <1>11, <1>12, <1>17 DEF Laid
<1> QED
    BY <1>2, <1>18

\* Where there is no cluster, none is freed.
LEMMA UpdateNowhere ==
    ASSUME NEW d, Good(d), NEW c \in {None, Failed}
    PROVE  ~UpdateFat(d, c, None).ok /\ Moves(d, UpdateFat(d, c, None).d, {})
<1>1. CASE c = None
    BY <1>1, PanicMoves DEF UpdateFat, None
<1>2. CASE c = Failed
    <2>1. PICK h : h = CacheSector(d, Far)
        OBVIOUS
    <2>2. h.e = NoEntry /\ Kept(d, h.d) /\ SameRoom(d, h.d)
        BY <2>1, CacheSectorHas, Geometry DEF Had
    <2>3. UpdateFat(d, c, None) = UpdateIn(h, c, None)
        BY <1>2, <2>1 DEF UpdateFat, Failed, None, SectorOf
    <2>4. UpdateIn(h, c, None) = [d |-> h.d, ok |-> FALSE]
        BY <2>2 DEF UpdateIn
    <2> QED
        BY <2>2, <2>3, <2>4, KeptMoves
<1> QED
    BY <1>1, <1>2

\* free_cluster_chain frees a cluster, or stops.
LEMMA UnlinkLaid ==
    ASSUME IInv, DirInv, Intact', NEW root, NEW at, Laid(TableOf(vol), root, at), NEW p \in Procs, Unlink(p)
    PROVE  LaidOut' /\ May(TableOf(vol), TableOf(vol'))
<1>1. PICK c : c = op[p].cur
    OBVIOUS
<1>2. PICK u : u = UpdateFat(vol, c, None)
    OBVIOUS
<1> DEFINE x == [op[p] EXCEPT !.pc = "free", !.next = None, !.cur = IF u.ok THEN op[p].next ELSE None]
<1>3. /\ At(p, "unlink") /\ UNCHANGED <<file, str>> /\ vol' = u.d
      /\ op' = [op EXCEPT ![p].pc = "free", ![p].next = None,
                          ![p].cur = IF u.ok THEN op[p].next ELSE None]
    BY <1>1, <1>2 DEF Unlink
<1>4. /\ op[p].pc = "unlink" /\ op[p] \in Op /\ op \in [Procs -> Op] /\ Good(vol) /\ c \in Link
      /\ op[p].next \in Link /\ op[p].job # "none" /\ broken' = broken
    BY <1>1, <1>3, Typing DEF At, Known
<1>5. DirSound
    BY <1>4, IsIntact
<1>6. PICK T : T = TableOf(vol)
    OBVIOUS
<1>7. PICK U : U = TableOf(vol')
    OBVIOUS
<1>8. CallLaid(T, root, file, op[p], str[p]) /\ op[p].victim = None
    BY <1>4, <1>6 DEF Laid, CallsLaid, DirInv, CallsSound, VictimsKnown
<1>9. SameDir
    <2>1. Moves(vol, vol', FatSectors)
        BY <1>2, <1>3, <1>4, MarksAreWords, UpdateFatIs
    <2> QED
        BY <2>1, DirStays, Geometry
<1>10. /\ x \in Op /\ x.pc = "free" /\ x.of = op[p].of /\ x.job = op[p].job /\ x.victim = None
       /\ x.len = op[p].len /\ x.cur = IF u.ok THEN op[p].next ELSE None
    <2>1. op[p].next \in Int
        BY <1>4, LinkIsInt
    <2>2. None \in Int
        BY DEF None
    <2> QED
        BY <1>4, <1>8, <2>1, <2>2 DEF Op
<1>11. op' = [op EXCEPT ![p] = x]
    BY <1>3, <1>4 DEF Op
<1>12. Typed(T)
    BY <1>4, <1>6, TableTyped
<1> HIDE DEF x
<1>13. CASE u.ok
    <2>1. c \in Clusters
        BY <1>2, <1>4, <1>13, UpdateNowhere DEF Link
    <2>2. U = [T EXCEPT ![c] = None]
        BY <1>2, <1>3, <1>4, <1>6, <1>7, <1>13, <2>1, UpdateFatSets, MarksAreWords, EntryPlace
    <2>3. x.cur = op[p].next /\ UNCHANGED <<file, str>> /\ Laid(T, root, at)
        BY <1>3, <1>6, <1>10, <1>13
    <2>4. /\ T[c] # None /\ \A e \in Clusters : T[e] # c
          /\ Laid(U, root, at)'
        BY <1>1, <1>4, <1>5, <1>9, <1>10, <1>11, <1>12, <2>1, <2>2, <2>3, UnlinkedLaid
    <2>5. LaidOut'
        BY <1>7, <2>4, LaidIsOut
    <2> QED
        BY <1>6, <1>7, <2>1, <2>2, <2>4, <2>5 DEF May
<1>14. CASE ~u.ok
    <2>1. U = T
        <3>1. CASE c \in Clusters
            BY <1>2, <1>3, <1>4, <1>6, <1>7, <1>14, <3>1, UpdateFatSets, MarksAreWords, EntryPlace
        <3>2. CASE c \in {None, Failed}
            <4>1. Moves(vol, vol', {})
                BY <1>2, <1>3, <1>4, <3>2, UpdateNowhere
            <4> QED
                BY <1>6, <1>7, <4>1, TableStays
        <3> QED
            BY <1>4, <3>1, <3>2 DEF Link
    <2>2. x.cur = None /\ x.cur \notin Clusters
        BY <1>10, <1>14, EntryPlace
    <2>3. Freeing(x) /\ Freeing(op[p]) /\ \A q \in Procs : CutsOff(op[p], str[q]) => CutsOff(x, str[q])
        BY <1>4, <1>10 DEF Freeing, CutsOff
    <2>4. CallLaid(T, root, file', x, str[p])
        BY <1>3, <1>4, <1>8, <1>10, <2>2 DEF CallLaid, Freeing, CutFree
    <2>5. T = TableOf(vol')
        BY <1>7, <2>1
    <2>6. LaidOut'
        <3>1. x.of = op[p].of /\ (x.job = "discard" <=> op[p].job = "discard") /\ x.pc # "oldentry"
            BY <1>10
        <3>2. str' = str /\ file' = file /\ Laid(T, root, at) /\ x.victim = None /\ x \in Op
            BY <1>3, <1>6, <1>10
        <3> QED
            BY <1>4, <1>9, <1>11, <2>2, <2>3, <2>4, <2>5, <3>1, <3>2, GoesLaid
    <2> QED
        BY <1>6, <2>5, <2>6 DEF May
<1> QED
    BY <1>13, <1>14

\* Streams beyond the end of their file that is cut short.
Beyond(q, b, len) == str[q].of = b /\ str[q].pos > len
Shortened(b, len) ==
    /\ \A a \in Bindings : /\ file'[a].slot = file[a].slot /\ file'[a].removed = file[a].removed
                           /\ file'[a].first = file[a].first
                           /\ a # b => file'[a].size = file[a].size
    /\ file'[b].size = len
Gathered(p, b, len) ==
    \A q \in Procs : /\ str'[q].of = str[q].of
                     /\ IF Beyond(q, b, len) THEN str'[q].pos = len /\ str'[q].last = str[p].last
                        ELSE str'[q] = str[q]

\* ftruncate is over: the streams beyond the new end are where its own is.
LEMMA RewoundLaid ==
    ASSUME IInv, DirInv, DirSound, NEW T, NEW root, NEW at, Laid(T, root, at), SameDir,
           NEW p \in Procs, op[p].pc = "free", op[p].job = "trunc", NEW b, b = op[p].of,
           NEW len, len = op[p].len, op' = [op EXCEPT ![p] = Idle],
           Shortened(b, len), Gathered(p, b, len)
    PROVE  Laid(T, root, at)'
<1>0. /\ \A a \in Bindings : /\ file'[a].slot = file[a].slot /\ file'[a].removed = file[a].removed
                             /\ file'[a].first = file[a].first
                             /\ a # b => file'[a].size = file[a].size
      /\ file'[b].size = len
    BY DEF Shortened
<1> USE <1>0
<1>00. \A q \in Procs : /\ str'[q].of = str[q].of
                        /\ IF Beyond(q, b, len) THEN str'[q].pos = len /\ str'[q].last = str[p].last
                           ELSE str'[q] = str[q]
    BY DEF Gathered
<1> USE <1>00
<1>1. /\ CallLaid(T, root, file, op[p], str[p]) /\ op[p].victim = None /\ StreamsLaid(root, at)
      /\ Chained(T, root, at) /\ Rooted(Firsts, root, at) /\ Apart(Claims(root)) /\ EntriesLaid
      /\ CallsLaid(T, root)
    BY DEF Laid, CallsLaid, DirInv, CallsSound, VictimsKnown
<1>2. /\ str[p].of = b /\ str[p].pos = len /\ len <= file[b].size
    BY <1>1 DEF CallLaid
<1>3. b \in Bindings \ Unbound /\ b # None /\ len \in Nat
    BY <1>2, InUse, Typing, BindingsAssumption
<1>4. \A q \in Procs : op[q].pc # "idle" /\ op[q].of = b =>
          q = p /\ (Freeing(op[q]) => str[p].pos = op[q].len)
    <2>1. ASSUME NEW q \in Procs, q # p, op[q].pc # "idle" PROVE op[q].of # b
        BY <2>1 DEF Laid, CallsLaid, TwoCalls
    <2> QED
        BY <1>2, <2>1
<1>5. str[p].pos # 0 => /\ p \in Standing /\ Stands(root, at, str[p])
                        /\ <<Token(b), root[str[p].last]>> \in Claims(root)
    BY <1>2, <1>3, <1>4, OwnStream
<1>6. /\ Live' = Live /\ Holding' = Holding /\ Closed' = Closed
      /\ \A a \in Bindings : Token(a)' = Token(a)
    <2>1. /\ Idle \in Op /\ Idle.of = None /\ Idle.victim = None /\ Idle.job = "none" /\ Idle.pc = "idle"
        BY IdleIs DEF Idle
    <2>2. SameNames
        BY SameDirNames
    <2> QED
        BY <1>1, <1>2, <2>1, <2>2, SameFiles
<1>7. Firsts' = Firsts
    BY <1>6, SameFirsts DEF SameDir
<1>8. \A q \in Procs : op'[q] = IF q = p THEN Idle ELSE op[q]
    BY DEF IInv, CallsTyped
<1>9. ASSUME NEW q \in Standing', ~Beyond(q, b, len) PROVE q \in Standing /\ str'[q] = str[q]
    <2>1. q \in Procs /\ str'[q] = str[q]
        BY <1>9 DEF Standing
    <2>2. ASSUME NEW r \in Procs PROVE ~CutsOff(op[r], str[q])
        <3>1. CASE r = p
            BY <1>9, <3>1 DEF CutsOff, Beyond
        <3>2. CASE r # p
            <4>1. ~CutsOff(op'[r], str'[q])
                BY DEF Standing
            <4> QED
                BY <1>8, <2>1, <3>2, <4>1
        <3> QED
            BY <3>1, <3>2
    <2> QED
        BY <2>1, <2>2 DEF Standing
<1>10. ASSUME NEW q \in Standing', Beyond(q, b, len)
       PROVE  /\ str[q].of = b /\ str'[q].of = b /\ str'[q].pos = str[p].pos /\ str'[q].last = str[p].last
              /\ str[p].pos # 0
    <2>1. q \in Procs /\ str'[q].pos > 0
        BY DEF Standing
    <2> QED
        BY <1>2, <1>10, <2>1 DEF Beyond
<1>11. StreamsLaid(root, at)'
    <2>1. ASSUME NEW q \in Procs, str'[q].of # None PROVE str'[q].pos <= file'[str'[q].of].size
        <3>1. str[q].of \in Bindings /\ str'[q].of = str[q].of /\ str[q].pos \in Nat
              /\ str[q].pos <= file[str[q].of].size
            BY <1>1, <2>1, Typing DEF StreamsLaid
        <3>2. CASE Beyond(q, b, len)
            BY <1>3, <3>1, <3>2 DEF Beyond
        <3>3. CASE ~Beyond(q, b, len) /\ str[q].of = b
            BY <1>3, <3>1, <3>3 DEF Beyond
        <3>4. CASE str[q].of # b
            BY <3>1, <3>4 DEF Beyond
        <3> QED
            BY <3>2, <3>3, <3>4
    <2>2. ASSUME NEW q \in Standing' PROVE Stands(root, at, str'[q])
        <3>1. CASE Beyond(q, b, len)
            BY <1>5, <1>10, <3>1 DEF Stands
        <3>2. CASE ~Beyond(q, b, len)
            BY <1>1, <1>9, <3>2 DEF StreamsLaid
        <3> QED
            BY <3>1, <3>2
    <2> QED
        BY <2>1, <2>2 DEF StreamsLaid
<1>12. Apart(Claims(root)')
    <2>1. ASSUME NEW z \in Claims(root)' PROVE z \in Claims(root)
        <3>1. CASE z \in Firsts'
            BY <1>7, <3>1 DEF Claims
        <3>2. CASE z \notin Firsts'
            <4>1. PICK q \in Standing' : z = <<Token(str[q].of)', root[str'[q].last]>>
                BY <2>1, <3>2 DEF Claims
            <4>2. q \in Procs /\ str'[q].of = str[q].of /\ str[q].of \in Bindings
                BY Typing DEF Standing
            <4>3. Token(str[q].of)' = Token(str[q].of)
                BY <4>2 DEF Token
            <4>4. CASE Beyond(q, b, len)
                <5>1. str[q].of = b /\ root[str'[q].last] = root[str[p].last] /\ str[p].pos # 0
                    BY <1>10, <4>4
                <5> QED
                    BY <1>5, <4>1, <4>3, <5>1
            <4>5. CASE ~Beyond(q, b, len)
                <5>1. q \in Standing /\ str'[q] = str[q]
                    BY <1>9, <4>5
                <5> QED
                    BY <4>1, <4>3, <5>1 DEF Claims
            <4> QED
                BY <4>4, <4>5
        <3> QED
            BY <3>1, <3>2
    <2> QED
        BY <1>1, <2>1 DEF Apart
<1>13. EntriesLaid'
    <2>1. Idle \in Op /\ Idle.pc # "oldentry"
        BY IdleIs
    <2> QED
        BY <1>1, <1>6, <2>1, EntriesStay
<1>14. ASSUME NEW q \in Procs, q # p PROVE CallLaid(T, root, file', op[q], str'[q])
    <2>1. CallLaid(T, root, file, op[q], str[q]) /\ TwoCalls(op[p], op[q])
        BY <1>1, <1>14 DEF CallsLaid
    <2>2. CASE op[q].pc = "idle"
        <3>1. op[q] = Idle
            BY <2>2 DEF DirInv, CallsSound, IdleKnown
        <3> QED
            BY <3>1, IdleLaid
    <2>3. CASE op[q].pc # "idle"
        <3>1. op[q].of # b /\ op[q].of \in Bindings
            BY <2>1, <2>3, Typing DEF TwoCalls, Known
        <3>2. str[q].of = op[q].of
            <4>1. ~Exclusive(op[q])
                <5>1. ~Exclusive(op[p])
                    BY DEF Exclusive
                <5> QED
                    BY <1>14, <2>3, <5>1 DEF IInv, LockHeld
            <4>2. op[q].pc = "alloc" \/ op[q].job = "trunc"
                BY <2>3, <4>1, Typing DEF Exclusive, Known, Op
            <4> QED
                BY <2>1, <4>2 DEF CallLaid
        <3>3. str'[q] = str[q]
            BY <3>1, <3>2 DEF Beyond
        <3>4. Freeing(op[q]) /\ op[q].cur \in Clusters =>
                  root[op[q].cur] = None /\ \A e \in Clusters : T[e] # op[q].cur
            BY <2>1 DEF CallLaid, CutFree
        <3>5. /\ file'[op[q].of].first = file[op[q].of].first /\ file'[op[q].of].size = file[op[q].of].size
              /\ file'[op[q].of].removed = file[op[q].of].removed
            BY <3>1
        <3> QED
            BY <2>1, <3>3, <3>4, <3>5, CallStays
    <2> QED
        BY <2>2, <2>3
<1>15. CallsLaid(T, root)'
    <2>1. Idle \in Op /\ \A q \in Procs : TwoCalls(Idle, op[q])
        BY IdleIs DEF TwoCalls
    <2>2. CallLaid(T, root, file', Idle, str'[p])
        BY IdleLaid
    <2> QED
        BY <1>1, <1>14, <2>1, <2>2, CallsStay
<1> QED
    BY <1>1, <1>7, <1>11, <1>12, <1>13, <1>15 DEF Laid

\* A truncation is over, or a chain is free.
LEMMA FreedLaid ==
    ASSUME IInv, DirInv, Intact', NEW root, NEW at, Laid(TableOf(vol), root, at), NEW p \in Procs, Freed(p)
    PROVE  LaidOut' /\ TableOf(vol') = TableOf(vol)
<1>1. PICK T : T = TableOf(vol)
    OBVIOUS
<1>2. PICK b : b = op[p].of
    OBVIOUS
<1>3. /\ At(p, "free") /\ op[p].cur = None /\ vol' = vol
      /\ CASE op[p].job = "discard" -> Goto(p, "commit") /\ UNCHANGED <<file, str>>
           [] op[p].job \in {"close", "sync"} ->
                  /\ file' = [file EXCEPT ![b].trunc = FALSE]
                  /\ Goto(p, "closewrite") /\ UNCHANGED str
           [] OTHER ->
                  /\ file' = [file EXCEPT ![b].trunc = FALSE, ![b].size = op[p].len]
                  /\ str' = IF op[p].len < file[b].size THEN Rewound(str, p, op[p].len) ELSE str
                  /\ op' = [op EXCEPT ![p] = Idle]
    BY <1>2 DEF Freed
<1>4. /\ op[p].pc = "free" /\ op[p] \in Op /\ op \in [Procs -> Op] /\ Good(vol) /\ broken' = broken
      /\ op[p].job \in {"trunc", "sync", "close", "discard"} /\ b \in Bindings
    BY <1>2, <1>3, Typing DEF At, Known, Op
<1>5. CallLaid(T, root, file, op[p], str[p]) /\ op[p].victim = None /\ StreamsLaid(root, at)
    BY <1>1, <1>4 DEF Laid, CallsLaid, DirInv, CallsSound, VictimsKnown
<1>6. SameDir /\ T = TableOf(vol') /\ Laid(T, root, at)
    BY <1>1, <1>3 DEF SameDir
<1>7. FilesTyped /\ file[b] \in Object
    BY <1>4, Typing, ObjectFields
<1>8. CASE op[p].job = "discard"
    <2> DEFINE x == [op[p] EXCEPT !.pc = "commit"]
    <2>1. /\ x \in Op /\ x.pc = "commit" /\ x.of = op[p].of /\ x.job = "discard" /\ x.victim = None
        BY <1>4, <1>5, <1>8 DEF Op
    <2>2. op' = [op EXCEPT ![p] = x] /\ str' = str /\ file' = file
        BY <1>3, <1>8 DEF Goto
    <2> HIDE DEF x
    <2>3. CallLaid(T, root, file', x, str[p])
        BY <1>4, <1>5, <1>8, <2>1, <2>2 DEF CallLaid, Freeing
    <2>4. ~Freeing(x) /\ \A q \in Procs : ~CutsOff(op[p], str[q])
        BY <1>8, <2>1 DEF Freeing, CutsOff
    <2>5. LaidOut'
        BY <1>4, <1>6, <1>8, <2>1, <2>2, <2>3, <2>4, GoesLaid
    <2> QED
        BY <1>1, <1>6, <2>5
<1>9. CASE op[p].job \in {"close", "sync"}
    <2> DEFINE x == [op[p] EXCEPT !.pc = "closewrite"]
    <2>1. /\ x \in Op /\ x.pc = "closewrite" /\ x.of = op[p].of /\ x.job = op[p].job /\ x.victim = None
        BY <1>4, <1>5 DEF Op
    <2>2. op' = [op EXCEPT ![p] = x] /\ str' = str /\ file' = [file EXCEPT ![b].trunc = FALSE]
        BY <1>3, <1>9 DEF Goto
    <2> HIDE DEF x
    <2>3. \A a \in Bindings : /\ file'[a].slot = file[a].slot /\ file'[a].removed = file[a].removed
                              /\ file'[a].first = file[a].first /\ file'[a].size = file[a].size
        BY <1>4, <1>7, <2>2 DEF FilesTyped, Object
    <2>4. CallLaid(T, root, file', x, str[p])
        BY <1>4, <1>5, <1>9, <2>1 DEF CallLaid, Freeing
    <2>5. ASSUME NEW q \in Procs PROVE ~CutsOff(op[p], str[q])
        <3>1. SUFFICES ASSUME str[q].of = b, str[q].pos > op[p].len PROVE FALSE
            BY <1>2 DEF CutsOff
        <3>2. str[q].pos <= file[b].size /\ op[p].len = file[b].size
            BY <1>2, <1>4, <1>5, <1>9, <3>1, BindingsAssumption DEF StreamsLaid, CallLaid
        <3>3. str[q].pos \in Nat /\ file[b].size \in Nat
            BY <1>4, Typing, ObjectFields
        <3> QED
            BY <3>1, <3>2, <3>3
    <2>6. ~Freeing(x) /\ x.pc # "oldentry" /\ x.job # "discard" /\ op[p].job # "discard"
        BY <1>9, <2>1 DEF Freeing
    <2>7. LaidOut'
        BY <1>4, <1>6, <2>1, <2>2, <2>3, <2>4, <2>5, <2>6, GoesLaid
    <2> QED
        BY <1>1, <1>6, <2>7
<1>10. CASE op[p].job = "trunc"
    <2>1. PICK len : len = op[p].len
        OBVIOUS
    <2>2. /\ file' = [file EXCEPT ![b].trunc = FALSE, ![b].size = len]
          /\ str' = IF len < file[b].size THEN Rewound(str, p, len) ELSE str
          /\ op' = [op EXCEPT ![p] = Idle]
        BY <1>3, <1>10, <2>1
    <2>3. Shortened(b, len)
        BY <1>4, <1>7, <2>2 DEF FilesTyped, Object, Shortened
    <2>4. str[p].of = b /\ str[p].pos = len /\ len <= file[b].size /\ len \in Nat /\ file[b].size \in Nat
        BY <1>2, <1>4, <1>5, <1>10, <2>1, Typing, ObjectFields DEF CallLaid
    <2>5. ASSUME NEW q \in Procs
          PROVE  /\ str'[q].of = str[q].of
                 /\ IF Beyond(q, b, len) THEN str'[q].pos = len /\ str'[q].last = str[p].last
                    ELSE str'[q] = str[q]
        <3>1. str[q] \in Stream /\ str[q].pos \in Nat
            BY Typing
        <3>2. CASE len < file[b].size
            BY <2>2, <2>4, <3>1, <3>2 DEF Rewound, Beyond, Stream
        <3>3. CASE len = file[b].size
            <4>1. ~Beyond(q, b, len)
                BY <1>4, <1>5, <2>4, <3>1, <3>3, BindingsAssumption DEF Beyond, StreamsLaid
            <4> QED
                BY <2>2, <2>4, <3>3, <4>1
        <3> QED
            BY <2>4, <3>2, <3>3
    <2>8. Gathered(p, b, len)
        BY <2>5 DEF Gathered
    <2>6. DirSound
        BY <1>4, IsIntact
    <2>7. Laid(T, root, at)'
        BY <1>2, <1>4, <1>6, <1>10, <2>1, <2>2, <2>3, <2>6, <2>8, RewoundLaid
    <2> QED
        BY <1>1, <1>6, <2>7, LaidIsOut
<1> QED
    BY <1>4, <1>8, <1>9, <1>10

\* The calls, when one goes on alone.
LEMMA AloneCalls ==
    ASSUME IInv, NEW p \in Procs, NEW x \in Op, op' = [op EXCEPT ![p] = x],
           \A q \in Procs : q # p => op[q] = Idle, NEW U, NEW w, CallLaid(U, w, file', x, str'[p])
    PROVE  CallsLaid(U, w)'
<1>1. \A q \in Procs : op'[q] = IF q = p THEN x ELSE Idle
    BY DEF IInv, CallsTyped
<1>2. \A q \in Procs : CallLaid(U, w, file', op'[q], str'[q])
    BY <1>1, IdleLaid
<1>3. \A q, r \in Procs : q # r => TwoCalls(op'[q], op'[r])
    BY <1>1, IdleIs DEF TwoCalls
<1> QED
    BY <1>2, <1>3 DEF CallsLaid

\* A call that has the filesystem's lock is alone.
LEMMA AloneAt ==
    ASSUME IInv, DirInv, NEW p \in Procs, Exclusive(op[p])
    PROVE  \A q \in Procs : q # p => op[q] = Idle
BY DEF IInv, LockHeld, DirInv, CallsSound, IdleKnown

\* Which streams stand somewhere, when none is beyond an end.
LEMMA StandingIs ==
    ASSUME IInv, NEW p \in Procs, \A q \in Procs : q # p => op[q] = Idle,
           Freeing(op[p]) => op[p].job = "discard"
    PROVE  Standing = {q \in Procs : str[q].of # None /\ str[q].pos > 0}
<1>1. ASSUME NEW q \in Procs, NEW r \in Procs PROVE ~CutsOff(op[r], str[q])
    BY DEF CutsOff, Freeing, Idle
<1> QED
    BY <1>1 DEF Standing

\* The chain of the file a call writes the entry of.
LEMMA FileFirst ==
    ASSUME IInv, DirInv, NEW T, NEW root, NEW at, Laid(T, root, at), NEW p \in Procs,
           op[p].pc = "closewrite", NEW b, b = op[p].of, NEW f, f = file[b].first, f # None
    PROVE  /\ b \in Bindings \ Unbound /\ b # None /\ b \in Holding
           /\ f \in Clusters /\ root[f] = f /\ <<Token(b), f>> \in Claims(root)
<1>1. CallLaid(T, root, file, op[p], str[p])
    BY DEF Laid, CallsLaid
<1>2. op[p].job \in {"sync", "close"} /\ b \in Bindings /\ str[p].of = b
    BY <1>1, Typing DEF CallLaid, Known
<1>3. \A q \in Procs : q # p => op[q] = Idle
    BY <1>2, AloneAt DEF Exclusive
<1>4. \A q \in Procs : op[q].pc # "idle" /\ op[q].of = b =>
          q = p /\ (Freeing(op[q]) => str[p].pos = op[q].len)
    BY <1>3, IdleIs DEF Freeing
<1>5. b # None
    BY <1>2, BindingsAssumption
<1>6. file[b].first # None => /\ file[b].first \in Clusters
                              /\ root[file[b].first] = file[b].first /\ at[file[b].first] = 1
                              /\ <<Token(b), file[b].first>> \in Claims(root)
    BY <1>2, <1>4, <1>5, OwnStream
<1>7. b \in Bindings \ Unbound /\ b \in Holding
    BY <1>2, <1>4, <1>5, OwnStream
<1> QED
    BY <1>5, <1>6, <1>7

\* The file's object and the stream of the call, once it has no cluster.
Vacated(p, b) ==
    /\ file' = [file EXCEPT ![b].first = None]
    /\ str' = [str EXCEPT ![p].pos = 0, ![p].last = None]

\* The first cluster of a file is freed, with no stream in the file.
LEMMA EmptiedLaid ==
    ASSUME IInv, DirInv, DirSound, NEW T, NEW root, NEW at, Laid(T, root, at), Typed(T), SameDir,
           NEW p \in Procs, op[p].pc = "closewrite", NEW b, b = op[p].of, file[b].size = 0,
           NEW f, f = file[b].first, f # None, NEW U, U = [T EXCEPT ![f] = None],
           NEW x \in Op, op' = [op EXCEPT ![p] = x], x.pc = "entry", x.of = b, x.job = op[p].job,
           x.victim = None, Vacated(p, b)
    PROVE  \E w : Laid(U, w, at)'
<1> DEFINE w == Without(root, f)
<1>1. /\ CallLaid(T, root, file, op[p], str[p]) /\ op[p].victim = None /\ Chained(T, root, at)
      /\ Rooted(Firsts, root, at) /\ Apart(Claims(root)) /\ StreamsLaid(root, at) /\ EntriesLaid
    BY DEF Laid, CallsLaid, DirInv, CallsSound, VictimsKnown
<1>2. op[p].job \in {"sync", "close"} /\ b \in Bindings /\ str[p].of = b /\ str[p] \in Stream
    BY <1>1, Typing DEF CallLaid, Known
<1>3. \A q \in Procs : q # p => op[q] = Idle
    BY AloneAt DEF Exclusive
<1>4. b \in Bindings \ Unbound /\ b # None /\ b \in Holding
      /\ f \in Clusters /\ root[f] = f /\ <<Token(b), f>> \in Claims(root)
    BY FileFirst
<1>5. T[f] # None /\ \A e \in Clusters : T[e] # f
    BY <1>1, <1>4, FirstUnlinked DEF Chained
<1>6. /\ \A c \in Clusters : w[c] = IF root[c] = f THEN None ELSE root[c]
      /\ w[f] = None
    BY <1>4 DEF Without
<1>7. Chained(U, w, at)
    <2>1. Chained(T, w, at)
        BY <1>1, <1>4, ChainDrop
    <2> HIDE DEF w
    <2> QED
        BY <1>4, <1>5, <1>6, <2>1, ChainFree
<1> HIDE DEF w
<1>8. /\ \A a \in Bindings : /\ file'[a].slot = file[a].slot /\ file'[a].removed = file[a].removed
                             /\ file'[a].size = file[a].size /\ (a # b => file'[a].first = file[a].first)
      /\ file'[b].first = None
      /\ \A q \in Procs : str'[q].of = str[q].of /\ (q # p => str'[q] = str[q])
      /\ str'[p].pos = 0
    <2>1. file[b] \in Object /\ FilesTyped
        BY <1>2, Typing, ObjectFields
    <2> QED
        BY <1>2, <2>1 DEF FilesTyped, Object, Stream, Vacated
<1>9. /\ Live' = Live /\ Holding' = Holding /\ Closed' = Closed
      /\ \A a \in Bindings : Token(a)' = Token(a)
    <2>1. SameNames
        BY SameDirNames
    <2> QED
        BY <1>1, <1>2, <1>8, <2>1, SameFiles
<1>10. ASSUME NEW z \in Firsts', z[2] # None PROVE z \in Firsts /\ z[1] # Token(b)
    <2>1. CASE z \in {<<Token(a), file[a].first>> : a \in Holding}'
        <3>1. PICK a \in Holding : z = <<Token(a), file'[a].first>>
            BY <1>9, <2>1 DEF Holding
        <3>2. a # b /\ a \in Bindings \ Unbound /\ file'[a].first = file[a].first
            BY <1>8, <1>10, <3>1 DEF Holding
        <3>3. Token(a) # Token(b)
            BY <1>4, <3>2, TokensApart
        <3> QED
            BY <3>1, <3>2, <3>3 DEF Firsts
    <2>2. CASE z \in {<<<<0, s>>, Entry(s).first>> : s \in Closed}'
        <3>1. PICK s \in Closed : z = <<<<0, s>>, Entry(s).first>>
            BY <1>9, <2>2 DEF SameDir, Entry
        <3>2. <<0, s>> # Token(b)
            BY <1>4, TokensApart
        <3> QED
            BY <3>1, <3>2 DEF Firsts
    <2> QED
        BY <2>1, <2>2 DEF Firsts
<1>11. Rooted(Firsts', w, at)
    <2> SUFFICES ASSUME NEW z \in Firsts', z[2] # None PROVE w[z[2]] = z[2] /\ at[z[2]] = 1
        BY DEF Rooted
    <2>1. z \in Firsts /\ z[1] # Token(b)
        BY <1>10
    <2>2. z[2] \in Clusters /\ root[z[2]] = z[2] /\ at[z[2]] = 1
        BY <1>1, <2>1, FirstsTyped DEF Rooted
    <2>3. z[2] # f
        <3> DEFINE y == <<Token(b), f>>
        <3>1. y \in Claims(root) /\ y[1] = Token(b) /\ y[2] = f /\ z \in Claims(root)
            BY <1>4, <2>1 DEF Claims
        <3> HIDE DEF y
        <3> QED
            BY <1>1, <2>1, <3>1 DEF Apart
    <2> QED
        BY <1>6, <2>2, <2>3
<1>12. ASSUME NEW q \in Standing' PROVE q \in Standing /\ q # p /\ str'[q] = str[q]
                                         /\ Stands(w, at, str[q]) /\ w[str[q].last] = root[str[q].last]
    <2>1. q \in Procs /\ str'[q].pos > 0 /\ str'[q].of # None
        BY DEF Standing
    <2>2. q # p /\ str'[q] = str[q]
        <3>1. q # p
            BY <1>8, <2>1
        <3> QED
            BY <1>8, <2>1, <3>1
    <2>3. Standing = {r \in Procs : str[r].of # None /\ str[r].pos > 0}
        BY <1>3, StandingIs DEF Freeing
    <2>4. q \in Standing
        BY <2>1, <2>2, <2>3
    <2>5. str[q].of # b
        <3>1. str[q].pos <= file[str[q].of].size /\ str[q].pos > 0 /\ str[q].pos \in Nat
            BY <1>1, <2>1, <2>2, Typing DEF StreamsLaid
        <3> QED
            BY <3>1
    <2>6. Stands(root, at, str[q]) /\ <<Token(str[q].of), root[str[q].last]>> \in Claims(root)
        BY <1>1, <2>4 DEF StreamsLaid, Claims
    <2>7. PICK m \in Clusters : m = str[q].last /\ root[m] # None /\ at[m] = str[q].pos
        BY <2>6 DEF Stands
    <2>8. str[q].of \in Bindings \ Unbound
        BY <2>1, <2>2, InUse
    <2>9. root[m] # f
        BY <1>1, <1>4, <2>5, <2>6, <2>7, <2>8, OneOwner
    <2>10. w[m] = root[m]
        BY <1>6, <2>9
    <2> QED
        BY <2>2, <2>4, <2>7, <2>10 DEF Stands
<1>13. StreamsLaid(w, at)'
    <2>1. ASSUME NEW q \in Procs, str'[q].of # None PROVE str'[q].pos <= file'[str'[q].of].size
        <3>1. str[q].of \in Bindings /\ str[q].of = str'[q].of /\ str[q].pos <= file[str[q].of].size
              /\ file'[str[q].of].size = file[str[q].of].size /\ file[str[q].of].size \in Nat
            BY <1>1, <1>8, <2>1, Typing, ObjectFields DEF StreamsLaid
        <3>2. CASE q = p
            BY <1>8, <3>1, <3>2
        <3>3. CASE q # p
            BY <1>8, <3>1, <3>3
        <3> QED
            BY <3>2, <3>3
    <2>2. \A q \in Standing' : Stands(w, at, str'[q])
        BY <1>12
    <2> QED
        BY <2>1, <2>2 DEF StreamsLaid
<1>14. Apart(Claims(w)')
    <2>1. ASSUME NEW z \in Claims(w)' PROVE z[2] = None \/ z \in Claims(root)
        <3>1. CASE z \in Firsts'
            BY <1>10, <3>1 DEF Claims
        <3>2. CASE z \notin Firsts'
            <4>1. PICK q \in Standing' : z = <<Token(str[q].of)', w[str'[q].last]>>
                BY <2>1, <3>2 DEF Claims
            <4>2. q \in Standing /\ str'[q] = str[q] /\ str[q].of \in Bindings
                  /\ w[str[q].last] = root[str[q].last]
                BY <1>12, Typing DEF Standing
            <4>3. Token(str[q].of)' = Token(str[q].of)
                BY <1>8, <4>2 DEF Token
            <4> QED
                BY <4>1, <4>2, <4>3 DEF Claims
        <3> QED
            BY <3>1, <3>2
    <2> QED
        BY <1>1, <2>1, ApartFewer
<1>15. \A q \in Procs : op'[q] = IF q = p THEN x ELSE Idle
    BY <1>3 DEF IInv, CallsTyped
<1>16. EntriesLaid'
    <2>1. \A a \in Bindings : file'[a].removed => file'[a].slot = NoSlot
        BY <1>1, <1>8 DEF EntriesLaid
    <2>2. ASSUME NEW a \in Live', \A q \in Procs : op'[q].pc = "entry" => op'[q].of # a
          PROVE  Contents(vol', Dir)[file'[a].slot].first \in {None, file'[a].first}
        <3>1. a \in Live /\ a \in Bindings /\ a # b
            BY <1>9, <1>15, <2>2 DEF Live
        <3>2. \A q \in Procs : op[q].pc = "entry" => op[q].of # a
            BY <1>3, IdleIs
        <3>3. Entry(file[a].slot).first \in {None, file[a].first}
            BY <1>1, <3>1, <3>2 DEF EntriesLaid, EntryLaid
        <3> QED
            BY <1>8, <3>1, <3>3 DEF SameDir, Entry
    <2>3. \A q \in Procs : op'[q].pc # "oldentry"
        BY <1>15, IdleIs
    <2> QED
        BY <2>1, <2>2, <2>3 DEF EntriesLaid, EntryLaid, Entry
<1>17. CallLaid(U, w, file', x, str'[p])
    BY <1>2, <1>8 DEF CallLaid, Freeing
<1>18. CallsLaid(U, w)'
    BY <1>3, <1>17, AloneCalls
<1>19. Laid(U, w, at)'
    BY <1>7, <1>11, <1>13, <1>14, <1>16, <1>18 DEF Laid
<1> QED
    BY <1>19

\* fat_closewrite.
LEMMA CloseWriteLaid ==
    ASSUME IInv, DirInv, Intact', NEW root, NEW at, Laid(TableOf(vol), root, at), NEW p \in Procs, CloseWrite(p)
    PROVE  LaidOut' /\ May(TableOf(vol), TableOf(vol'))
<1>1. PICK T : T = TableOf(vol)
    OBVIOUS
<1>2. PICK U : U = TableOf(vol')
    OBVIOUS
<1>3. PICK b : b = op[p].of
    OBVIOUS
<1>4. PICK f : f = file[b].first
    OBVIOUS
<1>5. PICK u : u = UpdateFat(vol, f, None)
    OBVIOUS
<1>6. /\ At(p, "closewrite")
      /\ IF file[b].size = 0 /\ f # None
         THEN /\ vol' = u.d
              /\ Goto(p, IF u.ok THEN "entry" ELSE "commit")
              /\ file' = IF u.ok THEN [file EXCEPT ![b].first = None] ELSE file
              /\ str' = IF u.ok THEN [str EXCEPT ![p].pos = 0, ![p].last = None] ELSE str
         ELSE Goto(p, "entry") /\ UNCHANGED <<vol, file, str>>
    BY <1>3, <1>4, <1>5 DEF CloseWrite
<1>7. /\ op[p].pc = "closewrite" /\ op[p] \in Op /\ op \in [Procs -> Op] /\ Good(vol)
      /\ op[p].job \in {"sync", "close"} /\ broken' = broken /\ b \in Bindings
    BY <1>3, <1>6, Typing DEF At, Known
<1>8. DirSound
    BY <1>7, IsIntact
<1>9. CallLaid(T, root, file, op[p], str[p]) /\ op[p].victim = None /\ Laid(T, root, at)
    BY <1>1, <1>7 DEF Laid, CallsLaid, DirInv, CallsSound, VictimsKnown
<1>10. ASSUME file[b].size = 0 /\ f # None
       PROVE  f \in Clusters /\ U = (IF u.ok THEN [T EXCEPT ![f] = None] ELSE T) /\ SameDir
    <2>1. f \in Clusters
        BY <1>4, <1>7, <1>10, ObjectFields
    <2>2. Moves(vol, vol', FatSectors)
        BY <1>5, <1>6, <1>7, <1>10, <2>1, EntryPlace, MarksAreWords, UpdateFatIs
    <2>3. SameDir
        BY <2>2, DirStays, Geometry
    <2>4. None \in Word /\ f # None
        BY <1>10, MarksAreWords
    <2>5. vol' = u.d
        BY <1>6, <1>10
    <2>6. U = IF u.ok THEN [T EXCEPT ![f] = None] ELSE T
        BY <1>1, <1>2, <1>5, <1>7, <2>1, <2>4, <2>5, UpdateFatSets
    <2> QED
        BY <2>1, <2>3, <2>6
<1>11. CASE file[b].size = 0 /\ f # None /\ u.ok
    <2> DEFINE x == [op[p] EXCEPT !.pc = "entry"]
    <2>1. x \in Op /\ x.pc = "entry" /\ x.of = b /\ x.job = op[p].job /\ x.victim = None
        BY <1>3, <1>7, <1>9 DEF Op
    <2>2. op' = [op EXCEPT ![p] = x]
        BY <1>6, <1>11 DEF Goto
    <2> HIDE DEF x
    <2>3. Vacated(p, b)
        BY <1>6, <1>11 DEF Vacated
    <2>4. U = [T EXCEPT ![f] = None] /\ SameDir /\ Typed(T)
        BY <1>1, <1>7, <1>10, <1>11, TableTyped
    <2>5. \E w : Laid(U, w, at)'
        BY <1>3, <1>4, <1>7, <1>8, <1>9, <1>11, <2>1, <2>2, <2>3, <2>4, EmptiedLaid
    <2>7. f \in Clusters /\ T[f] # None /\ \A e \in Clusters : T[e] # f
        <3>2. Laid(T, root, at) /\ op[p].pc = "closewrite" /\ f # None
            BY <1>7, <1>9, <1>11
        <3>1. /\ b \in Bindings \ Unbound /\ b # None /\ b \in Holding
              /\ f \in Clusters /\ root[f] = f /\ <<Token(b), f>> \in Claims(root)
            BY <1>3, <1>4, <3>2, FileFirst
        <3> QED
            BY <1>9, <1>11, <2>4, <3>1, FirstUnlinked DEF Laid, Chained
    <2>6. LaidOut'
        BY <1>2, <2>5, LaidIsOut
    <2> QED
        BY <1>1, <1>2, <2>4, <2>7, <2>6 DEF May
<1>12. CASE ~(file[b].size = 0 /\ f # None /\ u.ok)
    <2> DEFINE x == [op[p] EXCEPT !.pc = IF file[b].size = 0 /\ f # None THEN "commit" ELSE "entry"]
    <2>1. /\ x \in Op /\ x.pc \in {"entry", "commit"} /\ x.of = op[p].of /\ x.job = op[p].job
          /\ x.victim = None
        BY <1>7, <1>9 DEF Op
    <2>2. op' = [op EXCEPT ![p] = x] /\ str' = str /\ file' = file
        BY <1>6, <1>12 DEF Goto
    <2> HIDE DEF x
    <2>3. T = TableOf(vol') /\ SameDir
        <3>1. CASE file[b].size = 0 /\ f # None
            BY <1>2, <1>10, <1>12, <3>1
        <3>2. CASE ~(file[b].size = 0 /\ f # None)
            BY <1>1, <1>6, <3>2 DEF SameDir
        <3> QED
            BY <3>1, <3>2
    <2>4. CallLaid(T, root, file', x, str[p])
        BY <1>7, <1>9, <2>1 DEF CallLaid, Freeing
    <2>5. ~Freeing(x) /\ x.pc # "oldentry" /\ \A q \in Procs : ~CutsOff(op[p], str[q])
        BY <1>7, <2>1 DEF Freeing, CutsOff
    <2>6. LaidOut'
        BY <1>7, <1>9, <2>1, <2>2, <2>3, <2>4, <2>5, GoesLaid
    <2> QED
        BY <1>1, <2>3, <2>6 DEF May
<1> QED
    BY <1>11, <1>12

\* What fat_closewrite leaves in the directory.
EntrySet(b) ==
    /\ Moves(vol, vol', {Dir})
    /\ \A s \in Slots : /\ Contents(vol', Dir)[s].name = Entry(s).name
                        /\ Contents(vol', Dir)[s].first =
                               IF s = file[b].slot THEN file[b].first ELSE Entry(s).first

\* So it does, of a file that has an entry.
LEMMA EntryWritten ==
    ASSUME IInv, Dir \notin broken, NEW p \in Procs, WriteEntry(p), NEW b, b = op[p].of,
           file[b].slot # NoSlot => file[b].slot \in Named
    PROVE  EntrySet(b)
<1> DEFINE f == file[op[p].of]
           c == CacheSector(vol, Dir)
           old == c.d.buffer[c.e][f.slot]
           new == [old EXCEPT !.first = f.first, !.size = f.size]
           u == PutSlot(vol, f.slot, new)
<1>1. /\ At(p, "entry")
      /\ vol' = CASE f.slot = NoSlot -> vol
                  [] f.slot # NoSlot /\ c.e = NoEntry -> c.d
                  [] f.slot # NoSlot /\ c.e # NoEntry /\ old.name = NoName -> [c.d EXCEPT !.panic = TRUE]
                  [] OTHER -> u.d
    BY ZenonT(60) DEF WriteEntry
<1>2. op[p].pc = "entry" /\ op[p].of \in Bindings /\ Good(vol) /\ b \in Bindings
    BY <1>1, Typing, Zenon DEF At, Known
<1>3. Had(vol, Dir, c)
    BY <1>2, Geometry, CacheSectorHas
<1>4. f.slot \in {NoSlot} \cup Slots /\ f.first \in {None} \cup Clusters /\ f.size \in Nat
    BY <1>2, ObjectFields
<1>5. f = file[b]
    OBVIOUS
<1> HIDE DEF c, f
<1>6. c.e # NoEntry
    BY <1>3, Geometry DEF Had, IInv, VolKnown
<1>7. Good(c.d) /\ Contents(c.d, Dir) = Contents(vol, Dir)
    BY <1>3, Geometry DEF Had, Kept, SameContents
<1>8. CASE f.slot = NoSlot
    <2>1. vol' = vol
        BY <1>1, <1>8
    <2>2. NoSlot \notin Slots
        BY DEF NoSlot, Slots
    <2>3. Moves(vol, vol', {Dir})
        BY <1>2, <2>1, StillMoves
    <2> QED
        BY <1>5, <1>8, <2>1, <2>2, <2>3 DEF Entry, EntrySet
<1>9. CASE f.slot # NoSlot
    <2>1. c.e \in c.d.used /\ c.d.sector[c.e] = Dir /\ c.d.buffer[c.e] \in [Slots -> DirSlot]
        BY <1>3, <1>6, <1>7 DEF Had, Good, HeldOK, Data
    <2>2. Contents(vol, Dir) = c.d.buffer[c.e]
        BY <1>7, <2>1, ContentsIs, Geometry
    <2>3. old \in DirSlot /\ old = Contents(vol, Dir)[f.slot] /\ f.slot \in Slots
        BY <1>4, <1>9, <2>1, <2>2
    <2>4. old.name # NoName
        BY <1>5, <1>9, <2>3 DEF Named, Entry
    <2> HIDE DEF old
    <2>5. new \in DirSlot /\ new.name = Contents(vol, Dir)[f.slot].name /\ new.first = f.first
        BY <1>4, <2>3 DEF DirSlot
    <2>6. vol' = u.d
        BY <1>1, <1>6, <1>9, <2>4
    <2> HIDE DEF new
    <2>7. CacheSector(vol, Dir).e # NoEntry
        BY <1>6 DEF c
    <2>8. Moves(vol, u.d, {Dir}) /\ Contents(u.d, Dir) = [Contents(vol, Dir) EXCEPT ![f.slot] = new]
        BY <1>2, <2>5, <2>7, PutSlotIs
    <2> HIDE DEF u
    <2>9. Contents(vol, Dir) \in [Slots -> DirSlot]
        BY <2>1, <2>2
    <2>10. \A s \in Slots : Contents(vol', Dir)[s] = IF s = f.slot THEN new ELSE Entry(s)
        BY <2>6, <2>8, <2>9 DEF Entry
    <2>11. Moves(vol, vol', {Dir})
        BY <2>6, <2>8
    <2>12. \A s \in Slots : Contents(vol', Dir)[s].name = Entry(s).name
        BY <2>5, <2>10 DEF Entry
    <2>13. \A s \in Slots : Contents(vol', Dir)[s].first = IF s = f.slot THEN f.first ELSE Entry(s).first
        BY <2>5, <2>10
    <2> QED
        BY <1>5, <1>9, <2>11, <2>12, <2>13 DEF EntrySet
<1> QED
    BY <1>8, <1>9

\* An entry is written: it has its file's first cluster.
LEMMA WriteEntryLaid ==
    ASSUME IInv, DirInv, Intact', NEW root, NEW at, Laid(TableOf(vol), root, at), NEW p \in Procs,
           WriteEntry(p)
    PROVE  LaidOut' /\ TableOf(vol') = TableOf(vol)
<1>1. PICK T : T = TableOf(vol)
    OBVIOUS
<1>2. PICK b : b = op[p].of
    OBVIOUS
<1> DEFINE x == [op[p] EXCEPT !.pc = "commit"]
<1>3. At(p, "entry") /\ Goto(p, "commit") /\ UNCHANGED <<file, str>>
    BY Zenon DEF WriteEntry
<1>4. /\ op[p].pc = "entry" /\ op[p] \in Op /\ op \in [Procs -> Op] /\ broken' = broken
      /\ op[p].job \in {"sync", "close"} /\ b \in Bindings \ Unbound /\ b \in Bindings
    BY <1>2, <1>3, Typing, InUse DEF At, Known
<1>5. DirSound /\ Dir \notin broken
    BY <1>4, IsIntact DEF Intact
<1>6. /\ CallLaid(T, root, file, op[p], str[p]) /\ op[p].victim = None /\ Chained(T, root, at)
      /\ Rooted(Firsts, root, at) /\ Apart(Claims(root)) /\ StreamsLaid(root, at) /\ EntriesLaid
    BY <1>1, <1>4 DEF Laid, CallsLaid, DirInv, CallsSound, VictimsKnown
<1>7. x \in Op /\ x.pc = "commit" /\ x.of = b /\ x.job = op[p].job /\ x.victim = None
    BY <1>2, <1>4, <1>6 DEF Op
<1>8. op' = [op EXCEPT ![p] = x]
    BY <1>3 DEF Goto
<1> HIDE DEF x
<1>9. \A q \in Procs : q # p => op[q] = Idle
    BY <1>4, AloneAt DEF Exclusive
<1>10. \A q \in Procs : op'[q] = IF q = p THEN x ELSE Idle
    BY <1>8, <1>9 DEF IInv, CallsTyped
<1>11. file[b].slot # NoSlot => b \in Live
    BY <1>4, <1>6 DEF EntriesLaid, Live
<1>12. file[b].slot # NoSlot => file[b].slot \in Named
    BY <1>5, <1>11 DEF DirSound, Placed
<1>13. /\ Moves(vol, vol', {Dir})
       /\ \A s \in Slots : /\ Contents(vol', Dir)[s].name = Entry(s).name
                           /\ Contents(vol', Dir)[s].first =
                                  IF s = file[b].slot THEN file[b].first ELSE Entry(s).first
    <2>1. EntrySet(b)
        BY <1>2, <1>5, <1>12, EntryWritten
    <2> QED
        BY <2>1 DEF EntrySet
<1>14. T = TableOf(vol')
    BY <1>1, <1>13, TableStays, Geometry
<1>15. /\ Live' = Live /\ Holding' = Holding /\ Closed' = Closed
       /\ \A a \in Bindings : Token(a)' = Token(a)
    <2>1. SameNames
        BY <1>13 DEF SameNames, Entry
    <2>2. \A a \in Bindings : file'[a].slot = file[a].slot /\ file'[a].removed = file[a].removed
        BY <1>3
    <2>3. \A q \in Procs : str'[q].of = str[q].of
        BY <1>3
    <2>4. x.pc # "oldentry" /\ op[p].pc # "oldentry" /\ x.job # "discard" /\ op[p].job # "discard"
        BY <1>4, <1>7
    <2> QED
        BY <1>2, <1>6, <1>7, <1>8, <2>1, <2>2, <2>3, <2>4, SameFiles
<1>16. Firsts' = Firsts
    <2>1. ASSUME NEW s \in Closed PROVE Contents(vol', Dir)[s].first = Contents(vol, Dir)[s].first
        <3>1. s \in Slots /\ BoundTo(s) = {}
            BY DEF Closed, Named
        <3>2. s # file[b].slot
            <4>1. NoSlot \notin Slots
                BY DEF NoSlot, Slots
            <4> QED
                BY <1>4, <1>11, <3>1, <4>1 DEF BoundTo, Live
        <3> QED
            BY <1>13, <3>1, <3>2 DEF Entry
    <2>2. \A a \in Bindings : file'[a].first = file[a].first
        BY <1>3
    <2> QED
        BY <1>15, <2>1, <2>2, SameFirsts
<1>17. Standing = {q \in Procs : str[q].of # None /\ str[q].pos > 0} /\ Standing' = Standing
    <2>1. Standing = {q \in Procs : str[q].of # None /\ str[q].pos > 0}
        BY <1>4, <1>9, StandingIs DEF Freeing
    <2>2. \A q, r \in Procs : ~CutsOff(op'[r], str[q])
        BY <1>7, <1>10 DEF CutsOff, Freeing, Idle
    <2>3. Standing' = {q \in Procs : str[q].of # None /\ str[q].pos > 0}
        BY <1>3, <2>2 DEF Standing
    <2> QED
        BY <2>1, <2>3
<1>18. StreamsLaid(root, at)'
    BY <1>3, <1>6, <1>17 DEF StreamsLaid
<1>19. Claims(root)' = Claims(root)
    <2>1. ASSUME NEW q \in Standing
          PROVE  <<Token(str[q].of)', root[str'[q].last]>> = <<Token(str[q].of), root[str[q].last]>>
        <3>1. str[q].of \in Bindings
            BY <1>17, Typing
        <3> QED
            BY <1>3, <3>1 DEF Token
    <2>2. {<<Token(str[q].of), root[str[q].last]>> : q \in Standing}'
              = {<<Token(str[q].of), root[str[q].last]>> : q \in Standing}
        BY <1>3, <1>17, <2>1
    <2> QED
        BY <1>16, <2>2 DEF Claims
<1>20. EntriesLaid'
    <2>1. \A a \in Bindings : file'[a].removed => file'[a].slot = NoSlot
        BY <1>3, <1>6 DEF EntriesLaid
    <2>2. ASSUME NEW a \in Live' PROVE Contents(vol', Dir)[file'[a].slot].first \in {None, file'[a].first}
        <3>1. a \in Live /\ file[a].slot \in Slots
            BY <1>5, <1>15 DEF DirSound, Placed, Named
        <3>2. CASE a = b
            BY <1>3, <1>13, <3>1, <3>2
        <3>3. CASE a # b
            <4>1. \A q \in Procs : op[q].pc = "entry" => op[q].of # a
                BY <1>2, <1>9, <3>3, IdleIs
            <4>2. Entry(file[a].slot).first \in {None, file[a].first}
                BY <1>6, <3>1, <4>1 DEF EntriesLaid, EntryLaid
            <4>3. file[a].slot # file[b].slot
                <5>1. file[a].slot # NoSlot
                    BY <3>1 DEF NoSlot, Slots
                <5> QED
                    BY <1>5, <1>11, <3>1, <3>3, <5>1 DEF DirSound, OnePlace
            <4> QED
                BY <1>3, <1>13, <3>1, <4>2, <4>3
        <3> QED
            BY <3>2, <3>3
    <2>3. \A q \in Procs : op'[q].pc # "oldentry"
        BY <1>7, <1>10, IdleIs
    <2> QED
        BY <2>1, <2>2, <2>3 DEF EntriesLaid, EntryLaid, Entry
<1>21. CallLaid(T, root, file', x, str'[p])
    BY <1>2, <1>3, <1>4, <1>6, <1>7 DEF CallLaid, Freeing
<1>22. CallsLaid(T, root)'
    BY <1>7, <1>8, <1>9, <1>21, AloneCalls
<1>23. Laid(T, root, at)'
    BY <1>6, <1>16, <1>18, <1>19, <1>20, <1>22 DEF Laid
<1> QED
    BY <1>1, <1>14, <1>23, LaidIsOut

\* A cluster a that was free is file b's, n-th in its chain: the labels after.
Hung(T, U, root, at, w, y, a, n, b) ==
    /\ Chained(U, w, y) /\ a \in Clusters /\ root[a] = None /\ T[a] = None
    /\ \A c \in Clusters : root[c] # a
    /\ \A c \in Clusters : c # a => w[c] = root[c] /\ y[c] = at[c]
    /\ w[a] # None /\ y[a] = n
    /\ w[a] = a \/ (n # 1 /\ <<Token(b), w[a]>> \in Claims(root))
    /\ Spared(T, U, root, b)
    /\ \A c \in Clusters : root[c] = None /\ T[c] # None => U[c] = T[c]
    /\ \A c, e \in Clusters : c # a /\ T[e] # c => U[e] # c
\* What fat_readwrite leaves of the file and the stream that got it.
Took(p, b, a) ==
    /\ \A q \in Procs : q # p => str'[q] = str[q]
    /\ str'[p].of = b /\ str'[p].pos = str[p].pos + 1 /\ str'[p].last = a
    /\ \A c \in Bindings : /\ file'[c].slot = file[c].slot /\ file'[c].removed = file[c].removed
                           /\ file[c].size <= file'[c].size /\ file'[c].size \in Nat
                           /\ c # b => file'[c] = file[c]
    /\ file'[b].first = IF str[p].pos = 0 THEN a ELSE file[b].first
    /\ str[p].pos + 1 <= file'[b].size

\* next_write_cluster hangs a free cluster behind the last, or alone.
LEMMA HangsLaid ==
    ASSUME IInv, DirInv, NEW T, NEW root, NEW at, Laid(T, root, at), Typed(T),
           NEW p \in Procs, op[p].pc = "alloc", NEW b, b = op[p].of, NEW a \in Clusters, T[a] = None,
           NEW old, old = IF str[p].pos = 0 THEN None ELSE str[p].last,
           NEW U, \/ U = [T EXCEPT ![a] = EndMark]
                  \/ old # None /\ U = [T EXCEPT ![old] = a, ![a] = EndMark],
           NEW n, n = str[p].pos + 1
    PROVE  May(T, U) /\ \E w, y : Hung(T, U, root, at, w, y, a, n, b)
<1>1. CallLaid(T, root, file, op[p], str[p]) /\ Chained(T, root, at)
    BY DEF Laid, CallsLaid
<1>2. str[p].pos \in Nat /\ n \in Nat /\ EndMark \notin Clusters /\ EndMark # None /\ None \notin Clusters
    BY Typing, MarksAreWords, EntryPlace DEF EndMark, None
<1>3. root[a] = None /\ \A c \in Clusters : T[c] # a /\ root[c] # a
    BY <1>1, FreeUnlinked
<1>4. /\ \A c \in Clusters : root[c] \in {None} \cup Clusters
      /\ root \in [Clusters -> {None} \cup Clusters] /\ at \in [Clusters -> Nat]
    BY <1>1 DEF Chained
<1>5. CASE U = [T EXCEPT ![a] = EndMark]
    <2> DEFINE w == [root EXCEPT ![a] = a]
               y == [at EXCEPT ![a] = n]
    <2>1. Chained(U, w, y)
        BY <1>1, <1>2, <1>5, ChainStart
    <2>2. \A c \in Clusters : w[c] = IF c = a THEN a ELSE root[c]
        BY <1>4
    <2>3. \A c \in Clusters : y[c] = IF c = a THEN n ELSE at[c]
        BY <1>4
    <2>4. \A c \in Clusters : U[c] = IF c = a THEN EndMark ELSE T[c]
        BY <1>5 DEF Typed
    <2>5. Spared(T, U, root, b)
        BY <1>3, <2>4 DEF Spared
    <2> HIDE DEF w, y
    <2>6. Hung(T, U, root, at, w, y, a, n, b)
        BY <1>2, <1>3, <2>1, <2>2, <2>3, <2>4, <2>5 DEF Hung
    <2>7. May(T, U)
        BY <1>5 DEF May
    <2> QED
        BY <2>6, <2>7
<1>6. CASE old # None /\ U = [T EXCEPT ![old] = a, ![a] = EndMark]
    <2> DEFINE w == [root EXCEPT ![a] = root[old]]
               y == [at EXCEPT ![a] = at[old] + 1]
    <2>1. str[p].pos # 0 /\ old = str[p].last /\ T[old] = EndMark
        BY <1>1, <1>6 DEF CallLaid
    <2>2. /\ old \in Clusters /\ root[old] # None /\ at[old] = str[p].pos
          /\ <<Token(b), root[old]>> \in Claims(root)
        <3>1. /\ b \in Bindings \ Unbound /\ str[p].of = b
              /\ \/ str[p].last = None /\ str[p].pos = 0 /\ file[b].first = None
                 \/ /\ str[p].last \in Clusters /\ root[str[p].last] # None
                    /\ <<Token(b), root[str[p].last]>> \in Claims(root)
                    /\ at[str[p].last] = IF str[p].pos = 0 THEN 1 ELSE str[p].pos
            BY <2>1, CutPlace
        <3> QED
            BY <2>1, <3>1
    <2>3. Chained(U, w, y)
        BY <1>1, <1>6, <2>1, <2>2, ChainAppend
    <2>4. old # a
        BY <1>2, <2>1
    <2>5. \A c \in Clusters : w[c] = IF c = a THEN root[old] ELSE root[c]
        BY <1>4
    <2>6. \A c \in Clusters : y[c] = IF c = a THEN n ELSE at[c]
        BY <1>4, <2>2
    <2>7. \A c \in Clusters : U[c] = IF c = a THEN EndMark ELSE IF c = old THEN a ELSE T[c]
        BY <1>6, <2>2, <2>4 DEF Typed
    <2>8. Spared(T, U, root, b)
        BY <1>3, <2>2, <2>7 DEF Spared
    <2> HIDE DEF w, y
    <2>9. n # 1
        BY <1>2, <2>1
    <2>10. w[a] # None /\ y[a] = n /\ <<Token(b), w[a]>> \in Claims(root)
        BY <2>2, <2>5, <2>6
    <2>11. Hung(T, U, root, at, w, y, a, n, b)
        BY <1>2, <1>3, <2>2, <2>3, <2>5, <2>6, <2>7, <2>8, <2>9, <2>10 DEF Hung
    <2>12. May(T, U)
        BY <1>6, <2>1, <2>2 DEF May
    <2> QED
        BY <2>11, <2>12
<1> QED
    BY <1>5, <1>6

\* A stream got a cluster.
LEMMA TookLaid ==
    ASSUME IInv, DirInv, DirSound, NEW T, NEW root, NEW at, Laid(T, root, at), SameDir,
           NEW p \in Procs, op[p].pc = "alloc", NEW b, b = op[p].of, op' = [op EXCEPT ![p] = Idle],
           NEW a, Took(p, b, a),
           NEW U, NEW w, NEW y, NEW n, n = str[p].pos + 1, Hung(T, U, root, at, w, y, a, n, b)
    PROVE  Laid(U, w, y)'
<1>1. /\ CallLaid(T, root, file, op[p], str[p]) /\ op[p].victim = None
      /\ Rooted(Firsts, root, at) /\ Apart(Claims(root)) /\ StreamsLaid(root, at) /\ EntriesLaid
      /\ CallsLaid(T, root)
    BY DEF Laid, CallsLaid, DirInv, CallsSound, VictimsKnown
<1>2. str[p].of = b /\ b \in Bindings \ Unbound /\ b # None /\ str[p].pos \in Nat /\ op[p].job = "none"
      /\ (str[p].pos = 0 => file[b].first = None)
    BY <1>1, InUse, Typing, BindingsAssumption DEF CallLaid, Known
<1>3. /\ Chained(U, w, y) /\ a \in Clusters /\ root[a] = None /\ T[a] = None
      /\ \A c \in Clusters : c # a => w[c] = root[c] /\ y[c] = at[c]
      /\ w[a] # None /\ y[a] = n /\ \A c \in Clusters : root[c] # a
      /\ w[a] = a \/ (n # 1 /\ <<Token(b), w[a]>> \in Claims(root))
      /\ Spared(T, U, root, b)
    BY DEF Hung
<1>4. LooseStay(T, U, root, w, op[p])
    BY <1>3 DEF Hung, LooseStay
<1>5. /\ \A q \in Procs : q # p => str'[q] = str[q]
      /\ str'[p].of = b /\ str'[p].pos = n /\ str'[p].last = a
      /\ \A c \in Bindings : /\ file'[c].slot = file[c].slot /\ file'[c].removed = file[c].removed
                             /\ file[c].size <= file'[c].size /\ file'[c].size \in Nat
                             /\ c # b => file'[c] = file[c]
      /\ file'[b].first = IF str[p].pos = 0 THEN a ELSE file[b].first
      /\ n <= file'[b].size
    BY DEF Took
<1>6. /\ Live' = Live /\ Holding' = Holding /\ Closed' = Closed
      /\ \A c \in Bindings : Token(c)' = Token(c)
    <2>1. /\ Idle \in Op /\ Idle.of = None /\ Idle.victim = None /\ Idle.job = "none" /\ Idle.pc = "idle"
        BY IdleIs DEF Idle
    <2>2. SameNames
        BY SameDirNames
    <2>3. \A q \in Procs : str'[q].of = str[q].of
        BY <1>2, <1>5
    <2>4. \A c \in Bindings : file'[c].slot = file[c].slot /\ file'[c].removed = file[c].removed
        BY <1>5
    <2> QED
        BY <1>1, <1>2, <2>1, <2>2, <2>3, <2>4, SameFiles
<1>7. ASSUME NEW z \in Firsts' PROVE z \in Firsts \/ (n = 1 /\ z = <<Token(b), a>>)
    <2>1. CASE z \in {<<Token(c), file[c].first>> : c \in Holding}'
        <3>1. PICK c \in Holding : z = <<Token(c), file'[c].first>>
            BY <1>6, <2>1 DEF Holding
        <3>2. CASE c = b /\ str[p].pos = 0
            BY <1>5, <3>1, <3>2
        <3>3. CASE ~(c = b /\ str[p].pos = 0)
            <4>1. file'[c].first = file[c].first
                BY <1>5, <3>3 DEF Holding
            <4> QED
                BY <3>1, <4>1 DEF Firsts
        <3> QED
            BY <3>2, <3>3
    <2>2. CASE z \in {<<<<0, s>>, Entry(s).first>> : s \in Closed}'
        <3>1. PICK s \in Closed : z = <<<<0, s>>, Entry(s).first>>
            BY <1>6, <2>2 DEF SameDir, Entry
        <3> QED
            BY <3>1 DEF Firsts
    <2> QED
        BY <2>1, <2>2 DEF Firsts
<1>8. Rooted(Firsts', w, y)
    <2> SUFFICES ASSUME NEW z \in Firsts', z[2] # None PROVE w[z[2]] = z[2] /\ y[z[2]] = 1
        BY DEF Rooted
    <2>1. CASE z \in Firsts
        <3>1. PICK c \in Clusters : c = z[2]
            BY <2>1, FirstsTyped
        <3>2. root[c] = c /\ at[c] = 1 /\ c # a
            BY <1>1, <1>3, <2>1, <3>1 DEF Rooted
        <3> QED
            BY <1>3, <3>1, <3>2
    <2>2. CASE n = 1 /\ z = <<Token(b), a>>
        <3>1. w[a] = a /\ y[a] = 1 /\ z[2] = a
            BY <1>3, <2>2
        <3> QED
            BY <3>1
    <2> QED
        BY <1>7, <2>1, <2>2
<1>9. ASSUME NEW z \in Claims(root) PROVE z[2] # a
    <2>1. CASE z \in Firsts
        <3>1. SUFFICES ASSUME z[2] = a PROVE FALSE
            OBVIOUS
        <3>2. a # None /\ root[a] = a
            BY <1>1, <1>3, <2>1, <3>1, EntryPlace DEF Rooted
        <3> QED
            BY <1>3, <3>2
    <2>2. CASE z \notin Firsts
        <3>1. PICK q \in Standing : z = <<Token(str[q].of), root[str[q].last]>>
            BY <1>9, <2>2 DEF Claims
        <3>2. str[q].last \in Clusters
            BY <1>1, <3>1 DEF StreamsLaid, Stands
        <3> QED
            BY <1>3, <3>1, <3>2
    <2> QED
        BY <2>1, <2>2
<1>10. PICK S : S = Claims(root) \cup {<<Token(b), w[a]>>}
    OBVIOUS
<1>11. Apart(S)
    <2>1. CASE w[a] = a
        BY <1>1, <1>9, <1>10, <2>1, ApartMore
    <2>2. CASE <<Token(b), w[a]>> \in Claims(root)
        <3>1. S = Claims(root)
            BY <1>10, <2>2
        <3> QED
            BY <1>1, <3>1
    <2> QED
        BY <1>3, <2>1, <2>2
<1>12. \A q \in Procs : ~CutsOff(op[p], str[q])
    BY DEF CutsOff, Freeing
<1>13. \A q \in Standing' : q # p => q \in Standing
    <2>1. Idle \in Op
        BY IdleIs
    <2>2. \A q \in Procs : q # p => str'[q] = str[q]
        BY <1>5
    <2>3. \A q \in Procs : q # p /\ CutsOff(op[p], str[q]) => CutsOff(Idle, str[q])
        BY <1>12
    <2> QED
        BY <2>1, <2>2, <2>3, FewerStand
<1>14. ASSUME NEW q \in Standing
       PROVE  w[str[q].last] = root[str[q].last] /\ y[str[q].last] = at[str[q].last]
    <2>1. str[q].last \in Clusters /\ root[str[q].last] # None
        BY <1>1 DEF StreamsLaid, Stands
    <2> QED
        BY <1>3, <2>1
<1>15. Stands(w, y, str'[p])
    BY <1>3, <1>5 DEF Stands
<1>16. StreamsLaid(w, y)'
    <2>1. ASSUME NEW q \in Procs, str'[q].of # None PROVE str'[q].pos <= file'[str'[q].of].size
        <3>1. CASE q = p
            BY <1>5, <3>1
        <3>2. CASE q # p
            <4>1. /\ str'[q] = str[q] /\ str[q].of \in Bindings /\ str[q].pos \in Nat
                  /\ str[q].pos <= file[str[q].of].size
                BY <1>1, <1>5, <2>1, <3>2, Typing DEF StreamsLaid
            <4>2. file[str[q].of].size <= file'[str[q].of].size /\ file'[str[q].of].size \in Nat
                  /\ file[str[q].of].size \in Nat
                BY <1>5, <4>1, ObjectFields
            <4>3. PICK i \in Nat : i = str[q].pos
                BY <4>1
            <4>4. PICK j \in Nat : j = file[str[q].of].size
                BY <4>2
            <4>5. PICK k \in Nat : k = file'[str[q].of].size
                BY <4>2
            <4>6. i <= j /\ j <= k
                BY <4>1, <4>2, <4>3, <4>4, <4>5
            <4>7. i <= k
                BY <4>6
            <4> QED
                BY <4>1, <4>3, <4>5, <4>7
        <3> QED
            BY <3>1, <3>2
    <2>2. ASSUME NEW q \in Standing' PROVE Stands(w, y, str'[q])
        <3>1. CASE q = p
            BY <1>15, <3>1
        <3>2. CASE q # p
            <4>1. q \in Procs
                BY DEF Standing
            <4>2. q \in Standing /\ str'[q] = str[q] /\ Stands(root, at, str[q])
                BY <1>1, <1>5, <1>13, <3>2, <4>1 DEF StreamsLaid
            <4> QED
                BY <1>14, <4>2 DEF Stands
        <3> QED
            BY <3>1, <3>2
    <2> QED
        BY <2>1, <2>2 DEF StreamsLaid
<1>17. Apart(Claims(w)')
    <2>1. \A q \in Procs : q # p => str'[q] = str[q]
        BY <1>5
    <2>2. \A q \in Standing' : q # p => q \in Standing /\ w[str[q].last] = root[str[q].last]
        BY <1>13, <1>14
    <2>3. \A z \in Firsts' : z[2] = None \/ z \in S
        <3> SUFFICES ASSUME NEW z \in Firsts' PROVE z \in S
            OBVIOUS
        <3>1. CASE z \in Firsts
            BY <1>10, <3>1 DEF Claims
        <3>2. CASE n = 1 /\ z = <<Token(b), a>>
            BY <1>3, <1>10, <3>2
        <3> QED
            BY <1>7, <3>1, <3>2
    <2>4. \A q \in Standing : q # p => <<Token(str[q].of), root[str[q].last]>> \in S
        BY <1>10 DEF Claims
    <2>5. str'[p].of \in Bindings /\ <<Token(str'[p].of), w[str'[p].last]>> \in S
        BY <1>2, <1>5, <1>10
    <2> QED
        BY <1>6, <1>11, <2>1, <2>2, <2>3, <2>4, <2>5, ClaimsStay
<1>18. \A q \in Procs : op'[q] = IF q = p THEN Idle ELSE op[q]
    BY DEF IInv, CallsTyped
<1>19. \A q \in Procs : op[q].pc \notin {"entry", "oldentry"}
    <2>1. ~Exclusive(op[p])
        BY <1>2 DEF Exclusive
    <2>2. ASSUME NEW q \in Procs, op[q].pc \in {"entry", "oldentry"} PROVE FALSE
        <3>1. Exclusive(op[q]) /\ q # p
            BY <2>2 DEF Exclusive
        <3> QED
            BY <3>1 DEF IInv, LockHeld
    <2> QED
        BY <2>2
<1>20. EntriesLaid'
    <2>1. \A c \in Bindings : file'[c].removed => file'[c].slot = NoSlot
        BY <1>1, <1>5 DEF EntriesLaid
    <2>2. ASSUME NEW c \in Live' PROVE Contents(vol', Dir)[file'[c].slot].first \in {None, file'[c].first}
        <3>1. c \in Live /\ c \in Bindings
            BY <1>6 DEF Live
        <3>2. Entry(file[c].slot).first \in {None, file[c].first}
            BY <1>1, <1>19, <3>1 DEF EntriesLaid, EntryLaid
        <3>3. file[c].first \in {None, file'[c].first}
            BY <1>2, <1>5, <3>1
        <3> QED
            BY <1>5, <3>1, <3>2, <3>3 DEF SameDir, Entry
    <2>3. \A q \in Procs : op'[q].pc # "oldentry"
        BY <1>18, <1>19, IdleIs
    <2> QED
        BY <2>1, <2>2, <2>3 DEF EntriesLaid, EntryLaid, Entry
<1>21. ASSUME NEW q \in Procs, q # p PROVE CallLaid(U, w, file', op[q], str'[q])
    <2>1. OnlyFile(b)
        BY <1>5 DEF OnlyFile
    <2>2. op[p].pc # "idle"
        OBVIOUS
    <2>3. str'[q] = str[q]
        BY <1>5, <1>21
    <2>4. Spared(T, U, root, b)
        BY <1>3
    <2>5. LooseStay(T, U, root, w, op[p])
        BY <1>4
    <2>6. CallLaid(U, w, file', op[q], str[q])
        BY <1>21, <2>1, <2>2, <2>4, <2>5, OthersLaid, ZenonT(60)
    <2> QED
        BY <2>3, <2>6
<1>22. CallsLaid(U, w)'
    <2>1. Idle \in Op /\ \A q \in Procs : TwoCalls(Idle, op[q])
        BY IdleIs DEF TwoCalls
    <2>2. CallLaid(U, w, file', Idle, str'[p])
        BY IdleLaid
    <2> QED
        BY <1>1, <1>21, <2>1, <2>2, CallsStay
<1> QED
    BY <1>3, <1>8, <1>16, <1>17, <1>20, <1>22 DEF Laid

\* next_write_cluster.
LEMMA AllocLaid ==
    ASSUME IInv, DirInv, Intact', NEW root, NEW at, Laid(TableOf(vol), root, at), NEW p \in Procs, Alloc(p)
    PROVE  LaidOut' /\ May(TableOf(vol), TableOf(vol'))
<1>1. PICK T : T = TableOf(vol)
    OBVIOUS
<1>2. PICK U : U = TableOf(vol')
    OBVIOUS
<1>3. PICK b : b = op[p].of
    OBVIOUS
<1>4. At(p, "alloc") /\ op' = [op EXCEPT ![p] = Idle]
    BY DEF Alloc
<1>5. /\ op[p].pc = "alloc" /\ op[p] \in Op /\ op \in [Procs -> Op] /\ Good(vol) /\ broken' = broken
      /\ op[p].job = "none" /\ b \in Bindings /\ str[p] \in Stream /\ str[p].pos \in Nat /\ str[p].last \in Link
    BY <1>3, <1>4, Typing DEF At, Known
<1>6. CallLaid(T, root, file, op[p], str[p]) /\ op[p].victim = None /\ Laid(T, root, at)
    BY <1>1, <1>5 DEF Laid, CallsLaid, DirInv, CallsSound, VictimsKnown
<1>7. str[p].of = b /\ (str[p].pos # 0 => str[p].last \in Clusters /\ T[str[p].last] = EndMark)
    <2>1. str[p].of = b /\ (str[p].pos # 0 => T[str[p].last] = EndMark)
        BY <1>3, <1>5, <1>6 DEF CallLaid
    <2>2. str[p].pos # 0 => str[p].last \in Clusters
        BY <1>5, <1>6, CutPlace
    <2> QED
        BY <2>1, <2>2
<1>8. PICK old : old = IF str[p].pos = 0 THEN None ELSE str[p].last
    OBVIOUS
<1>9. PICK g : g = NextWriteCluster(vol, old)
    OBVIOUS
<1>10. old \in {None} \cup Clusters /\ (old # None => TableOf(vol)[old] = EndMark)
    BY <1>1, <1>7, <1>8
<1>11. /\ vol' = g.d
       /\ IF g.r = None THEN UNCHANGED <<file, str>>
          ELSE /\ Moved(p, g.r)
               /\ file' = [file EXCEPT ![b].first = IF str[p].pos = 0 THEN g.r ELSE @,
                                       ![b].size = IF str[p].pos + 1 > @ THEN str[p].pos + 1 ELSE @]
    <2>1. str[p].pos # 0 => str[p].last # Failed
        BY <1>7, EntryPlace
    <2>2. (IF str[p].pos = 0 THEN None ELSE IF str[p].last = Failed THEN File(p).first ELSE str[p].last) = old
        BY <1>8, <2>1
    <2> QED
        BY <1>7, <1>9, <2>2 DEF Alloc
<1>12. SameDir
    <2>1. Moves(vol, vol', FatSectors)
        BY <1>5, <1>9, <1>10, <1>11, NextWriteClusterIs
    <2> QED
        BY <2>1, DirStays, Geometry
<1>13. Len(vol.lru) > 1
    <2>1. left.loans \in Nat /\ Len(vol.lru) > left.loans + 1 /\ Len(vol.lru) \in Nat
        BY DEF IInv, VolKnown, Good, Vol
    <2> QED
        BY <2>1
<1>14. /\ g.r \in {None} \cup Clusters
       /\ g.r = None => U = T
       /\ g.r # None => /\ T[g.r] = None
                        /\ \/ U = [T EXCEPT ![g.r] = EndMark]
                           \/ old # None /\ U = [T EXCEPT ![old] = g.r, ![g.r] = EndMark]
    <2>1. PICK d : d = vol
        OBVIOUS
    <2>2. Good(d) /\ Len(d.lru) > 1 /\ TableOf(d) = T /\ TableOf(g.d) = U
        BY <1>1, <1>2, <1>5, <1>11, <1>13, <2>1
    <2>3. old \in {None} \cup Clusters
        BY <1>10
    <2>4. old # None => TableOf(d)[old] = EndMark
        BY <1>10, <2>1
    <2>5. g = NextWriteCluster(d, old)
        BY <1>9, <2>1
    <2>6. /\ g.r \in {None} \cup Clusters
          /\ g.r = None => TableOf(g.d) = TableOf(d)
          /\ g.r # None => Joined(TableOf(d), TableOf(g.d), old, g.r)
        BY <2>2, <2>3, <2>4, <2>5, NextWriteClusterLinks
    <2> QED
        BY <2>2, <2>6 DEF Joined
<1>15. DirSound /\ Typed(T)
    BY <1>1, <1>5, IsIntact, TableTyped
<1>16. CASE g.r = None
    <2>1. U = T /\ str' = str /\ file' = file
        BY <1>11, <1>14, <1>16
    <2>2. /\ Idle \in Op /\ Idle.victim = None /\ Idle.pc # "oldentry" /\ ~Freeing(Idle)
          /\ \A q \in Procs : ~CutsOff(op[p], str[q])
        BY <1>5, IdleIs DEF Idle, Freeing, CutsOff
    <2>3. CallLaid(T, root, file', Idle, str[p])
        BY IdleLaid
    <2>4. T = TableOf(vol')
        BY <1>2, <2>1
    <2>5. LaidOut'
        BY <1>4, <1>5, <1>6, <1>12, <2>1, <2>2, <2>3, <2>4, GoesLaid
    <2> QED
        BY <1>1, <2>4, <2>5 DEF May
<1>17. CASE g.r # None
    <2>1. PICK a \in Clusters : a = g.r
        BY <1>14, <1>17
    <2>2. T[a] = None /\ \/ U = [T EXCEPT ![a] = EndMark]
                         \/ old # None /\ U = [T EXCEPT ![old] = a, ![a] = EndMark]
        BY <1>14, <1>17, <2>1
    <2>3. PICK n : n = str[p].pos + 1
        OBVIOUS
    <2>4. May(T, U) /\ \E w, y : Hung(T, U, root, at, w, y, a, n, b)
        BY <1>3, <1>5, <1>6, <1>8, <1>15, <2>2, <2>3, HangsLaid
    <2>5. PICK w, y : Hung(T, U, root, at, w, y, a, n, b)
        BY <2>4
    <2>6. Took(p, b, a)
        <3>1. /\ Moved(p, a)
              /\ file' = [file EXCEPT ![b].first = IF str[p].pos = 0 THEN a ELSE @,
                                      ![b].size = IF str[p].pos + 1 > @ THEN str[p].pos + 1 ELSE @]
            BY <1>11, <1>17, <2>1
        <3>2. FilesTyped /\ file[b] \in Object /\ file[b].size \in Nat
            BY <1>5, Typing, ObjectFields
        <3>3. /\ \A q \in Procs : q # p => str'[q] = str[q]
              /\ str'[p].of = b /\ str'[p].pos = str[p].pos + 1 /\ str'[p].last = a
            BY <1>5, <1>7, <3>1, <3>2 DEF Moved, FilesTyped, Stream
        <3>4. /\ \A c \in Bindings : c # b => file'[c] = file[c]
              /\ file'[b] = [file[b] EXCEPT !.first = IF str[p].pos = 0 THEN a ELSE @,
                                            !.size = IF str[p].pos + 1 > @ THEN str[p].pos + 1 ELSE @]
            BY <1>5, <3>1, <3>2 DEF FilesTyped, Object
        <3>5. /\ file'[b].slot = file[b].slot /\ file'[b].removed = file[b].removed
              /\ file'[b].first = IF str[p].pos = 0 THEN a ELSE file[b].first
              /\ file'[b].size = IF str[p].pos + 1 > file[b].size THEN str[p].pos + 1 ELSE file[b].size
            BY <3>2, <3>4 DEF Object
        <3>6. file[b].size <= file'[b].size /\ file'[b].size \in Nat /\ str[p].pos + 1 <= file'[b].size
            BY <1>5, <3>2, <3>5
        <3>7. \A c \in Bindings : file[c].size \in Nat /\ file[c].size <= file[c].size
            BY ObjectFields
        <3>8. \A c \in Bindings : /\ file'[c].slot = file[c].slot /\ file'[c].removed = file[c].removed
                                  /\ file[c].size <= file'[c].size /\ file'[c].size \in Nat
            BY <3>4, <3>5, <3>6, <3>7
        <3> QED
            BY <3>3, <3>4, <3>5, <3>6, <3>8 DEF Took
    <2>7. Laid(U, w, y)'
        BY <1>3, <1>4, <1>5, <1>6, <1>12, <1>15, <2>3, <2>5, <2>6, TookLaid
    <2>8. LaidOut'
        BY <1>2, <2>7, LaidIsOut
    <2> QED
        BY <1>1, <1>2, <2>4, <2>8
<1> QED
    BY <1>16, <1>17

\* Claims pass from one file to another, or are given up.
Passed(S, R, old, new) ==
    \A x \in R : x[2] # None =>
        \E z \in S : z[2] = x[2] /\ x[1] = IF z[1] = old THEN new ELSE z[1]
\* Streams go on where they are, in a file that is known as before or by its
\* new place, or go back to its start.
StreamsPass(old, new) ==
    \A q \in Procs : str'[q].of # None /\ str'[q].pos > 0 =>
        /\ str'[q] = str[q]
        /\ Token(str[q].of)' = IF Token(str[q].of) = old THEN new ELSE Token(str[q].of)
StreamsFit == \A q \in Procs : str[q].of # None => str[q].pos <= file[str[q].of].size
\* The chains that are claimed still have the same first clusters.
Unharmed(root, w) ==
    /\ \A z \in Firsts' : z[2] # None => w[z[2]] = root[z[2]]
    /\ \A q \in Procs : str'[q].of # None /\ str'[q].pos > 0 => w[str[q].last] = root[str[q].last]

\* They stay apart.
LEMMA ApartPassed ==
    ASSUME NEW S, Apart(S), NEW R, NEW old, NEW new, Passed(S, R, old, new)
    PROVE  Apart(R)
<1> SUFFICES ASSUME NEW x \in R, NEW y \in R, x[2] = y[2], x[2] # None PROVE x[1] = y[1]
    BY DEF Apart
<1>1. PICK u \in S : u[2] = x[2] /\ x[1] = IF u[1] = old THEN new ELSE u[1]
    BY DEF Passed
<1>2. PICK v \in S : v[2] = y[2] /\ y[1] = IF v[1] = old THEN new ELSE v[1]
    BY DEF Passed
<1>3. u[1] = v[1]
    BY <1>1, <1>2 DEF Apart
<1> QED
    BY <1>1, <1>2, <1>3

\* A call goes on alone: files are opened, closed, get and lose their entries.
LEMMA HandedLaid ==
    ASSUME IInv, NEW T, NEW root, NEW at, Laid(T, root, at), NEW w, Chained(T, w, at),
           NEW p \in Procs, NEW x \in Op, op' = [op EXCEPT ![p] = x], \A q \in Procs : q # p => op[q] = Idle,
           Freeing(op[p]) => op[p].job = "discard",
           NEW old, NEW new, Passed(Firsts, Firsts', old, new), StreamsPass(old, new), StreamsFit',
           Unharmed(root, w), EntriesLaid', CallLaid(T, w, file', x, str'[p])
    PROVE  Laid(T, w, at)'
<1>1. Rooted(Firsts, root, at) /\ Apart(Claims(root)) /\ StreamsLaid(root, at)
    BY DEF Laid
<1>2. Standing = {q \in Procs : str[q].of # None /\ str[q].pos > 0}
    BY StandingIs
<1>3. ASSUME NEW q \in Standing'
      PROVE  /\ q \in Procs /\ q \in Standing /\ str'[q] = str[q] /\ w[str[q].last] = root[str[q].last]
             /\ Token(str[q].of)' = IF Token(str[q].of) = old THEN new ELSE Token(str[q].of)
    <2>1. q \in Procs /\ str'[q].of # None /\ str'[q].pos > 0
        BY DEF Standing
    <2> QED
        BY <1>2, <2>1 DEF StreamsPass, Unharmed
<1>4. Rooted(Firsts', w, at)
    <2> SUFFICES ASSUME NEW x0 \in Firsts', x0[2] # None PROVE w[x0[2]] = x0[2] /\ at[x0[2]] = 1
        BY DEF Rooted
    <2>1. PICK z \in Firsts : z[2] = x0[2]
        BY DEF Passed
    <2>2. w[x0[2]] = root[x0[2]]
        BY DEF Unharmed
    <2> QED
        BY <1>1, <2>1, <2>2 DEF Rooted
<1>5. StreamsLaid(w, at)'
    <2>1. ASSUME NEW q \in Standing' PROVE Stands(w, at, str'[q])
        BY <1>1, <1>3 DEF StreamsLaid, Stands
    <2> QED
        BY <2>1 DEF StreamsLaid, StreamsFit
<1>6. Passed(Claims(root), Claims(w)', old, new)
    <2> SUFFICES ASSUME NEW y \in Claims(w)', y[2] # None
                 PROVE  \E z \in Claims(root) : z[2] = y[2] /\ y[1] = IF z[1] = old THEN new ELSE z[1]
        BY DEF Passed
    <2>1. CASE y \in Firsts'
        BY <2>1 DEF Passed, Claims
    <2>2. CASE y \notin Firsts'
        <3>1. PICK q \in Standing' : y = <<Token(str[q].of)', w[str'[q].last]>>
            BY <2>2 DEF Claims
        <3>2. PICK z : z = <<Token(str[q].of), root[str[q].last]>>
            OBVIOUS
        <3>3. z \in Claims(root)
            BY <1>3, <3>2 DEF Claims
        <3>4. str'[q] = str[q]
            BY <1>3
        <3>5. Token(str[q].of)' = IF Token(str[q].of) = old THEN new ELSE Token(str[q].of)
            BY <1>3
        <3>6. y[2] = root[str[q].last] /\ y[1] = Token(str[q].of)'
            BY <1>3, <3>1, <3>4
        <3> QED
            BY <3>2, <3>3, <3>5, <3>6
    <2> QED
        BY <2>1, <2>2
<1>7. Apart(Claims(w)')
    BY <1>1, <1>6, ApartPassed
<1>8. CallsLaid(T, w)'
    BY AloneCalls
<1> QED
    BY <1>4, <1>5, <1>7, <1>8 DEF Laid

\* Objects of files that nobody has open any more are let go.
LetGo ==
    \A c \in Bindings :
        /\ c \notin Unbound' => c \notin Unbound /\ file'[c] = file[c]
        /\ file'[c] \in {file[c], NoFile}
        /\ Discarding(c) => Discarding(c)' \/ c \in Unbound'

\* A file whose object is let go is known by its place, where its entry has
\* its first cluster.
LEMMA LetGoPasses ==
    ASSUME IInv, NEW T, NEW root, NEW at, Laid(T, root, at), SameDir,
           NEW p \in Procs, op[p].pc \in {"commit", "release"}, \A q \in Procs : q # p => op[q] = Idle,
           NEW x \in Op, op' = [op EXCEPT ![p] = x], x.pc # "oldentry", LetGo
    PROVE  Passed(Firsts, Firsts', None, None) /\ EntriesLaid'
<1>1. EntriesLaid /\ CallLaid(T, root, file, op[p], str[p])
    BY DEF Laid, CallsLaid
<1>2. /\ \A q \in Procs : op'[q] = IF q = p THEN x ELSE Idle
      /\ \A q \in Procs : op[q].pc \notin {"entry", "oldentry"}
    BY IdleIs DEF IInv, CallsTyped
<1>3. Named' = Named
    BY SameDirNames, NamedStays
<1>4. ASSUME NEW c \in Bindings \ Unbound' PROVE c \in Bindings \ Unbound /\ file'[c] = file[c] /\ Token(c)' = Token(c)
    BY DEF LetGo, Token
<1>5. ASSUME NEW c \in Live PROVE Entry(file[c].slot).first \in {None, file[c].first}
    BY <1>1, <1>2 DEF EntriesLaid, EntryLaid
<1>6. \A c \in Bindings : Discarding(c) => file[c].removed
    <2> SUFFICES ASSUME NEW c \in Bindings, Discarding(c) PROVE file[c].removed
        OBVIOUS
    <2>1. PICK q \in Procs : op[q].job = "discard" /\ op[q].of = c
        BY DEF Discarding
    <2>2. q = p
        BY <2>1, IdleIs
    <2> QED
        BY <1>1, <2>1, <2>2 DEF CallLaid
<1>7. ASSUME NEW y \in Firsts', y[2] # None PROVE y \in Firsts
    <2>1. CASE y \in {<<Token(c), file[c].first>> : c \in Holding}'
        <3>1. PICK c \in Bindings \ Unbound' : ~Discarding(c)' /\ y = <<Token(c)', file'[c].first>>
            BY <2>1 DEF Holding
        <3>2. c \in Holding /\ y = <<Token(c), file[c].first>>
            BY <1>4, <3>1 DEF LetGo, Holding
        <3> QED
            BY <3>2 DEF Firsts
    <2>2. CASE y \in {<<<<0, s>>, Entry(s).first>> : s \in Closed}'
        <3>1. PICK s \in Closed' : y = <<<<0, s>>, Entry(s).first>>
            BY <2>2 DEF SameDir, Entry
        <3>2. s \in Named /\ BoundTo(s)' = {}
            BY <1>3 DEF Closed
        <3>3. CASE BoundTo(s) = {}
            <4>1. s \in Closed
                BY <1>2, <3>2, <3>3 DEF Closed, Renaming
            <4> QED
                BY <3>1, <4>1 DEF Firsts
        <3>4. CASE BoundTo(s) # {}
            <4>1. PICK c \in Live : file[c].slot = s
                BY <3>4 DEF BoundTo, Live
            <4>2. Entry(s).first = file[c].first
                BY <1>5, <1>7, <3>1, <4>1
            <4>3. c \in Holding /\ Token(c) = <<0, s>>
                BY <1>6, <4>1 DEF Holding, Live, Token
            <4> QED
                BY <3>1, <4>2, <4>3 DEF Firsts
        <3> QED
            BY <3>3, <3>4
    <2> QED
        BY <2>1, <2>2 DEF Firsts
<1>8. Passed(Firsts, Firsts', None, None)
    BY <1>7 DEF Passed
<1>9. EntriesLaid'
    <2>1. \A c \in Bindings : file'[c].removed => file'[c].slot = NoSlot
        BY <1>1 DEF EntriesLaid, LetGo, NoFile
    <2>2. ASSUME NEW c \in Live' PROVE Contents(vol', Dir)[file'[c].slot].first \in {None, file'[c].first}
        <3>1. c \in Live /\ file'[c] = file[c]
            BY <1>4 DEF Live
        <3> QED
            BY <1>5, <3>1 DEF SameDir, Entry
    <2>3. \A q \in Procs : op'[q].pc # "oldentry"
        BY <1>2, IdleIs
    <2> QED
        BY <2>1, <2>2, <2>3 DEF EntriesLaid, EntryLaid, Entry
<1> QED
    BY <1>8, <1>9

\* Streams are closed, the others stay where they are.
FewerStreams == \A q \in Procs : str'[q] \in {str[q], NoStream}

\* Streams that are let go pass on nothing that is wrong.
LEMMA FewerPass ==
    ASSUME IInv, NEW root, NEW at, StreamsLaid(root, at), FewerStreams, LetGo,
           NEW p \in Procs, NEW x \in Op, op' = [op EXCEPT ![p] = x]
    PROVE  StreamsPass(None, None) /\ StreamsFit'
<1>1. ASSUME NEW q \in Procs, str'[q].of # None
      PROVE  /\ str'[q] = str[q] /\ str[q].of \in Bindings
             /\ file'[str[q].of] = file[str[q].of]
    <2>1. str'[q] = str[q] /\ str[q].of \in Bindings
        BY <1>1, Typing DEF FewerStreams, NoStream
    <2>2. str[q].of \notin Unbound'
        BY <1>1, <2>1 DEF Unbound, Users
    <2> QED
        BY <2>1, <2>2 DEF LetGo
<1>2. StreamsFit'
    BY <1>1 DEF StreamsFit, StreamsLaid
<1>3. ASSUME NEW q \in Procs, str'[q].of # None
      PROVE  str'[q] = str[q] /\ Token(str[q].of)' = Token(str[q].of)
    <2>1. PICK b \in Bindings : b = str[q].of
        BY <1>1, <1>3
    <2>2. str'[q] = str[q] /\ str'[q].of = b /\ file'[b] = file[b]
        BY <1>1, <1>3, <2>1
    <2> QED
        BY <2>1, <2>2 DEF Token
<1> QED
    BY <1>2, <1>3 DEF StreamsPass

\* Objects are let go, and the call goes on or is over.
LEMMA LetGoLaid ==
    ASSUME IInv, NEW T, NEW root, NEW at, Laid(T, root, at), SameDir,
           NEW p \in Procs, op[p].pc \in {"commit", "release"}, \A q \in Procs : q # p => op[q] = Idle,
           NEW x \in Op, op' = [op EXCEPT ![p] = x], x.pc \in {"idle", "release"}, x.job = "none",
           LetGo, FewerStreams
    PROVE  Laid(T, root, at)'
<1>1. Chained(T, root, at) /\ StreamsLaid(root, at)
    BY DEF Laid
<1>2. ~Freeing(op[p]) /\ ~Freeing(x)
    BY DEF Freeing
<1>3. Passed(Firsts, Firsts', None, None) /\ EntriesLaid'
    BY LetGoPasses
<1>4. StreamsPass(None, None) /\ StreamsFit'
    BY <1>1, FewerPass
<1>5. Unharmed(root, root)
    BY <1>4 DEF Unharmed, StreamsPass
<1>6. CallLaid(T, root, file', x, str'[p])
    BY <1>2 DEF CallLaid
<1> QED
    BY <1>1, <1>2, <1>3, <1>4, <1>5, <1>6, HandedLaid

\* Object b is dropped when its last stream is closed, or is what call x discards.
Drops(b, x, job) ==
    \/ file' = file /\ (job = "discard" => x.job = "discard" /\ x.of = b)
    \/ /\ file' = [file EXCEPT ![b] = NoFile] /\ x.of # b
       /\ \A q \in Procs : str'[q].of # b

\* What a call that closes files lets go.
LEMMA LetsGo ==
    ASSUME IInv, DirInv, FewerStreams, NEW p \in Procs, op[p].pc \in {"commit", "release"},
           \A q \in Procs : q # p => op[q] = Idle, NEW b, b = op[p].of,
           NEW x \in Op, op' = [op EXCEPT ![p] = x], x.of \in {None, b, op[p].victim}, x.victim = None,
           Drops(b, x, op[p].job)
    PROVE  LetGo
<1>1. b \in Bindings /\ b # None /\ file \in [Bindings -> Object]
    BY Typing, BindingsAssumption DEF Known, FilesTyped
<1>2. \A q \in Procs : op'[q] = IF q = p THEN x ELSE Idle
    BY DEF IInv, CallsTyped
<1>3. FewerUsers
    BY DEF FewerUsers, FewerStreams, NoStream
<1>4. Unbound \subseteq Unbound'
    BY <1>3, StillUnbound
<1>5. ASSUME NEW c \in Bindings, Discarding(c) PROVE c = b /\ op[p].job = "discard"
    <2>1. PICK q \in Procs : op[q].job = "discard" /\ op[q].of = c
        BY <1>5 DEF Discarding
    <2>2. q = p
        BY <2>1, IdleIs
    <2> QED
        BY <2>1, <2>2
<1>6. CASE file' = file /\ (op[p].job = "discard" => x.job = "discard" /\ x.of = b)
    <2>1. ASSUME NEW c \in Bindings, Discarding(c) PROVE Discarding(c)'
        BY <1>2, <1>5, <1>6, <2>1 DEF Discarding
    <2> QED
        BY <1>4, <1>6, <2>1 DEF LetGo
<1>7. CASE /\ file' = [file EXCEPT ![b] = NoFile] /\ x.of # b
           /\ \A q \in Procs : str'[q].of # b
    <2>1. Idle.of = None /\ Idle.victim = None
        BY DEF Idle
    <2>2. b \in Unbound'
        BY <1>1, <1>2, <1>7, <2>1 DEF Unbound, Users
    <2>3. \A c \in Bindings : file'[c] = IF c = b THEN NoFile ELSE file[c]
        BY <1>1, <1>7
    <2> QED
        BY <1>4, <1>5, <2>2, <2>3 DEF LetGo
<1> QED
    BY <1>6, <1>7 DEF Drops

\* The last stream of a file that was removed closes: its clusters are freed.
LEMMA DiscardLaid ==
    ASSUME IInv, DirInv, DirSound, NEW T, NEW root, NEW at, Laid(T, root, at), Typed(T), SameDir,
           NEW p \in Procs, op[p].pc \in {"commit", "release"}, \A q \in Procs : q # p => op[q] = Idle,
           op[p].job # "discard",
           NEW b, b = op[p].of, b \in Bindings, file[b].removed, NEW f, f = file[b].first, f # None,
           NEW x \in Op, op' = [op EXCEPT ![p] = x], x.pc = "free", x.job = "discard", x.of = b, x.cur = f,
           x.victim = None, file' = file, FewerStreams, \A q \in Procs : str'[q].of # b
    PROVE  \E w : Laid(T, w, at)'
<1> DEFINE w == Without(root, f)
<1>1. Chained(T, root, at) /\ StreamsLaid(root, at) /\ Rooted(Firsts, root, at) /\ Apart(Claims(root))
    BY DEF Laid
<1>2. b \in Bindings \ Unbound /\ b \in Holding
    <2>1. b \in Bindings \ Unbound
        BY InUse
    <2>2. ~Discarding(b)
        BY IdleIs DEF Discarding
    <2> QED
        BY <2>1, <2>2 DEF Holding
<1>3. f \in Clusters /\ root[f] = f /\ <<Token(b), f>> \in Claims(root)
    <2>1. <<Token(b), f>> \in Firsts
        BY <1>2 DEF Firsts
    <2>2. PICK z : z = <<Token(b), f>>
        OBVIOUS
    <2>3. z \in Firsts /\ z[2] = f
        BY <2>1, <2>2
    <2>4. root[f] = f
        BY <1>1, <2>3 DEF Rooted
    <2>5. f \in Clusters
        BY <1>2, ObjectFields
    <2> QED
        BY <2>1, <2>4, <2>5 DEF Claims
<1>4. T[f] # None /\ \A e \in Clusters : T[e] # f
    BY <1>1, <1>3, FirstUnlinked DEF Chained
<1>5. Chained(T, w, at)
    BY <1>1, <1>3, ChainDrop
<1>6. (\A c \in Clusters : w[c] = IF root[c] = f THEN None ELSE root[c]) /\ w[f] = None
    BY <1>3 DEF Without
<1> HIDE DEF w
<1>7. LetGo
    <2>1. Drops(b, x, op[p].job)
        BY DEF Drops
    <2> QED
        BY <2>1, LetsGo
<1>8. Passed(Firsts, Firsts', None, None) /\ EntriesLaid'
    BY <1>7, LetGoPasses
<1>9. StreamsPass(None, None) /\ StreamsFit'
    BY <1>1, <1>7, FewerPass
<1>10. ASSUME NEW z \in Firsts', z[2] # None PROVE w[z[2]] = root[z[2]]
    <2>1. z \in Firsts
        <3>1. PICK y \in Firsts : y[2] = z[2] /\ z[1] = IF y[1] = None THEN None ELSE y[1]
            BY <1>8, <1>10 DEF Passed
        <3>2. y[1] = z[1]
            BY <3>1
        <3>3. \A a \in Firsts' : \E c, d : a = <<c, d>>
            BY DEF Firsts
        <3>4. \A a \in Firsts : \E c, d : a = <<c, d>>
            BY DEF Firsts
        <3> QED
            BY <3>1, <3>2, <3>3, <3>4
    <2>2. z[1] # Token(b)
        <3>1. CASE z \in {<<Token(c), file[c].first>> : c \in Holding}'
            <4>1. PICK c \in Holding' : z = <<Token(c)', file'[c].first>>
                BY <3>1
            <4>2. c # b /\ c \in Bindings \ Unbound /\ Token(c)' = Token(c)
                <5>1. op'[p] = x
                    BY DEF IInv, CallsTyped
                <5>2. Discarding(b)'
                    BY <5>1 DEF Discarding
                <5>3. c # b /\ c \in Bindings \ Unbound'
                    BY <5>2 DEF Holding
                <5> QED
                    BY <1>7, <5>3 DEF LetGo, Token
            <4>3. Token(c) # Token(b)
                BY <1>2, <4>2, TokensApart
            <4> QED
                BY <4>1, <4>2, <4>3
        <3>2. CASE z \in {<<<<0, s>>, Entry(s).first>> : s \in Closed}'
            <4>1. PICK s : z[1] = <<0, s>>
                BY <3>2
            <4>2. Token(b) = <<1, b>>
                BY DEF Token
            <4> QED
                BY <4>1, <4>2
        <3> QED
            BY <3>1, <3>2 DEF Firsts
    <2>3. z[2] # f
        <3> DEFINE y == <<Token(b), f>>
        <3>1. y \in Claims(root) /\ y[1] = Token(b) /\ y[2] = f /\ z \in Claims(root)
            BY <1>3, <2>1 DEF Claims
        <3> HIDE DEF y
        <3> QED
            BY <1>1, <1>10, <2>2, <3>1 DEF Apart
    <2>4. z[2] \in Clusters /\ root[z[2]] = z[2]
        BY <1>1, <1>10, <2>1, FirstsTyped DEF Rooted
    <2> QED
        BY <1>6, <2>3, <2>4
<1>11. ASSUME NEW q \in Procs, str'[q].of # None, str'[q].pos > 0 PROVE w[str[q].last] = root[str[q].last]
    <2>1. str'[q] = str[q] /\ str[q].of # b /\ str[q].of \in Bindings \ Unbound
        <3>1. str'[q] = str[q]
            BY <1>9, <1>11 DEF StreamsPass
        <3> QED
            BY <1>11, <3>1, InUse
    <2>2. q \in Standing
        BY <1>11, <2>1, StandingIs DEF Freeing
    <2>3. Stands(root, at, str[q]) /\ <<Token(str[q].of), root[str[q].last]>> \in Claims(root)
        BY <1>1, <2>2 DEF StreamsLaid, Claims
    <2>4. PICK m \in Clusters : m = str[q].last /\ root[m] # None
        BY <2>3 DEF Stands
    <2>5. root[m] # f
        BY <1>1, <1>2, <1>3, <2>1, <2>3, <2>4, OneOwner
    <2> QED
        BY <1>6, <2>4, <2>5
<1>12. Unharmed(root, w)
    BY <1>10, <1>11 DEF Unharmed
<1>13. CallLaid(T, w, file', x, str'[p])
    BY <1>4, <1>6 DEF CallLaid, CutFree
<1>14. ~Freeing(op[p])
    BY DEF Freeing
<1> QED
    BY <1>5, <1>8, <1>9, <1>12, <1>13, <1>14, HandedLaid

\* close_stream_internal.
LEMMA ReleasedLaid ==
    ASSUME IInv, DirInv, Intact', NEW T, NEW root, NEW at, Laid(T, root, at), Typed(T), T = TableOf(vol'), SameDir,
           NEW p \in Procs, op[p].pc \in {"commit", "release"}, op[p].job # "discard", op[p].victim = None,
           \A q \in Procs : q # p => op[q] = Idle, broken' = broken, FewerStreams,
           NEW b, b = op[p].of, NEW users, Released(p, b, users),
           users = {} => \A q \in Procs : str'[q].of # b
    PROVE  LaidOut'
<1>1. b \in Bindings /\ b # None /\ DirSound
    BY Typing, BindingsAssumption, IsIntact DEF Known
<1>2. CASE users = {} /\ file[b].removed /\ file[b].first # None
    <2>1. PICK f \in Clusters : f = file[b].first
        BY <1>1, <1>2, ObjectFields
    <2> DEFINE x == [Idle EXCEPT !.pc = "free", !.job = "discard", !.of = b, !.cur = f]
    <2>2. op' = [op EXCEPT ![p] = x] /\ file' = file
        BY <1>2, <2>1 DEF Released
    <2>3. x \in Op /\ x.pc = "free" /\ x.job = "discard" /\ x.of = b /\ x.cur = f /\ x.victim = None
        <3>1. f \in Int
            BY Geometry
        <3> QED
            BY <1>1, <3>1, IdleIs DEF Op, Idle
    <2> HIDE DEF x
    <2>4. f # None /\ file[b].removed /\ \A q \in Procs : str'[q].of # b
        BY <1>2, <2>1
    <2>5. \E w : Laid(T, w, at)'
        BY <1>1, <2>1, <2>2, <2>3, <2>4, DiscardLaid, ZenonT(60)
    <2>6. PICK w : Laid(T, w, at)'
        BY <2>5
    <2> QED
        BY <2>6, LaidIsOut
<1>3. CASE ~(users = {} /\ file[b].removed /\ file[b].first # None)
    <2>1. op' = [op EXCEPT ![p] = Idle] /\ Idle \in Op /\ Idle.of = None /\ Idle.victim = None
          /\ Idle.pc = "idle" /\ Idle.job = "none"
        BY <1>3, IdleIs DEF Released, Done, Idle
    <2>2. file' = file \/ (users = {} /\ file' = [file EXCEPT ![b] = NoFile])
        BY <1>3 DEF Released
    <2>3. Drops(b, Idle, op[p].job)
        BY <1>1, <2>1, <2>2 DEF Drops
    <2>4. LetGo
        BY <2>1, <2>3, LetsGo
    <2>5. Laid(T, root, at)'
        BY <2>1, <2>4, LetGoLaid
    <2> QED
        BY <2>5, LaidIsOut
<1> QED
    BY <1>2, <1>3

\* The commit, and what closes after it.
LEMMA CommitStepLaid ==
    ASSUME IInv, DirInv, Intact', NEW root, NEW at, Laid(TableOf(vol), root, at), NEW p \in Procs, CommitStep(p)
    PROVE  LaidOut' /\ TableOf(vol') = TableOf(vol)
<1>1. PICK T : T = TableOf(vol)
    OBVIOUS
<1>2. PICK b : b = op[p].of
    OBVIOUS
<1>3. /\ At(p, "commit") /\ SameDir /\ vol' = Commit(vol)
      /\ \/ op[p].job = "sync" /\ Done(p) /\ UNCHANGED <<file, str>>
         \/ op[p].job = "close" /\ Released(p, b, Users(b) \ {p}) /\ str' = [str EXCEPT ![p] = NoStream]
         \/ op[p].job = "discard" /\ Done(p) /\ file' = [file EXCEPT ![b] = NoFile] /\ str' = str
    <2>1. At(p, "commit") => op[p].job \in {"sync", "close", "discard"}
        BY Typing DEF At, Known
    <2> QED
        BY <1>2, <2>1, CommitStepKeeps DEF CommitStep
<1>4. /\ op[p].pc = "commit" /\ b \in Bindings /\ b # None /\ broken' = broken /\ Good(vol)
      /\ op[p].victim = None
    BY <1>2, <1>3, Typing, BindingsAssumption DEF At, Known, DirInv, CallsSound, VictimsKnown
<1>5. \A q \in Procs : q # p => op[q] = Idle
    BY <1>4, AloneAt DEF Exclusive
<1>6. T = TableOf(vol') /\ Typed(T)
    <2>1. Moves(vol, vol', {Info})
        BY <1>3, <1>4, CommitIs
    <2>2. TableOf(vol') = TableOf(vol)
        BY <2>1, TableStays, Geometry
    <2> QED
        BY <1>1, <1>4, <2>2, TableTyped
<1>7. \A q \in Procs : str'[q] = IF op[p].job = "close" /\ q = p THEN NoStream ELSE str[q]
    BY <1>3, Typing DEF FilesTyped
<1>8. FewerStreams
    BY <1>7 DEF FewerStreams
<1>9. Laid(T, root, at)
    BY <1>1
<1>10. CASE op[p].job = "close" /\ Released(p, b, Users(b) \ {p})
    <2>1. Users(b) \ {p} = {} => \A q \in Procs : str'[q].of # b
        <3>1. NoStream.of # b
            BY <1>4 DEF NoStream
        <3>2. Users(b) \ {p} = {} => \A q \in Procs : q # p => str[q].of # b
            BY DEF Users
        <3> QED
            BY <1>7, <1>10, <3>1, <3>2
    <2>2. PICK users : users = Users(b) \ {p}
        OBVIOUS
    <2>3. Released(p, b, users) /\ (users = {} => \A q \in Procs : str'[q].of # b)
        BY <1>10, <2>1, <2>2
    <2>4. LaidOut'
        BY <1>2, <1>3, <1>4, <1>5, <1>6, <1>8, <1>9, <1>10, <2>3, ReleasedLaid
    <2> QED
        BY <1>1, <1>6, <2>4
<1>11. CASE op[p].job # "close" /\ Done(p)
    <2>1. op' = [op EXCEPT ![p] = Idle] /\ Idle \in Op /\ Idle.of = None /\ Idle.victim = None
          /\ Idle.pc = "idle" /\ Idle.job = "none"
        BY <1>11, IdleIs DEF Done, Idle
    <2>2. op[p].job = "discard" => \A q \in Procs : str'[q].of # b
        BY <1>2, <1>7, <1>11 DEF DirInv, CallsSound, DiscardsKnown, Users
    <2>3. Drops(b, Idle, op[p].job)
        BY <1>3, <1>4, <1>11, <2>1, <2>2 DEF Drops
    <2>4. LetGo
        BY <1>2, <1>4, <1>5, <1>8, <2>1, <2>3, LetsGo
    <2>5. Laid(T, root, at)'
        BY <1>3, <1>4, <1>5, <1>8, <1>9, <2>1, <2>4, LetGoLaid
    <2>6. LaidOut'
        BY <1>6, <2>5, LaidIsOut
    <2> QED
        BY <1>1, <1>6, <2>6
<1> QED
    BY <1>3, <1>10, <1>11

\* rename closes its streams.
LEMMA ReleaseLaid ==
    ASSUME IInv, DirInv, Intact', NEW root, NEW at, Laid(TableOf(vol), root, at), NEW p \in Procs, Release(p)
    PROVE  LaidOut' /\ TableOf(vol') = TableOf(vol)
<1>1. PICK T : T = TableOf(vol)
    OBVIOUS
<1>2. PICK b : b = op[p].of
    OBVIOUS
<1>3. PICK v : v = op[p].victim
    OBVIOUS
<1> DEFINE x == [Idle EXCEPT !.pc = "release", !.of = v]
<1>4. /\ At(p, "release") /\ UNCHANGED <<vol, str>>
      /\ \/ v = None /\ Released(p, b, Users(b))
         \/ /\ v # None /\ op' = [op EXCEPT ![p] = x]
            /\ file' = IF Users(b) = {} THEN [file EXCEPT ![b] = NoFile] ELSE file
    BY <1>2, <1>3 DEF Release
<1>5. /\ op[p].pc = "release" /\ b \in Bindings /\ b # None /\ broken' = broken /\ Good(vol)
      /\ T = TableOf(vol') /\ Typed(T) /\ SameDir /\ Laid(T, root, at)
    BY <1>1, <1>2, <1>4, Typing, BindingsAssumption, TableTyped DEF At, Known, SameDir
<1>6. \A q \in Procs : q # p => op[q] = Idle
    BY <1>5, AloneAt DEF Exclusive
<1>7. op[p].job = "none"
    BY <1>5 DEF Laid, CallsLaid, CallLaid
<1>8. FewerStreams
    BY <1>4 DEF FewerStreams
<1>9. Users(b) = {} => \A q \in Procs : str'[q].of # b
    BY <1>4 DEF Users
<1>10. CASE v = None /\ Released(p, b, Users(b))
    <2>1. PICK users : users = Users(b)
        OBVIOUS
    <2>2. Released(p, b, users) /\ (users = {} => \A q \in Procs : str'[q].of # b)
        BY <1>9, <1>10, <2>1
    <2>3. op[p].victim = None /\ op[p].job # "discard"
        BY <1>3, <1>7, <1>10
    <2>4. LaidOut'
        BY <1>2, <1>5, <1>6, <1>8, <2>2, <2>3, ReleasedLaid
    <2> QED
        BY <1>1, <1>5, <2>4
<1>11. CASE /\ v # None /\ op' = [op EXCEPT ![p] = x]
            /\ file' = IF Users(b) = {} THEN [file EXCEPT ![b] = NoFile] ELSE file
    <2>1. v \in Bindings /\ v # b
        BY <1>2, <1>3, <1>11 DEF DirInv, CallsSound, VictimsKnown
    <2>2. x \in Op /\ x.pc = "release" /\ x.job = "none" /\ x.of = v /\ x.victim = None
        BY <2>1, IdleIs DEF Op, Idle
    <2> HIDE DEF x
    <2>3. Drops(b, x, op[p].job)
        BY <1>7, <1>9, <1>11, <2>1, <2>2 DEF Drops
    <2>4. LetGo
        BY <1>2, <1>3, <1>5, <1>6, <1>8, <1>11, <2>2, <2>3, LetsGo
    <2>5. Laid(T, root, at)'
        BY <1>5, <1>6, <1>8, <1>11, <2>2, <2>4, LetGoLaid
    <2>6. LaidOut'
        BY <1>5, <2>5, LaidIsOut
    <2> QED
        BY <1>1, <1>5, <2>6
<1> QED
    BY <1>4, <1>10, <1>11

\* Objects that were unused are bound to entries of files that were closed, or
\* that have no cluster.
Opens ==
    \A c \in Bindings :
        /\ c \notin Unbound => c \notin Unbound'
        /\ \/ /\ file'[c].slot = file[c].slot /\ file'[c].first = file[c].first
              /\ file'[c].removed = file[c].removed
              /\ c \in Unbound => c \in Unbound'
           \/ /\ c \in Unbound /\ ~file'[c].removed /\ file'[c].slot \in Slots
              /\ \/ file'[c].slot \in Closed /\ file'[c].first = Entry(file'[c].slot).first
                 \/ /\ file'[c].slot \notin Named /\ file'[c].first = None
                    /\ Contents(vol', Dir)[file'[c].slot].first = None
\* Entries stay as they are, and those that are made have no cluster.
SlotsKept ==
    \A t \in Slots : IF t \in Named THEN Contents(vol', Dir)[t].first = Entry(t).first
                     ELSE Contents(vol', Dir)[t].first = None \/ t \notin Named'
\* Streams stay where they are, or are at the start.
StreamsOpen ==
    \A q \in Procs : str'[q].of # None =>
        \/ str'[q].pos = 0
        \/ str'[q] = str[q] /\ file'[str[q].of].size = file[str[q].of].size

\* open, creat, remove and rename bind objects to files.
LEMMA OpensLaid ==
    ASSUME IInv, DirInv, DirSound, NEW T, NEW root, NEW at, Laid(T, root, at), T = TableOf(vol'),
           NEW p \in Procs, \A q \in Procs : op[q] = Idle, NEW x \in Op, op' = [op EXCEPT ![p] = x],
           x.pc \in {"idle", "remove", "newentry"}, x.job = "none", FilesTyped',
           Opens, SlotsKept, StreamsOpen
    PROVE  LaidOut'
<1>1. Chained(T, root, at) /\ StreamsLaid(root, at) /\ EntriesLaid
    BY DEF Laid
<1>2. \A q \in Procs : op'[q] = IF q = p THEN x ELSE Idle
    BY DEF IInv, CallsTyped
<1>3. (\A q \in Procs : op[q].pc \notin {"entry", "oldentry"}) /\ ~Freeing(op[p])
    BY IdleIs DEF Freeing
<1>4. Holding = Bindings \ Unbound
    BY IdleIs DEF Holding, Discarding
<1>5. ASSUME NEW c \in Bindings \ Unbound
      PROVE  /\ c \notin Unbound' /\ file'[c].slot = file[c].slot /\ file'[c].first = file[c].first
             /\ file'[c].removed = file[c].removed /\ Token(c)' = Token(c)
    BY DEF Opens, Token
<1>6. ASSUME NEW y \in Firsts', y[2] # None PROVE y \in Firsts
    <2>1. CASE y \in {<<Token(c), file[c].first>> : c \in Holding}'
        <3>1. PICK c \in Bindings \ Unbound' : y = <<Token(c)', file'[c].first>>
            BY <2>1 DEF Holding
        <3>2. CASE c \notin Unbound
            BY <1>4, <1>5, <3>1, <3>2 DEF Firsts
        <3>3. CASE c \in Unbound
            <4>1. ~file'[c].removed /\ file'[c].slot \in Closed /\ file'[c].first = Entry(file'[c].slot).first
                BY <1>6, <3>1, <3>3 DEF Opens
            <4>2. Token(c)' = <<0, file'[c].slot>>
                BY <4>1 DEF Token
            <4> QED
                BY <3>1, <4>1, <4>2 DEF Firsts
        <3> QED
            BY <3>2, <3>3
    <2>2. CASE y \in {<<<<0, s>>, Entry(s).first>> : s \in Closed}'
        <3>1. PICK s \in Closed' : y = <<<<0, s>>, Contents(vol', Dir)[s].first>>
            BY <2>2 DEF Entry
        <3>2. s \in Slots /\ s \in Named' /\ BoundTo(s)' = {}
            BY DEF Closed, Named
        <3>3. s \in Named /\ Contents(vol', Dir)[s].first = Entry(s).first
            BY <1>6, <3>1, <3>2 DEF SlotsKept
        <3>4. BoundTo(s) = {}
            BY <1>5, <3>2 DEF BoundTo
        <3>5. s \in Closed
            BY <1>3, <3>3, <3>4 DEF Closed, Renaming
        <3> QED
            BY <3>1, <3>3, <3>5 DEF Firsts
    <2> QED
        BY <2>1, <2>2 DEF Firsts
<1>7. Passed(Firsts, Firsts', None, None)
    BY <1>6 DEF Passed
<1>8. EntriesLaid'
    <2>1. \A c \in Bindings : file'[c].removed => file'[c].slot = NoSlot
        BY <1>1 DEF EntriesLaid, Opens
    <2>2. ASSUME NEW c \in Live' PROVE Contents(vol', Dir)[file'[c].slot].first \in {None, file'[c].first}
        <3>1. c \in Bindings \ Unbound' /\ ~file'[c].removed
            BY DEF Live
        <3>2. CASE c \notin Unbound
            <4>1. c \in Live
                BY <1>5, <3>1, <3>2 DEF Live
            <4>2. file[c].slot \in Named /\ Entry(file[c].slot).first \in {None, file[c].first}
                BY <1>1, <1>3, <4>1 DEF EntriesLaid, EntryLaid, DirSound, Placed
            <4>3. Contents(vol', Dir)[file[c].slot].first = Entry(file[c].slot).first
                BY <4>2 DEF SlotsKept, Named
            <4> QED
                BY <1>5, <3>1, <3>2, <4>2, <4>3
        <3>3. CASE c \in Unbound
            <4>1. CASE file'[c].slot \in Named
                BY <3>1, <3>3, <4>1 DEF Opens, SlotsKept
            <4>2. CASE file'[c].slot \notin Named
                <5>1. file'[c].slot \notin Closed
                    BY <4>2 DEF Closed
                <5> QED
                    BY <3>1, <3>3, <5>1 DEF Opens
            <4> QED
                BY <4>1, <4>2
        <3> QED
            BY <3>2, <3>3
    <2>3. \A q \in Procs : op'[q].pc # "oldentry"
        BY <1>2, IdleIs
    <2> QED
        BY <2>1, <2>2, <2>3 DEF EntriesLaid, EntryLaid, Entry
<1>9. ASSUME NEW q \in Procs, str'[q].of # None, str'[q].pos > 0
      PROVE  str'[q] = str[q] /\ Token(str[q].of)' = Token(str[q].of)
    <2>1. str'[q] = str[q]
        BY <1>9 DEF StreamsOpen
    <2>2. PICK c \in Bindings \ Unbound : c = str[q].of
        BY <1>9, <2>1, InUse
    <2>3. file'[c].slot = file[c].slot /\ file'[c].removed = file[c].removed /\ str'[q].of = c
        BY <1>5, <2>1, <2>2
    <2> QED
        BY <2>1, <2>2, <2>3 DEF Token
<1>10. StreamsPass(None, None)
    BY <1>9 DEF StreamsPass
<1>11. StreamsFit'
    <2> SUFFICES ASSUME NEW q \in Procs, str'[q].of # None PROVE str'[q].pos <= file'[str'[q].of].size
        BY DEF StreamsFit
    <2>1. str'[q].of \in Bindings /\ file'[str'[q].of].size \in Nat
        BY DEF FilesTyped, Stream, Object
    <2> QED
        BY <1>1, <2>1 DEF StreamsOpen, StreamsLaid
<1>12. Unharmed(root, root)
    BY <1>9 DEF Unharmed
<1>13. CallLaid(T, root, file', x, str'[p])
    BY DEF CallLaid, Freeing
<1>14. \A q \in Procs : q # p => op[q] = Idle
    OBVIOUS
<1>15. Laid(T, root, at)'
    BY <1>1, <1>3, <1>7, <1>8, <1>10, <1>11, <1>12, <1>13, <1>14, HandedLaid
<1> QED
    BY <1>15, LaidIsOut

\* File b may get another place, or lose it.
Replaced(b) ==
    /\ \A c \in Bindings : /\ file'[c].first = file[c].first /\ file'[c].size = file[c].size
                           /\ c # b => file'[c] = file[c]
    /\ Unbound' = Unbound /\ str' = str
    /\ \A t \in Closed' : t \in Closed /\ Contents(vol', Dir)[t].first = Entry(t).first

\* The steps of remove and rename that change the directory.
LEMMA PlacesLaid ==
    ASSUME IInv, DirInv, DirSound, NEW T, NEW root, NEW at, Laid(T, root, at), T = TableOf(vol'),
           NEW p \in Procs, op[p].pc \in {"newentry", "oldentry", "remove"}, \A q \in Procs : q # p => op[q] = Idle,
           NEW x \in Op, op' = [op EXCEPT ![p] = x], x.pc \in {"oldentry", "remove", "release"},
           x.job = op[p].job, NEW b \in Bindings \ Unbound, Replaced(b), EntriesLaid'
    PROVE  LaidOut'
<1>1. Chained(T, root, at) /\ StreamsLaid(root, at) /\ EntriesLaid /\ CallLaid(T, root, file, op[p], str[p])
    BY DEF Laid, CallsLaid
<1>2. \A q \in Procs : op'[q] = IF q = p THEN x ELSE Idle
    BY DEF IInv, CallsTyped
<1>3. op[p].job = "none" /\ ~Freeing(op[p])
    BY <1>1 DEF CallLaid, Freeing
<1>4. /\ \A c \in Bindings : /\ file'[c].first = file[c].first /\ file'[c].size = file[c].size
                             /\ c # b => file'[c] = file[c]
      /\ Unbound' = Unbound /\ str' = str
      /\ \A t \in Closed' : t \in Closed /\ Contents(vol', Dir)[t].first = Entry(t).first
    BY DEF Replaced
<1>5. Holding = Bindings \ Unbound /\ Holding' = Bindings \ Unbound
    <2>1. \A q \in Procs : op[q].job = "none" /\ op'[q].job = "none"
        BY <1>2, <1>3, IdleIs
    <2> QED
        BY <1>4, <2>1 DEF Holding, Discarding
<1>6. PICK old : old = Token(b)
    OBVIOUS
<1>7. PICK new : new = Token(b)'
    OBVIOUS
<1>8. ASSUME NEW c \in Bindings \ Unbound PROVE Token(c)' = IF Token(c) = old THEN new ELSE Token(c)
    <2>1. CASE c = b
        BY <1>6, <1>7, <2>1
    <2>2. CASE c # b
        <3>1. Token(c) # old
            BY <1>6, <2>2, TokensApart
        <3>2. Token(c)' = Token(c)
            BY <1>4, <2>2 DEF Token
        <3> QED
            BY <3>1, <3>2
    <2> QED
        BY <2>1, <2>2
<1>9. Passed(Firsts, Firsts', old, new)
    <2> SUFFICES ASSUME NEW y \in Firsts'
                 PROVE  \E z \in Firsts : z[2] = y[2] /\ y[1] = IF z[1] = old THEN new ELSE z[1]
        BY DEF Passed
    <2>1. CASE y \in {<<Token(c), file[c].first>> : c \in Holding}'
        <3>1. PICK c \in Bindings \ Unbound : y = <<Token(c)', file'[c].first>>
            BY <1>5, <2>1
        <3>2. PICK z : z = <<Token(c), file[c].first>>
            OBVIOUS
        <3>3. z \in Firsts
            BY <1>5, <3>2 DEF Firsts
        <3>4. z[2] = y[2] /\ z[1] = Token(c) /\ y[1] = Token(c)'
            BY <1>4, <3>1, <3>2
        <3> QED
            BY <1>8, <3>3, <3>4
    <2>2. CASE y \in {<<<<0, s>>, Entry(s).first>> : s \in Closed}'
        <3>1. PICK s \in Closed' : y = <<<<0, s>>, Contents(vol', Dir)[s].first>>
            BY <2>2 DEF Entry
        <3>2. s \in Closed /\ y = <<<<0, s>>, Entry(s).first>>
            BY <1>4, <3>1
        <3>3. y \in Firsts
            BY <3>2 DEF Firsts
        <3>4. y[1] # old
            BY <1>6, <3>2, TokensApart
        <3> QED
            BY <3>3, <3>4
    <2> QED
        BY <2>1, <2>2 DEF Firsts
<1>10. StreamsPass(old, new)
    <2> SUFFICES ASSUME NEW q \in Procs, str'[q].of # None
                 PROVE  /\ str'[q] = str[q]
                        /\ Token(str[q].of)' = IF Token(str[q].of) = old THEN new ELSE Token(str[q].of)
        BY DEF StreamsPass
    <2>1. PICK c \in Bindings \ Unbound : c = str[q].of
        BY <1>4, InUse
    <2>2. Token(c)' = IF Token(c) = old THEN new ELSE Token(c)
        BY <1>8
    <2>3. Token(str[q].of)' = Token(c)' /\ Token(str[q].of) = Token(c)
        BY <1>4, <2>1 DEF Token
    <2> QED
        BY <1>4, <2>2, <2>3
<1>11. StreamsFit'
    <2> SUFFICES ASSUME NEW q \in Procs, str'[q].of # None PROVE str'[q].pos <= file'[str'[q].of].size
        BY DEF StreamsFit
    <2>1. PICK c \in Bindings : c = str[q].of
        BY <1>4, InUse
    <2>2. str[q].pos <= file[c].size /\ file'[c].size = file[c].size
        BY <1>1, <1>4, <2>1 DEF StreamsLaid
    <2> QED
        BY <1>4, <2>1, <2>2
<1>12. Unharmed(root, root)
    BY <1>4 DEF Unharmed
<1>13. CallLaid(T, root, file', x, str'[p])
    BY <1>3 DEF CallLaid, Freeing
<1>14. Laid(T, root, at)'
    BY <1>1, <1>3, <1>9, <1>10, <1>11, <1>12, <1>13, HandedLaid
<1> QED
    BY <1>14, LaidIsOut

\* What an object is bound to has the first cluster of its entry.
LEMMA BoundFirst ==
    ASSUME NEW fs \in [Bindings -> Object], NEW b \in Bindings, NEW s, BoundTo(s) = {},
           Contents(vol, Dir) = vol.disk[Dir]
    PROVE  /\ Bound(fs, b, s)[b].slot = s /\ ~Bound(fs, b, s)[b].removed
           /\ Bound(fs, b, s)[b].first = Entry(s).first
<1>1. Bound(fs, b, s) = [fs EXCEPT ![b] = [NoFile EXCEPT !.slot = s, !.first = vol.disk[Dir][s].first,
                                                          !.size = vol.disk[Dir][s].size]]
    BY DEF Bound
<1>2. Bound(fs, b, s)[b] = [NoFile EXCEPT !.slot = s, !.first = vol.disk[Dir][s].first,
                                          !.size = vol.disk[Dir][s].size]
    BY <1>1
<1> QED
    BY <1>2 DEF NoFile, Entry

\* An object of file s: the one it has, or a free one with the entry's cluster.
Holds1(s, b) ==
    \/ /\ b \in BoundTo(s)
       /\ file'[b].slot = file[b].slot /\ file'[b].first = file[b].first /\ file'[b].removed = file[b].removed
    \/ /\ BoundTo(s) = {} /\ b \in Unbound
       /\ file'[b].slot = s /\ ~file'[b].removed /\ file'[b].first = Entry(s).first

\* A plain volume, and calls that are over: what may be bound.
LEMMA BindingOpens ==
    ASSUME IInv, \A q \in Procs : op[q] = Idle, NEW b \in Bindings, NEW s \in Named, Holds1(s, b)
    PROVE  \/ /\ b \notin Unbound /\ file'[b].slot = file[b].slot /\ file'[b].first = file[b].first
              /\ file'[b].removed = file[b].removed
           \/ /\ b \in Unbound /\ ~file'[b].removed /\ file'[b].slot \in Slots
              /\ file'[b].slot \in Closed /\ file'[b].first = Entry(file'[b].slot).first
<1>1. CASE b \in BoundTo(s)
    BY <1>1 DEF Holds1, BoundTo
<1>2. CASE b \notin BoundTo(s)
    <2>1. BoundTo(s) = {} /\ b \in Unbound /\ file'[b].slot = s /\ ~file'[b].removed /\ file'[b].first = Entry(s).first
        BY <1>2 DEF Holds1
    <2>2. s \in Closed /\ s \in Slots
        BY <2>1, IdleIs DEF Closed, Renaming, Named
    <2> QED
        BY <2>1, <2>2
<1> QED
    BY <1>1, <1>2

\* open.
LEMMA OpenLaid ==
    ASSUME IInv, DirInv, Intact', NEW root, NEW at, Laid(TableOf(vol), root, at), NEW p \in Procs, Open(p)
    PROVE  LaidOut' /\ TableOf(vol') = TableOf(vol)
<1>1. NoCall(p) /\ UNCHANGED <<vol, broken, op, writer>> /\ str[p].of = None
    BY DEF Open
<1>2. PICK n \in Names, trunc \in BOOLEAN : \E s \in SlotNamed(n) : Opened(p, trunc, s)
    BY DEF Open, Opened
<1>3. PICK s \in SlotNamed(n) : Opened(p, trunc, s)
    BY <1>2
<1> DEFINE b == Binding(s, {})
           fs == Bound(file, b, s)
           st == [str EXCEPT ![p] = [of |-> b, pos |-> 0, last |-> fs[b].first]]
<1>4. /\ file' = IF trunc THEN [fs EXCEPT ![b].trunc = TRUE, ![b].size = 0] ELSE fs
      /\ str' = IF trunc THEN Rewound(st, p, 0) ELSE st
      /\ BoundTo(s) \cup Unbound # {}
    BY <1>3 DEF Opened
<1>5. b \in BoundTo(s) \/ (BoundTo(s) = {} /\ b \in Unbound)
    <2>1. Unbound \ {} = Unbound
        OBVIOUS
    <2> QED
        BY <1>4, <2>1, BindingMade
<1>6. b \in Bindings /\ b # None /\ s \in Slots
    BY <1>3, <1>5, BindingsAssumption DEF SlotNamed, BoundTo, Unbound
<1> HIDE DEF b
<1>7. fs \in [Bindings -> Object]
    BY <1>6, BoundIs, Typing DEF FilesTyped
<1>8. /\ \A q \in Procs : op[q] = Idle /\ op[q].pc = "idle" /\ op[q].of = None /\ op[q].victim = None
      /\ Unbound = {c \in Bindings : Users(c) = {}}
      /\ s \in Named
    BY <1>1, <1>3, <1>6, NothingUnderWay
<1>9. /\ BoundTo(s) # {} => fs = file
      /\ BoundTo(s) = {} => /\ fs[b].slot = s /\ ~fs[b].removed /\ fs[b].first = Entry(s).first
                            /\ \A a \in Bindings : a # b => fs[a] = file[a]
    BY <1>1, <1>6, AloneFacts, BoundFirst, BoundMade, Typing DEF FilesTyped
<1> HIDE DEF fs
<1>10. \A a \in Bindings : /\ file'[a].slot = fs[a].slot /\ file'[a].removed = fs[a].removed
                           /\ file'[a].first = fs[a].first
                           /\ a # b \/ ~trunc => file'[a].size = fs[a].size
    BY <1>4, <1>7 DEF Object
<1>11. \A q \in Procs : st[q] = IF q = p THEN [of |-> b, pos |-> 0, last |-> fs[b].first] ELSE str[q]
    BY Typing DEF FilesTyped
<1> HIDE DEF st
<1>12. ASSUME NEW q \in Procs
       PROVE  /\ str'[q].of = IF q = p THEN b ELSE str[q].of
              /\ \/ str'[q].pos = 0
                 \/ str'[q] = str[q] /\ (str[q].of = b => ~trunc)
    <2>1. CASE ~trunc
        BY <1>4, <1>11, <2>1
    <2>2. CASE trunc
        <3>1. str'[q] = IF st[q].of = st[p].of /\ st[q].pos > 0
                        THEN [st[q] EXCEPT !.pos = st[p].pos, !.last = st[p].last] ELSE st[q]
            BY <1>4, <2>2 DEF Rewound
        <3>2. st[p].pos = 0 /\ st[p].of = b
            BY <1>11
        <3>3. CASE q = p
            BY <3>1, <3>2, <3>3
        <3>4. CASE q # p
            <4>1. st[q] = str[q] /\ str[q] \in Stream
                BY <1>11, <3>4, Typing
            <4>2. CASE str[q].of = b /\ str[q].pos > 0
                BY <3>1, <3>2, <3>4, <4>1, <4>2 DEF Stream
            <4>3. CASE ~(str[q].of = b /\ str[q].pos > 0)
                <5>1. str'[q] = str[q] /\ (str[q].of # b \/ str[q].pos = 0)
                    BY <3>1, <3>2, <4>1, <4>3 DEF Stream
                <5> QED
                    BY <3>4, <5>1
            <4> QED
                BY <4>2, <4>3
        <3> QED
            BY <3>3, <3>4
    <2> QED
        BY <2>1, <2>2
<1>13. Holds1(s, b)
    BY <1>5, <1>6, <1>9, <1>10 DEF Holds1
<1>14. Opens
    <2>1. \A c \in Bindings : c \notin Unbound => c \notin Unbound'
        BY <1>1, <1>8, <1>12 DEF Unbound, Users
    <2>2. \A c \in Bindings : c # b /\ c \in Unbound => c \in Unbound'
        BY <1>1, <1>8, <1>12 DEF Unbound, Users
    <2>3. \A c \in Bindings : c # b => /\ file'[c].slot = file[c].slot /\ file'[c].first = file[c].first
                                       /\ file'[c].removed = file[c].removed
        BY <1>9, <1>10
    <2>4. \/ /\ b \notin Unbound /\ file'[b].slot = file[b].slot /\ file'[b].first = file[b].first
             /\ file'[b].removed = file[b].removed
          \/ /\ b \in Unbound /\ ~file'[b].removed /\ file'[b].slot \in Slots
             /\ file'[b].slot \in Closed /\ file'[b].first = Entry(file'[b].slot).first
        BY <1>6, <1>8, <1>13, BindingOpens
    <2> QED
        BY <1>6, <2>1, <2>2, <2>3, <2>4 DEF Opens
<1>15. SlotsKept
    BY <1>1 DEF SlotsKept, Named, Entry
<1>16. StreamsOpen
    <2> SUFFICES ASSUME NEW q \in Procs, str'[q].of # None, str'[q].pos # 0
                 PROVE  str'[q] = str[q] /\ file'[str[q].of].size = file[str[q].of].size
        BY DEF StreamsOpen
    <2>1. str'[q] = str[q] /\ (str[q].of = b => ~trunc)
        BY <1>12
    <2>2. PICK c \in Bindings \ Unbound : c = str[q].of
        BY <2>1, InUse
    <2>3. fs[c] = file[c]
        BY <1>5, <1>9, <2>2
    <2>4. file'[c].size = fs[c].size
        BY <1>10, <2>1, <2>2
    <2> QED
        BY <2>1, <2>2, <2>3, <2>4
<1>17. FilesTyped'
    BY OpenKeeps DEF IInv
<1>18. DirSound
    BY <1>1, IsIntact
<1>19. op' = [op EXCEPT ![p] = Idle] /\ Idle \in Op /\ Idle.pc = "idle" /\ Idle.job = "none"
    BY <1>1, <1>8, Typing, IdleIs
<1>20. PICK T : T = TableOf(vol)
    OBVIOUS
<1>21. T = TableOf(vol') /\ Laid(T, root, at) /\ \A q \in Procs : op[q] = Idle
    BY <1>1, <1>8, <1>20
<1>22. LaidOut'
    BY <1>14, <1>15, <1>16, <1>17, <1>18, <1>19, <1>21, OpensLaid
<1> QED
    BY <1>1, <1>22

\* remove begins.
LEMMA RemoveFileLaid ==
    ASSUME IInv, DirInv, Intact', NEW root, NEW at, Laid(TableOf(vol), root, at), NEW p \in Procs, RemoveFile(p)
    PROVE  LaidOut' /\ TableOf(vol') = TableOf(vol)
<1>1. NoCall(p) /\ UNCHANGED <<vol, broken, str>>
    BY DEF RemoveFile, Alone
<1>2. PICK n \in Names : \E s \in SlotNamed(n) :
          /\ BoundTo(s) \cup Unbound # {}
          /\ op' = [op EXCEPT ![p] = [Idle EXCEPT !.pc = "remove", !.of = Binding(s, {})]]
          /\ file' = Bound(file, Binding(s, {}), s)
    BY DEF RemoveFile
<1>3. PICK s \in SlotNamed(n) :
          /\ BoundTo(s) \cup Unbound # {}
          /\ op' = [op EXCEPT ![p] = [Idle EXCEPT !.pc = "remove", !.of = Binding(s, {})]]
          /\ file' = Bound(file, Binding(s, {}), s)
    BY <1>2
<1> DEFINE b == Binding(s, {})
           x == [Idle EXCEPT !.pc = "remove", !.of = b]
<1>4. b \in BoundTo(s) \/ (BoundTo(s) = {} /\ b \in Unbound)
    <2>1. Unbound \ {} = Unbound
        OBVIOUS
    <2> QED
        BY <1>3, <2>1, BindingMade
<1>5. /\ b \in Bindings /\ b # None /\ s \in Slots /\ op' = [op EXCEPT ![p] = x]
      /\ file' = Bound(file, b, s)
    BY <1>3, <1>4, BindingsAssumption DEF SlotNamed, BoundTo, Unbound
<1> HIDE DEF b
<1>6. x \in Op /\ x.pc = "remove" /\ x.job = "none" /\ x.of = b /\ x.victim = None
    BY <1>5, IdleIs DEF Op, Idle
<1> HIDE DEF x
<1>7. /\ BoundTo(s) # {} => file' = file
      /\ BoundTo(s) = {} => /\ file'[b].slot = s /\ ~file'[b].removed /\ file'[b].first = Entry(s).first
                            /\ \A a \in Bindings : a # b => file'[a] = file[a]
    BY <1>1, <1>5, AloneFacts, BoundFirst, BoundMade, Typing DEF FilesTyped
<1>8. /\ \A q \in Procs : op[q] = Idle /\ op[q].pc = "idle" /\ op[q].of = None /\ op[q].victim = None
      /\ Unbound = {c \in Bindings : Users(c) = {}}
      /\ s \in Named
    BY <1>1, <1>3, <1>5, NothingUnderWay
<1>9. Holds1(s, b)
    BY <1>4, <1>7 DEF Holds1
<1>10. Opens
    <2>1. \A q \in Procs : op'[q] = IF q = p THEN x ELSE Idle
        BY <1>5, <1>8, Typing
    <2>2. \A c \in Bindings : c \notin Unbound => c \notin Unbound'
        BY <1>1, <1>8 DEF Unbound, Users
    <2>3. \A c \in Bindings : c # b /\ c \in Unbound => c \in Unbound'
        BY <1>1, <1>6, <1>8, <2>1, BindingsAssumption DEF Unbound, Users, Idle
    <2>4. \/ /\ b \notin Unbound /\ file'[b].slot = file[b].slot /\ file'[b].first = file[b].first
             /\ file'[b].removed = file[b].removed
          \/ /\ b \in Unbound /\ ~file'[b].removed /\ file'[b].slot \in Slots
             /\ file'[b].slot \in Closed /\ file'[b].first = Entry(file'[b].slot).first
        BY <1>5, <1>8, <1>9, BindingOpens
    <2>5. \A c \in Bindings : c # b => file'[c] = file[c]
        BY <1>7
    <2> QED
        BY <1>5, <2>2, <2>3, <2>4, <2>5 DEF Opens
<1>11. SlotsKept
    BY <1>1 DEF SlotsKept, Named, Entry
<1>12. StreamsOpen
    <2> SUFFICES ASSUME NEW q \in Procs, str'[q].of # None
                 PROVE  str'[q] = str[q] /\ file'[str[q].of].size = file[str[q].of].size
        BY DEF StreamsOpen
    <2>1. PICK c \in Bindings \ Unbound : c = str[q].of
        BY <1>1, InUse
    <2>2. file'[c] = file[c]
        BY <1>4, <1>7, <2>1
    <2> QED
        BY <1>1, <2>1, <2>2
<1>13. FilesTyped'
    BY RemoveFileKeeps DEF IInv
<1>14. DirSound
    BY <1>1, IsIntact
<1>15. PICK T : T = TableOf(vol)
    OBVIOUS
<1>16. T = TableOf(vol') /\ Laid(T, root, at) /\ \A q \in Procs : op[q] = Idle
    BY <1>1, <1>8, <1>15
<1>17. LaidOut'
    BY <1>5, <1>6, <1>10, <1>11, <1>12, <1>13, <1>14, <1>16, OpensLaid
<1> QED
    BY <1>1, <1>17

\* Writing an entry of the directory leaves the table alone.
LEMMA EntryTable ==
    ASSUME IInv, NEW s, NEW entry \in DirSlot
    PROVE  LET r == PutSlot(vol, s, entry).d
           IN TableOf(r) = TableOf(vol) /\ TableOf(Commit(r)) = TableOf(vol) /\ Good(r)
<1> DEFINE r == PutSlot(vol, s, entry).d
<1>1. Good(vol)
    BY DEF IInv, VolKnown
<1>2. Moves(vol, r, {Dir})
    BY <1>1, PutSlotIs
<1> HIDE DEF r
<1>3. Good(r)
    BY <1>1, <1>2, GoodAfter
<1>4. Moves(r, Commit(r), {Info})
    BY <1>3, CommitIs
<1>5. TableOf(r) = TableOf(vol)
    BY <1>2, TableStays, Geometry
<1>6. TableOf(Commit(r)) = TableOf(r)
    BY <1>4, TableStays, Geometry
<1> QED
    BY <1>3, <1>5, <1>6 DEF r

\* creat.
LEMMA CreateLaid ==
    ASSUME IInv, DirInv, Intact', NEW root, NEW at, Laid(TableOf(vol), root, at), NEW p \in Procs, Create(p)
    PROVE  LaidOut' /\ TableOf(vol') = TableOf(vol)
<1> DEFINE s == Lowest(FreeSlots(Contents(vol, Dir)))
           b == Lowest(Unbound)
           new(n) == [FreeSlot EXCEPT !.name = n]
           u(n) == PutSlot(vol, s, new(n))
           made == /\ file' = [file EXCEPT ![b] = [NoFile EXCEPT !.slot = s]]
                   /\ str' = [str EXCEPT ![p] = [NoStream EXCEPT !.of = b]]
<1>1. /\ NoCall(p) /\ Unbound # {} /\ FreeSlots(vol.disk[Dir]) # {} /\ str[p].of = None
      /\ UNCHANGED <<broken, op, writer>>
    BY DEF Create, Alone
<1>2. PICK n \in Names : vol' = Commit(u(n).d) /\ IF u(n).ok THEN made ELSE UNCHANGED <<file, str>>
    BY DEF Create
<1>3. s \in FreeSlots(Contents(vol, Dir)) /\ s \in Slots /\ b \in Unbound /\ b \in Bindings
    <2>1. FreeSlots(Contents(vol, Dir)) # {}
        BY <1>1, AloneFacts
    <2>2. Unbound \subseteq Bindings /\ Unbound \subseteq Nat
        BY BindingsAssumption DEF Unbound
    <2> QED
        BY <1>1, <2>1, <2>2, FreeSlotIs, LowestIn
<1> HIDE DEF s, b
<1>4. new(n) \in DirSlot /\ new(n).first = None
    BY FreeSlotIs DEF DirSlot, FreeSlot
<1> HIDE DEF new
<1>5. DirSound /\ Dir \notin broken
    BY <1>1, IsIntact DEF Intact
<1>6. u(n).ok
    BY <1>4, <1>5, Legible
<1>7. \A t \in Slots : Contents(vol', Dir)[t] = IF t = s THEN new(n) ELSE Contents(vol, Dir)[t]
    BY <1>2, <1>3, <1>4, <1>6, Typing, PutShows
<1>8. TableOf(vol') = TableOf(vol)
    BY <1>2, <1>4, EntryTable
<1>9. made
    BY <1>2, <1>6
<1> HIDE DEF u
<1>10. /\ file'[b].slot = s /\ ~file'[b].removed /\ file'[b].first = None
       /\ \A a \in Bindings : a # b => file'[a] = file[a]
    BY <1>3, <1>9, Typing DEF FilesTyped, NoFile
<1>11. /\ \A q \in Procs : q # p => str'[q] = str[q]
       /\ str'[p].of = b /\ str'[p].pos = 0
    BY <1>9, Typing DEF FilesTyped, NoStream
<1>12. \A q \in Procs : op[q] = Idle /\ op[q].of = None /\ op[q].victim = None
    BY <1>1, NothingUnderWay
<1>13. s \notin Named
    BY <1>3 DEF Named, Entry, FreeSlots
<1>14. Opens
    <2>1. \A c \in Bindings : c \notin Unbound => c \notin Unbound'
        BY <1>1, <1>11, <1>12 DEF Unbound, Users
    <2>2. \A c \in Bindings : c # b /\ c \in Unbound => c \in Unbound'
        BY <1>1, <1>11, <1>12 DEF Unbound, Users
    <2>3. Contents(vol', Dir)[s].first = None
        BY <1>3, <1>4, <1>7
    <2> QED
        BY <1>3, <1>10, <1>13, <2>1, <2>2, <2>3 DEF Opens
<1>15. SlotsKept
    <2> SUFFICES ASSUME NEW t \in Slots
                 PROVE  IF t \in Named THEN Contents(vol', Dir)[t].first = Entry(t).first
                        ELSE Contents(vol', Dir)[t].first = None \/ t \notin Named'
        BY DEF SlotsKept
    <2>1. CASE t = s
        BY <1>4, <1>7, <1>13, <2>1
    <2>2. CASE t # s
        BY <1>7, <2>2 DEF Named, Entry
    <2> QED
        BY <2>1, <2>2
<1>16. StreamsOpen
    <2> SUFFICES ASSUME NEW q \in Procs, str'[q].of # None, str'[q].pos # 0
                 PROVE  str'[q] = str[q] /\ file'[str[q].of].size = file[str[q].of].size
        BY DEF StreamsOpen
    <2>1. str'[q] = str[q]
        BY <1>11
    <2>2. PICK c \in Bindings \ Unbound : c = str[q].of
        BY <2>1, InUse
    <2>3. file'[c] = file[c]
        BY <1>3, <1>10, <2>2
    <2> QED
        BY <2>1, <2>2, <2>3
<1>17. FilesTyped'
    BY CreateKeeps DEF IInv
<1>18. op' = [op EXCEPT ![p] = Idle] /\ Idle \in Op /\ Idle.pc = "idle" /\ Idle.job = "none"
    BY <1>1, <1>12, Typing, IdleIs
<1>19. PICK T : T = TableOf(vol)
    OBVIOUS
<1>20. T = TableOf(vol') /\ Laid(T, root, at) /\ \A q \in Procs : op[q] = Idle
    BY <1>8, <1>12, <1>19
<1>21. LaidOut'
    BY <1>5, <1>14, <1>15, <1>16, <1>17, <1>18, <1>20, OpensLaid
<1> QED
    BY <1>8, <1>21

\* rename begins.
LEMMA RenameLaid ==
    ASSUME IInv, DirInv, Intact', NEW root, NEW at, Laid(TableOf(vol), root, at), NEW p \in Procs, Rename(p)
    PROVE  LaidOut' /\ TableOf(vol') = TableOf(vol)
<1>1. NoCall(p) /\ writer' = p /\ UNCHANGED <<vol, broken, str>>
    BY DEF Rename, Alone
<1>2. PICK old \in Names : \E new \in Names \ {old} : \E s \in SlotNamed(old) : Renamed(p, new, s)
    BY DEF Rename, Renamed
<1>3. PICK new \in Names \ {old} : \E s \in SlotNamed(old) : Renamed(p, new, s)
    BY <1>2
<1>4. PICK s \in SlotNamed(old) : Renamed(p, new, s)
    BY <1>3
<1> DEFINE b == Binding(s, {})
           t == SlotNamed(new)
           l == Lowest(t)
           v == IF t = {} THEN None ELSE Binding(l, {b})
           fs == Bound(file, b, s)
           x == [Idle EXCEPT !.pc = "newentry", !.of = b, !.victim = v, !.name = new]
<1>5. /\ BoundTo(s) \cup Unbound # {}
      /\ t # {} => BoundTo(l) \cup (Unbound \ {b}) # {}
      /\ file' = IF t = {} THEN fs ELSE Bound(fs, v, l)
      /\ op' = [op EXCEPT ![p] = x]
    BY <1>4 DEF Renamed
<1>6. /\ \A q \in Procs : op[q] = Idle /\ op[q].pc = "idle" /\ op[q].of = None /\ op[q].victim = None
      /\ s \in Slots /\ s \in Named /\ Entry(s).name = old
      /\ t # {} => l \in Slots /\ l \in Named /\ Entry(l).name = new
    <2>1. t \subseteq Slots /\ s \in Slots
        BY <1>4 DEF SlotNamed
    <2>2. t # {} => l \in t
        <3>1. t \subseteq Nat
            BY <2>1, Geometry
        <3> HIDE DEF t
        <3> QED
            BY <3>1, LowestIn
    <2> QED
        BY <1>1, <1>4, <2>1, <2>2, NothingUnderWay
<1>7. b \in Bindings /\ (b \in BoundTo(s) \/ (BoundTo(s) = {} /\ b \in Unbound))
    <2>1. Unbound \ {} = Unbound
        OBVIOUS
    <2> QED
        BY <1>5, <2>1, BindingMade DEF BoundTo, Unbound
<1> HIDE DEF b
<1>8. t # {} => v \in Bindings /\ (v \in BoundTo(l) \/ (BoundTo(l) = {} /\ v \in Unbound \ {b}))
    <2>1. t # {} => v \in BoundTo(l) \/ (BoundTo(l) = {} /\ v \in Unbound \ {b})
        BY <1>5, BindingMade
    <2> HIDE DEF v, t, l
    <2>2. BoundTo(l) \subseteq Bindings /\ Unbound \subseteq Bindings
        BY DEF BoundTo, Unbound
    <2> QED
        BY <2>1, <2>2
<1>9. /\ t = {} => v = None
      /\ t # {} => v # None /\ v # b /\ l # s
    <2>1. t # {} => l # s
        BY <1>3, <1>6
    <2>2. t # {} => v # None
        BY <1>8, BindingsAssumption
    <2> HIDE DEF t, l, v
    <2>3. t # {} => v # b
        BY <1>7, <1>8, <2>1 DEF BoundTo
    <2> QED
        BY <2>1, <2>2, <2>3 DEF t, v
<1> HIDE DEF t, l, v
<1>10. Contents(vol, Dir) = vol.disk[Dir]
    BY <1>1, AloneFacts
<1>11. /\ fs \in [Bindings -> Object]
       /\ BoundTo(s) # {} => fs = file
       /\ BoundTo(s) = {} => /\ fs[b].slot = s /\ ~fs[b].removed /\ fs[b].first = Entry(s).first
                             /\ \A a \in Bindings : a # b => fs[a] = file[a]
    <2>1. file \in [Bindings -> Object] /\ fs \in [Bindings -> Object]
        BY <1>6, <1>7, BoundIs, Typing DEF FilesTyped
    <2>2. BoundTo(s) = {} => fs[b].first = Entry(s).first
        BY <1>7, <1>10, <2>1, BoundFirst
    <2> QED
        BY <1>7, <2>1, <2>2, BoundMade
<1> HIDE DEF fs
<1>12. t # {} => /\ BoundTo(l) # {} => file' = fs
                 /\ BoundTo(l) = {} => /\ file'[v].slot = l /\ ~file'[v].removed /\ file'[v].first = Entry(l).first
                                       /\ \A a \in Bindings : a # v => file'[a] = fs[a]
    BY <1>5, <1>8, <1>10, <1>11, BoundFirst, BoundMade
<1>13. x \in Op /\ x.pc = "newentry" /\ x.job = "none" /\ x.of = b /\ x.victim = v
    <2>1. v \in {None} \cup Bindings
        BY <1>8, <1>9
    <2> QED
        BY <1>3, <1>7, <2>1, IdleIs DEF Op, Idle
<1> HIDE DEF x
<1>14. Holds1(s, b)
    <2>1. file'[b] = fs[b]
        BY <1>5, <1>7, <1>9, <1>12
    <2> QED
        BY <1>7, <1>11, <2>1 DEF Holds1
<1>15. t # {} => Holds1(l, v)
    <2>1. t # {} => fs[v] = file[v]
        BY <1>8, <1>9, <1>11
    <2> QED
        BY <1>8, <1>12, <2>1 DEF Holds1
<1>16. \A a \in Bindings : a # b /\ a # v => file'[a] = file[a]
    BY <1>5, <1>9, <1>11, <1>12
<1>17. \A q \in Procs : op'[q] = IF q = p THEN x ELSE Idle
    BY <1>5, <1>6, Typing
<1>18. Opens
    <2>1. \A c \in Bindings : c \notin Unbound => c \notin Unbound'
        <3>1. Unbound = {c \in Bindings : Users(c) = {}}
            BY <1>1, NothingUnderWay
        <3> QED
            BY <1>1, <3>1 DEF Unbound, Users
    <2>2. \A c \in Bindings : c # b /\ c # v /\ c \in Unbound => c \in Unbound'
        BY <1>1, <1>13, <1>17, BindingsAssumption DEF Unbound, Users, Idle
    <2> SUFFICES ASSUME NEW c \in Bindings
                 PROVE  \/ /\ file'[c].slot = file[c].slot /\ file'[c].first = file[c].first
                           /\ file'[c].removed = file[c].removed
                           /\ c \in Unbound => c \in Unbound'
                        \/ /\ c \in Unbound /\ ~file'[c].removed /\ file'[c].slot \in Slots
                           /\ file'[c].slot \in Closed /\ file'[c].first = Entry(file'[c].slot).first
        BY <2>1 DEF Opens
    <2>3. CASE c # b /\ c # v
        BY <1>16, <2>2, <2>3
    <2>4. CASE c = b
        BY <1>6, <1>14, <2>4, BindingOpens
    <2>5. CASE c = v
        <3>1. t # {}
            BY <1>9, <2>5, BindingsAssumption
        <3> QED
            BY <1>6, <1>15, <2>5, <3>1, BindingOpens
    <2> QED
        BY <2>3, <2>4, <2>5
<1>19. SlotsKept
    BY <1>1 DEF SlotsKept, Named, Entry
<1>20. StreamsOpen
    <2> SUFFICES ASSUME NEW q \in Procs, str'[q].of # None
                 PROVE  str'[q] = str[q] /\ file'[str[q].of].size = file[str[q].of].size
        BY DEF StreamsOpen
    <2>1. PICK c \in Bindings \ Unbound : c = str[q].of
        BY <1>1, InUse
    <2>2. fs[c] = file[c]
        BY <1>7, <1>11, <2>1
    <2>3. file'[c] = fs[c]
        BY <1>5, <1>8, <1>12, <2>1
    <2> QED
        BY <1>1, <2>1, <2>2, <2>3
<1>21. FilesTyped'
    BY RenameKeeps DEF IInv
<1>22. DirSound
    BY <1>1, IsIntact
<1>23. PICK T : T = TableOf(vol)
    OBVIOUS
<1>24. T = TableOf(vol') /\ Laid(T, root, at) /\ \A q \in Procs : op[q] = Idle
    BY <1>1, <1>6, <1>23
<1>25. LaidOut'
    BY <1>5, <1>13, <1>18, <1>19, <1>20, <1>21, <1>22, <1>24, OpensLaid
<1> QED
    BY <1>1, <1>25

\* The entries of the files that are open stay theirs, when none is left over.
LEMMA PlacedEntries ==
    ASSUME IInv, DirSound, EntriesLaid, NEW b \in Bindings,
           Live' \subseteq Live, \A q \in Procs : op[q].pc # "entry",
           \A a \in Bindings : a # b => file'[a] = file[a],
           \A a \in Live : a # b => Contents(vol', Dir)[file[a].slot].first = Entry(file[a].slot).first,
           file'[b].removed => file'[b].slot = NoSlot,
           b \in Live' => Contents(vol', Dir)[file'[b].slot].first \in {None, file'[b].first},
           \A q \in Procs : op'[q].pc = "oldentry" =>
               Contents(vol', Dir)[op'[q].cur].first \in {None, file'[op'[q].of].first}
    PROVE  EntriesLaid'
<1>1. \A a \in Bindings : file'[a].removed => file'[a].slot = NoSlot
    BY DEF EntriesLaid
<1>2. ASSUME NEW a \in Live' PROVE Contents(vol', Dir)[file'[a].slot].first \in {None, file'[a].first}
    <2>1. CASE a = b
        BY <1>2, <2>1
    <2>2. CASE a # b
        <3>1. a \in Bindings /\ a \in Live
            BY DEF Live
        <3>2. Entry(file[a].slot).first \in {None, file[a].first}
            BY <3>1 DEF EntriesLaid, EntryLaid
        <3> QED
            BY <2>2, <3>1, <3>2
    <2> QED
        BY <2>1, <2>2
<1> QED
    BY <1>1, <1>2 DEF EntriesLaid, EntryLaid, Entry

\* The new entry of a file that is renamed.
LEMMA NewEntryLaid ==
    ASSUME IInv, DirInv, Intact', NEW root, NEW at, Laid(TableOf(vol), root, at), NEW p \in Procs, NewEntry(p)
    PROVE  LaidOut' /\ TableOf(vol') = TableOf(vol)
<1> DEFINE f == file[op[p].of]
           s == Lowest(FreeSlots(Contents(vol, Dir)))
           old == Contents(vol, Dir)[f.slot]
           new == [old EXCEPT !.name = op[p].name, !.first = f.first]
           u == PutSlot(vol, s, new)
           x == [op[p] EXCEPT !.pc = "oldentry", !.cur = s]
<1>1. /\ At(p, "newentry") /\ UNCHANGED <<file, str, writer>>
      /\ vol' = IF u.ok THEN u.d ELSE Commit(u.d)
      /\ op' = IF u.ok THEN [op EXCEPT ![p].pc = "oldentry", ![p].cur = s]
               ELSE [op EXCEPT ![p].pc = "release"]
    BY DEF NewEntry
<1>2. op[p].pc = "newentry" /\ broken' = broken
    BY <1>1 DEF At
<1>3. /\ op[p].name \in Names /\ f.slot \in Slots /\ f.first \in {None} \cup Clusters
      /\ s \in FreeSlots(Contents(vol, Dir)) /\ s \in Slots
    <2>1. Ready(op[p]) /\ op[p].of \in Bindings
        BY <1>2, Typing DEF IInv, RenamesReady, Known
    <2> QED
        BY <2>1, FreeSlotIs, ObjectFields DEF Ready
<1>4. Contents(vol, Dir) \in [Slots -> DirSlot]
    BY Typing, ContentsIs, Geometry DEF Data
<1>5. PICK first : first = f.first
    OBVIOUS
<1> HIDE DEF f, s
<1>6. new \in DirSlot /\ new.first = first
    <2>1. old \in DirSlot
        BY <1>3, <1>4
    <2> HIDE DEF old
    <2> QED
        BY <1>3, <1>5, <2>1 DEF DirSlot
<1> HIDE DEF new, old
<1>7. DirSound /\ Dir \notin broken
    BY <1>2, IsIntact DEF Intact
<1>8. u.ok
    BY <1>6, <1>7, Legible
<1>9. \A t \in Slots : Contents(vol', Dir)[t] = IF t = s THEN new ELSE Contents(vol, Dir)[t]
    BY <1>1, <1>3, <1>6, <1>8, Typing, PutShows
<1>10. TableOf(vol') = TableOf(vol)
    BY <1>1, <1>6, <1>8, EntryTable
<1>11. op' = [op EXCEPT ![p] = x]
    BY <1>1, <1>8, Typing DEF Op
<1> HIDE DEF u
<1>12. x \in Op /\ x.of = op[p].of /\ x.victim = op[p].victim /\ x.job = op[p].job /\ x.pc = "oldentry" /\ x.cur = s
    <2>1. op[p] \in Op /\ s \in Int
        BY <1>3, Typing, Geometry
    <2> QED
        BY <2>1 DEF Op
<1> HIDE DEF x
<1>13. Unbound' = Unbound /\ \A q \in Procs : op'[q] = IF q = p THEN x ELSE Idle
    BY <1>1, <1>2, <1>11, <1>12, EntryStep
<1>14. \A q \in Procs : q # p => op[q] = Idle /\ op[q].pc = "idle"
    BY <1>2, AtEntry
<1>15. PICK b \in Bindings \ Unbound : b = op[p].of
    BY <1>2, AtEntry
<1>16. s \notin Named /\ Named' \subseteq Named \cup {s} /\ \A t \in Named : Contents(vol', Dir)[t] = Entry(t)
    BY <1>3, <1>9 DEF Named, Entry, FreeSlots
<1>17. Replaced(b)
    <2>1. ASSUME NEW t \in Closed' PROVE t \in Closed /\ Contents(vol', Dir)[t].first = Entry(t).first
        <3>1. t \in Named' /\ BoundTo(t)' = {} /\ ~Renaming(t)'
            BY DEF Closed
        <3>2. t # s
            BY <1>12, <1>13, <3>1 DEF Renaming
        <3>3. t \in Named
            BY <1>16, <3>1, <3>2
        <3>4. BoundTo(t) = {}
            BY <1>1, <1>13, <3>1 DEF BoundTo
        <3>5. ~Renaming(t)
            BY <1>2, <1>14 DEF Renaming
        <3> QED
            BY <1>16, <3>3, <3>4, <3>5 DEF Closed
    <2> QED
        BY <1>1, <1>13, <2>1 DEF Replaced
<1>18. EntriesLaid'
    <2>1. EntriesLaid
        BY DEF Laid
    <2>2. Live' = Live
        BY <1>1, <1>13 DEF Live
    <2>3. \A q \in Procs : op[q].pc # "entry"
        BY <1>2, <1>14
    <2>4. \A a \in Live : Contents(vol', Dir)[file[a].slot].first = Entry(file[a].slot).first
        BY <1>7, <1>16 DEF DirSound, Placed
    <2>5. file'[b].removed => file'[b].slot = NoSlot
        BY <1>1, <2>1 DEF EntriesLaid
    <2>6. b \in Live' => Contents(vol', Dir)[file'[b].slot].first \in {None, file'[b].first}
        <3>1. b \in Live => Entry(file[b].slot).first \in {None, file[b].first}
            BY <2>1, <2>3 DEF EntriesLaid, EntryLaid
        <3> QED
            BY <1>1, <2>2, <2>4, <3>1
    <2>7. ASSUME NEW q \in Procs, op'[q].pc = "oldentry"
          PROVE  Contents(vol', Dir)[op'[q].cur].first \in {None, file'[op'[q].of].first}
        <3>1. op'[q].cur = s /\ op'[q].of = b
            BY <1>12, <1>13, <1>15, <2>7, IdleIs
        <3>2. Contents(vol', Dir)[s].first = file[b].first
            BY <1>3, <1>5, <1>6, <1>9, <1>15 DEF f
        <3> QED
            BY <1>1, <3>1, <3>2
    <2> QED
        BY <1>1, <1>7, <2>1, <2>2, <2>3, <2>4, <2>5, <2>6, <2>7, PlacedEntries
<1>19. PICK T : T = TableOf(vol)
    OBVIOUS
<1>20. T = TableOf(vol') /\ Laid(T, root, at)
    BY <1>10, <1>19
<1>21. LaidOut'
    BY <1>2, <1>7, <1>11, <1>12, <1>14, <1>17, <1>18, <1>20, PlacesLaid
<1> QED
    BY <1>10, <1>21

\* The old entry of a file that is renamed is freed.
LEMMA OldEntryLaid ==
    ASSUME IInv, DirInv, Intact', NEW root, NEW at, Laid(TableOf(vol), root, at), NEW p \in Procs, OldEntry(p)
    PROVE  LaidOut' /\ TableOf(vol') = TableOf(vol)
<1> DEFINE v == op[p].victim
<1>1. PICK b : b = op[p].of
    OBVIOUS
<1>2. PICK k : k = op[p].cur
    OBVIOUS
<1> DEFINE u == PutSlot(vol, file[b].slot, FreeSlot)
           w == PutSlot(u.d, k, FreeSlot)
<1>3. /\ At(p, "oldentry") /\ UNCHANGED <<str, writer>>
      /\ vol' = OldFreed(p).d
      /\ file' = IF OldFreed(p).ok THEN [file EXCEPT ![b].slot = k] ELSE file
      /\ Goto(p, IF OldFreed(p).ok /\ v # None THEN "remove" ELSE "release")
    BY <1>1, <1>2 DEF OldEntry
<1>4. /\ op[p].pc = "oldentry" /\ broken' = broken /\ k \in Slots
      /\ b \in Bindings \ Unbound
    BY <1>1, <1>2, <1>3, Typing, AtEntry DEF At, Known
<1>5. OldFreed(p).d = Commit(IF u.ok THEN u.d ELSE w.d) /\ OldFreed(p).ok = u.ok
    BY <1>1, <1>2 DEF OldFreed, PutSlot, PutIn
<1>6. DirSound /\ Dir \notin broken
    BY <1>4, IsIntact DEF Intact
<1>7. u.ok
    BY <1>6, FreeSlotIs, Legible
<1>8. TableOf(vol') = TableOf(vol)
    BY <1>3, <1>5, <1>7, FreeSlotIs, EntryTable
<1>9. file' = [file EXCEPT ![b].slot = k] /\ file \in [Bindings -> Object]
    BY <1>3, <1>5, <1>7, Typing DEF FilesTyped
<1>10. /\ file'[b].slot = k /\ file'[b].removed = file[b].removed
       /\ file'[b].first = file[b].first /\ file'[b].size = file[b].size
       /\ \A a \in Bindings : a # b => file'[a] = file[a]
    BY <1>4, <1>9 DEF Object
<1>11. PICK pc \in {"remove", "release"} : Goto(p, pc)
    BY <1>3
<1>12. PICK x \in Op : /\ op' = [op EXCEPT ![p] = x] /\ x.of = op[p].of /\ x.victim = op[p].victim
                       /\ x.job = op[p].job /\ x.pc = pc
    BY <1>11, GotoIs
<1>13. x.pc \in {"oldentry", "remove", "release"} /\ x.pc # "oldentry"
    BY <1>11, <1>12
<1>14. Unbound' = Unbound /\ \A q \in Procs : op'[q] = IF q = p THEN x ELSE Idle
    BY <1>3, <1>4, <1>12, <1>13, EntryStep
<1>15. \A q \in Procs : q # p => op[q] = Idle /\ op[q].pc = "idle"
    BY <1>4, AtEntry
<1>16. b \in Live /\ k \in Named /\ \A a \in Live : file[a].slot # k
    BY <1>1, <1>2, <1>4, <1>6 DEF DirSound, RenameKnown, Live
<1>17. file[b].slot \in Slots
    BY <1>6, <1>16 DEF DirSound, Placed, Named
<1>18. \A t \in Slots : Contents(vol', Dir)[t] = IF t = file[b].slot THEN FreeSlot ELSE Contents(vol, Dir)[t]
    BY <1>3, <1>5, <1>7, <1>17, FreeSlotIs, Typing, PutShows
<1> HIDE DEF u, w
<1>19. /\ Named' = Named \ {file[b].slot} /\ \A t \in Named' : Contents(vol', Dir)[t] = Entry(t)
       /\ \A a \in Live : a # b => file[a].slot \in Named'
    BY <1>6, <1>16, <1>18, SlotFreed
<1>20. Replaced(b)
    <2>1. ASSUME NEW t \in Closed' PROVE t \in Closed /\ Contents(vol', Dir)[t].first = Entry(t).first
        <3>1. t \in Named' /\ BoundTo(t)' = {}
            BY DEF Closed
        <3>2. t # k
            BY <1>4, <1>10, <1>14, <1>16, <3>1 DEF BoundTo, Live
        <3>3. BoundTo(t) = {}
            BY <1>10, <1>14, <1>19, <3>1 DEF BoundTo
        <3>4. ~Renaming(t)
            BY <1>2, <1>15, <3>2 DEF Renaming
        <3> QED
            BY <1>19, <3>1, <3>3, <3>4 DEF Closed
    <2> QED
        BY <1>3, <1>10, <1>14, <2>1 DEF Replaced
<1>21. EntriesLaid'
    <2>1. EntriesLaid
        BY DEF Laid
    <2>2. Live' \subseteq Live
        BY <1>10, <1>14 DEF Live
    <2>3. \A q \in Procs : op[q].pc # "entry"
        BY <1>4, <1>15
    <2>4. \A a \in Live : a # b => Contents(vol', Dir)[file[a].slot].first = Entry(file[a].slot).first
        BY <1>19
    <2>5. ~file'[b].removed
        BY <1>10, <1>16 DEF Live
    <2>6. Contents(vol', Dir)[file'[b].slot].first \in {None, file'[b].first}
        <3>1. Entry(k).first \in {None, file[b].first}
            BY <1>1, <1>2, <1>4, <2>1 DEF EntriesLaid
        <3>2. Contents(vol', Dir)[k] = Entry(k)
            BY <1>16, <1>19
        <3> QED
            BY <1>10, <3>1, <3>2
    <2>7. \A q \in Procs : op'[q].pc # "oldentry"
        BY <1>13, <1>14, IdleIs
    <2> QED
        BY <1>4, <1>6, <1>10, <2>1, <2>2, <2>3, <2>4, <2>5, <2>6, <2>7, PlacedEntries
<1>22. PICK T : T = TableOf(vol)
    OBVIOUS
<1>23. T = TableOf(vol') /\ Laid(T, root, at)
    BY <1>8, <1>22
<1>24. LaidOut'
    BY <1>4, <1>6, <1>12, <1>13, <1>15, <1>20, <1>21, <1>23, PlacesLaid
<1> QED
    BY <1>8, <1>24

\* The entry of a file that is removed is freed.
LEMMA RemoveEntryLaid ==
    ASSUME IInv, DirInv, Intact', NEW root, NEW at, Laid(TableOf(vol), root, at), NEW p \in Procs, RemoveEntry(p)
    PROVE  LaidOut' /\ TableOf(vol') = TableOf(vol)
<1>1. PICK b : b = Gone(p)
    OBVIOUS
<1> DEFINE u == PutSlot(vol, file[b].slot, FreeSlot)
<1>2. /\ At(p, "remove") /\ UNCHANGED <<str, writer>> /\ Goto(p, "release")
      /\ vol' = Commit(u.d)
      /\ file' = IF u.ok THEN [file EXCEPT ![b].slot = NoSlot, ![b].removed = TRUE] ELSE file
    BY <1>1 DEF RemoveEntry
<1>3. op[p].pc = "remove" /\ broken' = broken /\ b \in Bindings \ Unbound
    BY <1>1, <1>2, AtEntry DEF At
<1>4. DirSound /\ Dir \notin broken
    BY <1>3, IsIntact DEF Intact
<1>5. u.ok
    BY <1>4, FreeSlotIs, Legible
<1>6. TableOf(vol') = TableOf(vol)
    BY <1>2, FreeSlotIs, EntryTable
<1>7. file' = [file EXCEPT ![b].slot = NoSlot, ![b].removed = TRUE] /\ file \in [Bindings -> Object]
    BY <1>2, <1>5, Typing DEF FilesTyped
<1>8. /\ file'[b].slot = NoSlot /\ file'[b].removed
      /\ file'[b].first = file[b].first /\ file'[b].size = file[b].size
      /\ \A a \in Bindings : a # b => file'[a] = file[a]
    BY <1>3, <1>7 DEF Object
<1>9. PICK x \in Op : /\ op' = [op EXCEPT ![p] = x] /\ x.of = op[p].of /\ x.victim = op[p].victim
                      /\ x.job = op[p].job /\ x.pc = "release"
    BY <1>2, GotoIs
<1>10. Unbound' = Unbound /\ \A q \in Procs : op'[q] = IF q = p THEN x ELSE Idle
    BY <1>2, <1>3, <1>9, EntryStep
<1>11. \A q \in Procs : q # p => op[q] = Idle /\ op[q].pc = "idle"
    BY <1>3, AtEntry
<1>12. b \in Live /\ Live' = Live \ {b}
    <2>1. b \in Live
        BY <1>1, <1>3, <1>4 DEF DirSound, RenameKnown, Live
    <2> QED
        BY <1>8, <1>10, <2>1 DEF Live
<1>13. file[b].slot \in Slots
    BY <1>4, <1>12 DEF DirSound, Placed, Named
<1>14. \A t \in Slots : Contents(vol', Dir)[t] = IF t = file[b].slot THEN FreeSlot ELSE Contents(vol, Dir)[t]
    BY <1>2, <1>5, <1>13, FreeSlotIs, Typing, PutShows
<1> HIDE DEF u
<1>15. /\ Named' = Named \ {file[b].slot} /\ \A t \in Named' : Contents(vol', Dir)[t] = Entry(t)
       /\ \A a \in Live : a # b => file[a].slot \in Named'
    BY <1>4, <1>12, <1>14, SlotFreed
<1>16. Replaced(b)
    <2>1. ASSUME NEW t \in Closed' PROVE t \in Closed /\ Contents(vol', Dir)[t].first = Entry(t).first
        <3>1. t \in Named' /\ BoundTo(t)' = {}
            BY DEF Closed
        <3>2. BoundTo(t) = {}
            BY <1>8, <1>10, <1>15, <3>1 DEF BoundTo
        <3>3. ~Renaming(t)
            BY <1>3, <1>11 DEF Renaming
        <3> QED
            BY <1>15, <3>1, <3>2, <3>3 DEF Closed
    <2> QED
        BY <1>2, <1>8, <1>10, <2>1 DEF Replaced
<1>17. EntriesLaid'
    <2>1. EntriesLaid
        BY DEF Laid
    <2>2. Live' \subseteq Live /\ b \notin Live'
        BY <1>12
    <2>3. \A q \in Procs : op[q].pc # "entry"
        BY <1>3, <1>11
    <2>4. \A a \in Live : a # b => Contents(vol', Dir)[file[a].slot].first = Entry(file[a].slot).first
        BY <1>15
    <2>5. \A q \in Procs : op'[q].pc # "oldentry"
        BY <1>9, <1>10, IdleIs
    <2> QED
        BY <1>3, <1>4, <1>8, <2>1, <2>2, <2>3, <2>4, <2>5, PlacedEntries
<1>18. PICK T : T = TableOf(vol)
    OBVIOUS
<1>19. T = TableOf(vol') /\ Laid(T, root, at)
    BY <1>6, <1>18
<1>20. LaidOut'
    BY <1>3, <1>4, <1>9, <1>11, <1>16, <1>17, <1>19, PlacesLaid
<1> QED
    BY <1>6, <1>20

\* Calls that only follow chains leave the table alone, legible or not.
LEMMA FollowingStays ==
    ASSUME IInv, NEW p \in Procs,
           \/ Seek(p) \/ Read(p) \/ Write(p) \/ Truncate(p) \/ Fsync(p) \/ Close(p)
           \/ Cut(p) \/ FreeNext(p)
    PROVE  TableOf(vol') = TableOf(vol)
<1>1. {} \cap FatSectors = {}
    OBVIOUS
<1> SUFFICES Moves(vol, vol', {})
    BY <1>1, TableStays
<1>2. CASE Seek(p)
    <2>1. Shared(p)
        BY <1>2 DEF Seek
    <2>2. PICK len \in 0..File(p).size : SoughtTo(p, len)
        BY <1>2 DEF Seek
    <2>3. len \in Nat
        BY <2>1, <2>2, SharedFacts
    <2> QED
        BY <2>1, <2>2, <2>3, SharedFacts, SoughtToIs
<1>3. CASE Read(p)
    BY <1>3, SharedFacts, NextOfIs DEF Read
<1>4. CASE Write(p)
    <2> DEFINE g == NextOf(p)
               w == [g.d EXCEPT !.panic = TRUE]
    <2>1. Shared(p) /\ (vol' = g.d \/ vol' = w)
        BY <1>4 DEF Write
    <2>2. Moves(vol, g.d, {})
        BY <2>1, SharedFacts, NextOfIs
    <2> HIDE DEF g
    <2>3. Moves(g.d, w, {})
        BY <2>2, PanicMoves, GoodAfter
    <2>4. Moves(vol, w, {})
        BY <2>2, <2>3, MovesAgain
    <2> HIDE DEF w
    <2> QED
        BY <2>1, <2>2, <2>4
<1>5. CASE Truncate(p)
    <2>1. Shared(p)
        BY <1>5 DEF Truncate
    <2>2. PICK len \in 0..File(p).size : SoughtTo(p, len)
        BY <1>5 DEF Truncate, StartTruncate
    <2>3. len \in Nat
        BY <2>1, <2>2, SharedFacts
    <2> QED
        BY <2>1, <2>2, <2>3, SharedFacts, SoughtToIs
<1>6. ASSUME NEW job, Sync(p, job) PROVE Moves(vol, vol', {})
    <2>1. str[p].of # None /\ (SoughtTo(p, File(p).size) \/ vol' = vol)
        BY <1>6 DEF Sync, StartTruncate
    <2>2. str[p].of \in Bindings
        BY <2>1, Typing
    <2>3. File(p).size \in Nat
        BY <2>2, ObjectFields DEF File
    <2> QED
        BY <2>1, <2>2, <2>3, SoughtToIs, StillMoves, Typing
<1>7. CASE Cut(p)
    <2>1. vol' = vol \/ vol' = GetNext(vol, str[p].last).d
        BY <1>7 DEF Cut
    <2> QED
        BY <2>1, Typing, GetNextIs, StillMoves
<1>8. CASE FreeNext(p)
    <2>1. vol' = GetNext(vol, op[p].cur).d /\ op[p].pc = "free"
        BY <1>8 DEF FreeNext, At
    <2>2. op[p].cur \in Link
        BY <2>1, Typing DEF Known
    <2> QED
        BY <2>1, <2>2, Typing, GetNextIs
<1> QED
    BY <1>2, <1>3, <1>4, <1>5, <1>6, <1>7, <1>8 DEF Fsync, Close

\* Nor does what happens between the calls touch it.
LEMMA BetweenStays ==
    ASSUME IInv, Remount \/ Lend \/ Return \/ Break \/ Heal
    PROVE  TableOf(vol') = TableOf(vol) /\ SameDir /\ UNCHANGED <<file, str, op>>
<1>1. SameDir /\ UNCHANGED <<file, str, op>>
    BY RemountKeeps, LendKeeps, ReturnKeeps, BreakKeeps, HealKeeps DEF Remount, Lend, Return, Break, Heal
<1>2. Good(vol)
    BY DEF IInv, VolKnown
<1> SUFFICES \A t \in Sectors : Contents(vol', t) = Contents(vol, t)
    <2>1. ASSUME NEW c \in Clusters
          PROVE  Contents(vol', SectorOf(c))[c % PerSector] = Contents(vol, SectorOf(c))[c % PerSector]
        BY EntryPlace
    <2>2. TableOf(vol') = TableOf(vol)
        BY <2>1 DEF TableOf
    <2> QED
        BY <1>1, <2>2
<1>3. CASE Remount
    <2> DEFINE d == DiscardAll(vol)
               n == vol.disk[Info].free
               k == vol.disk[Info].next
               r == [d EXCEPT !.free = n]
               w == [r EXCEPT !.next = k]
    <2>1. (\A p \in Procs : op[p].pc = "idle" /\ str[p].of = None) /\ vol' = [d EXCEPT !.free = n, !.next = k]
        BY <1>3 DEF Remount, AtRest
    <2>2. n \in Nat /\ k \in Nat
        <3>1. vol.disk[Info] \in Data(Info)
            BY <1>2, Geometry DEF Good, DiskOK
        <3> QED
            BY <3>1, Geometry DEF Data
    <2>3. Good(d) /\ SameContents(vol, d)
        <3>1. Clean(vol)
            BY <2>1 DEF IInv, DirtKnown
        <3> QED
            BY <1>2, <3>1, DiscardAllEmpties
    <2> HIDE DEF d, n, k
    <2>4. Moves(d, r, {})
        BY <2>2, <2>3, FreeMoves
    <2>5. vol' = w
        BY <2>1
    <2> HIDE DEF r
    <2>6. Moves(r, w, {})
        BY <2>2, <2>4, NextMoves, GoodAfter
    <2> HIDE DEF w
    <2>7. Moves(d, w, {})
        BY <2>4, <2>6, MovesAgain
    <2> QED
        BY <2>3, <2>5, <2>7 DEF Moves, SameContents
<1>4. CASE Lend
    BY <1>4, GetBufferKeeps DEF Lend, IInv, VolKnown, Kept, SameContents
<1>5. CASE Return
    <2>1. PICK e \in Lent : vol' = ReleaseBuffer(vol, e)
        BY <1>5 DEF Return
    <2>2. Kept(vol, vol')
        BY <1>2, <2>1, ReleaseBufferKeeps DEF Lent
    <2> QED
        BY <2>2 DEF Kept, SameContents
<1>6. CASE Break \/ Heal
    <2>1. vol'.flags = vol.flags /\ vol'.sector = vol.sector /\ vol'.buffer = vol.buffer /\ vol'.disk = vol.disk
        BY <1>2, <1>6 DEF Break, Heal, Good, Vol
    <2> QED
        BY <2>1 DEF Contents, Holders
<1> QED
    BY <1>3, <1>4, <1>5, <1>6

\* What is laid out stays so while neither the calls nor what is seen change.
LEMMA SeenLaid ==
    ASSUME NEW T, NEW root, NEW at, Laid(T, root, at), SameDir, UNCHANGED <<file, str, op>>, T = TableOf(vol')
    PROVE  LaidOut'
<1>1. Unbound' = Unbound
    BY DEF Unbound, Users
<1>2. Holding' = Holding /\ Live' = Live /\ \A b : Token(b)' = Token(b)
    BY <1>1 DEF Holding, Discarding, Live, Token
<1>3. \A s : Contents(vol', Dir)[s] = Entry(s)
    BY DEF SameDir, Entry
<1>4. Closed' = Closed
    <2>1. Named' = Named
        BY <1>3 DEF Named, Entry
    <2>2. \A s : BoundTo(s)' = BoundTo(s) /\ (Renaming(s)' <=> Renaming(s))
        BY <1>1 DEF BoundTo, Renaming
    <2> QED
        BY <2>1, <2>2 DEF Closed
<1>5. Firsts' = Firsts
    BY <1>2, <1>3, <1>4 DEF Firsts, Entry
<1>6. Standing' = Standing /\ Claims(root)' = Claims(root)
    BY <1>2, <1>5 DEF Standing, Claims, CutsOff, Freeing
<1>7. StreamsLaid(root, at)'
    BY <1>6 DEF Laid, StreamsLaid
<1>8. EntriesLaid'
    BY <1>2, <1>3 DEF Laid, EntriesLaid, EntryLaid, Entry
<1>9. CallsLaid(T, root)'
    BY DEF Laid, CallsLaid
<1>10. Laid(T, root, at)'
    BY <1>5, <1>6, <1>7, <1>8, <1>9 DEF Laid
<1> QED
    BY <1>10, LaidIsOut

\* The table of a volume just mounted.
LEMMA MountedTable ==
    ASSUME NEW image \in Images, vol = Mounted(CacheInit(DiskOf(image)), DiskOf(image)[Info])
    PROVE  TableOf(vol) = image.table /\ Contents(vol, Dir) = image.slots
<1>1. vol.disk = DiskOf(image) /\ vol.flags = [e \in Entries |-> {}]
    BY DEF Mounted, CacheInit
<1>2. \A s \in Sectors : Contents(vol, s) = DiskOf(image)[s]
    BY <1>1 DEF Contents, Holders
<1>3. Contents(vol, Dir) = image.slots
    BY <1>2, Geometry DEF DiskOf
<1>4. ASSUME NEW c \in Clusters PROVE Contents(vol, SectorOf(c))[c % PerSector] = image.table[c]
    <2>1. SectorOf(c) \in Sectors /\ SectorOf(c) \in FatSectors /\ c % PerSector \in Slots
        BY EntryPlace
    <2>2. PICK s \in Sectors : s = SectorOf(c)
        BY <2>1
    <2>3. PICK k \in Slots : k = c % PerSector
        BY <2>1
    <2>4. s # Dir /\ s # Info
        BY <2>1, <2>2, Geometry
    <2>5. DiskOf(image)[s] = [i \in Slots |-> LET e == (s - 2) * PerSector + i
                                              IN IF e \in Clusters THEN image.table[e]
                                                 ELSE IF e < 2 THEN EndMark ELSE None]
        BY <2>4 DEF DiskOf
    <2>6. (s - 2) * PerSector + k = c
        <3>1. c \in Nat /\ PerSector \in Nat
            BY Geometry, SizesAssumption
        <3>2. PICK a \in Nat : a = c \div PerSector
            BY <3>1, DivFacts, SizesAssumption
        <3>3. s = 2 + a
            BY <2>2, <3>1, <3>2 DEF SectorOf
        <3>4. c = (PerSector * a) + k
            BY <2>3, <3>1, <3>2, DivFacts, SizesAssumption
        <3>5. s - 2 = a
            BY <3>3
        <3>6. a * PerSector = PerSector * a
            BY <3>1
        <3> QED
            BY <3>4, <3>5, <3>6
    <2>7. DiskOf(image)[s][k] = image.table[c]
        BY <2>5, <2>6
    <2> QED
        BY <1>2, <2>2, <2>3, <2>7
<1>5. image.table \in [Clusters -> Word]
    BY ImagesAssumption
<1> QED
    BY <1>3, <1>4, <1>5 DEF TableOf

\* A sound volume is laid out when it is mounted.
LEMMA InitLaid ==
    ASSUME Init
    PROVE  LaidOut
<1>1. PICK image \in Images : vol = Mounted(CacheInit(DiskOf(image)), DiskOf(image)[Info])
    BY DEF Init
<1>2. TableOf(vol) = image.table /\ Contents(vol, Dir) = image.slots /\ ~vol.panic
    BY <1>1, MountedTable DEF Mounted
<1>3. PICK root \in [Clusters -> {None} \cup Clusters], at \in [Clusters -> 0..NumClusters] :
          /\ Chained(image.table, root, at)
          /\ \A s, t \in Slots :
                 LET f == image.slots[s].first
                 IN image.slots[s].name # NoName /\ f # None =>
                        /\ root[f] = f /\ at[f] = 1
                        /\ s = t \/ image.slots[t].name = NoName \/ image.slots[t].first # f
    BY VolumesAssumption
<1>4. \A q \in Procs : op[q] = Idle /\ op[q].pc = "idle" /\ op[q].of = None /\ op[q].victim = None
                       /\ op[q].job = "none" /\ str[q].of = None
    BY DEF Init, Idle, NoStream
<1>5. Unbound = Bindings
    BY <1>4, BindingsAssumption DEF Unbound, Users
<1>6. Holding = {} /\ Live = {} /\ Standing = {}
    BY <1>4, <1>5 DEF Holding, Live, Standing
<1>7. \A x \in Firsts : \E s \in Slots : /\ image.slots[s].name # NoName
                                         /\ x[1] = <<0, s>> /\ x[2] = image.slots[s].first
    BY <1>2, <1>6 DEF Firsts, Closed, Named, Entry
<1>8. Rooted(Firsts, root, at)
    BY <1>3, <1>7 DEF Rooted
<1>9. Apart(Claims(root))
    <2>1. Claims(root) = Firsts
        BY <1>6 DEF Claims
    <2>2. Apart(Firsts)
        BY <1>3, <1>7 DEF Apart
    <2> QED
        BY <2>1, <2>2
<1>10. StreamsLaid(root, at)
    BY <1>4, <1>6 DEF StreamsLaid
<1>11. EntriesLaid
    <2>1. \A b \in Bindings : ~file[b].removed
        BY DEF Init, NoFile
    <2> QED
        BY <1>4, <1>6, <2>1 DEF EntriesLaid
<1>12. CallsLaid(TableOf(vol), root)
    <2>1. \A p \in Procs : CallLaid(TableOf(vol), root, file, op[p], str[p])
        BY <1>4, IdleLaid
    <2>2. \A p, q \in Procs : TwoCalls(op[p], op[q])
        BY <1>4 DEF TwoCalls
    <2> QED
        BY <2>1, <2>2 DEF CallsLaid
<1>13. Laid(TableOf(vol), root, at)
    BY <1>2, <1>3, <1>8, <1>9, <1>10, <1>11, <1>12 DEF Laid
<1> QED
    BY <1>2, <1>13 DEF LaidOut

(***************************************************************************)
(* Every step.                                                             *)
(***************************************************************************)
LEMMA CallLaidOut ==
    ASSUME IInv, DirInv, Intact', NEW root, NEW at, Laid(TableOf(vol), root, at), NEW p \in Procs, Call(p)
    PROVE  LaidOut' /\ TableOf(vol') = TableOf(vol)
<1>1. CASE Seek(p)
    BY <1>1, SeekLaid, FollowingStays
<1>2. CASE Read(p)
    BY <1>2, ReadLaid, FollowingStays
<1>3. CASE Write(p)
    BY <1>3, WriteLaid, FollowingStays
<1>4. CASE Truncate(p)
    BY <1>4, TruncateLaid, FollowingStays
<1>5. CASE Fsync(p) \/ Close(p)
    <2>1. Sync(p, "sync") \/ Sync(p, "close")
        BY <1>5 DEF Fsync, Close
    <2>2. LaidOut'
        BY <2>1, SyncLaid
    <2>3. TableOf(vol') = TableOf(vol)
        BY <1>5, FollowingStays
    <2> QED
        BY <2>2, <2>3
<1>6. CASE Open(p)
    BY <1>6, OpenLaid
<1>7. CASE Create(p)
    BY <1>7, CreateLaid
<1>8. CASE RemoveFile(p)
    BY <1>8, RemoveFileLaid
<1>9. CASE Rename(p)
    BY <1>9, RenameLaid
<1> QED
    BY <1>1, <1>2, <1>3, <1>4, <1>5, <1>6, <1>7, <1>8, <1>9 DEF Call

\* A call that goes on.
LEMMA ContinueLaidOut ==
    ASSUME IInv, DirInv, Intact', NEW root, NEW at, Laid(TableOf(vol), root, at), NEW p \in Procs, Continue(p)
    PROVE  LaidOut' /\ May(TableOf(vol), TableOf(vol'))
<1>1. CASE Alloc(p)
    BY <1>1, AllocLaid
<1>2. CASE Cut(p) \/ FreeNext(p)
    <2>1. TableOf(vol') = TableOf(vol)
        BY <1>2, FollowingStays
    <2>2. LaidOut'
        BY <1>2, CutLaid, FreeNextLaid
    <2> QED
        BY <2>1, <2>2 DEF May
<1>3. CASE Mark(p)
    BY <1>3, MarkLaid
<1>4. CASE Unlink(p)
    BY <1>4, UnlinkLaid
<1>5. CASE CloseWrite(p)
    BY <1>5, CloseWriteLaid
<1>6. ASSUME LaidOut' /\ TableOf(vol') = TableOf(vol)
      PROVE  LaidOut' /\ May(TableOf(vol), TableOf(vol'))
    BY <1>6 DEF May
<1>7. CASE Freed(p) \/ WriteEntry(p) \/ CommitStep(p) \/ Release(p)
    BY <1>6, <1>7, FreedLaid, WriteEntryLaid, CommitStepLaid, ReleaseLaid
<1>8. CASE NewEntry(p) \/ OldEntry(p) \/ RemoveEntry(p)
    BY <1>6, <1>8, NewEntryLaid, OldEntryLaid, RemoveEntryLaid
<1> QED
    BY <1>1, <1>2, <1>3, <1>4, <1>5, <1>7, <1>8 DEF Continue

\* After a panic nothing happens.
LEMMA PanicStops ==
    ASSUME vol.panic, Next
    PROVE  UNCHANGED vars
<1>1. ASSUME NEW p \in Procs, Call(p) PROVE FALSE
    <2>1. ~vol.panic
        BY <1>1 DEF Call, Seek, Read, Write, Truncate, Fsync, Close, Sync, Open, Create, RemoveFile, Rename,
                    Shared, Alone, NoCall, AtRest
    <2> QED
        BY <2>1
<1>2. ASSUME NEW p \in Procs, Continue(p) PROVE FALSE
    <2>1. ~vol.panic
        BY <1>2, Zenon DEF Continue, Alloc, Cut, Mark, FreeNext, Unlink, Freed, CloseWrite, WriteEntry, CommitStep,
                    NewEntry, OldEntry, RemoveEntry, Release, At
    <2> QED
        BY <2>1
<1>3. ~Remount /\ ~Lend /\ ~Return /\ ~Break /\ ~Heal
    <2>1. ~Remount
        <3>1. PICK p \in Procs : TRUE
            BY ProcsAssumption
        <3> QED
            BY <3>1 DEF Remount, AtRest
    <2> QED
        BY <2>1 DEF Lend, Return, Break, Heal
<1> QED
    BY <1>1, <1>2, <1>3 DEF Next, Stopped

\* What was unreadable is remembered; only what finds it so, or makes it so, adds to it.
LEMMA BrokenGrows ==
    ASSUME IInv, [Next]_vars
    PROVE  /\ broken \subseteq broken'
           /\ broken' = broken \/ TableOf(vol') = TableOf(vol)
<1>1. ASSUME NEW p \in Procs, Call(p)
      PROVE  broken \subseteq broken' /\ (TableOf(vol') = TableOf(vol) \/ broken' = broken)
    <2>1. CASE Seek(p) \/ Read(p) \/ Write(p) \/ Truncate(p) \/ Fsync(p) \/ Close(p)
        <3>1. broken \subseteq broken'
            BY <2>1, ZenonT(60) DEF Seek, Read, Write, Truncate, Fsync, Close, Sync, StartTruncate, SoughtTo, Noted
        <3> QED
            BY <2>1, <3>1, FollowingStays
    <2>2. CASE Open(p) \/ Create(p) \/ RemoveFile(p) \/ Rename(p)
        BY <2>2, ZenonT(60) DEF Open, Create, RemoveFile, Rename
    <2> QED
        BY <1>1, <2>1, <2>2 DEF Call
<1>2. ASSUME NEW p \in Procs, Continue(p) PROVE broken' = broken
    BY <1>2, Zenon DEF Continue, Alloc, Cut, Mark, FreeNext, Unlink, Freed, CloseWrite, WriteEntry, CommitStep,
                NewEntry, OldEntry, RemoveEntry, Release, At
<1>3. CASE Remount \/ Lend \/ Return \/ Break \/ Heal
    <2>1. broken \subseteq broken'
        BY <1>3 DEF Remount, Lend, Return, Break, Heal
    <2> QED
        BY <1>3, <2>1, BetweenStays
<1>4. CASE Stopped \/ UNCHANGED vars
    BY <1>4 DEF Stopped, vars
<1> QED
    BY <1>1, <1>2, <1>3, <1>4 DEF Next

\* A step while the directory can be kept up to date and every stream knows its place.
LEMMA StepLaid ==
    ASSUME IInv, DirInv, Intact', LaidOut, [Next]_vars
    PROVE  LaidOut' /\ May(TableOf(vol), TableOf(vol'))
<1>1. CASE UNCHANGED vars
    <2>1. UNCHANGED <<vol, file, str, op>>
        BY <1>1 DEF vars
    <2>2. TableOf(vol') = TableOf(vol)
        BY <2>1
    <2>3. PICK root, at : IF vol.panic THEN Owned(TableOf(vol), root, at) ELSE Laid(TableOf(vol), root, at)
        BY DEF LaidOut
    <2>4. CASE ~vol.panic
        <3>1. PICK T : T = TableOf(vol)
            OBVIOUS
        <3>2. Laid(T, root, at) /\ T = TableOf(vol') /\ SameDir
            BY <2>1, <2>2, <2>3, <2>4, <3>1 DEF SameDir
        <3>3. LaidOut'
            BY <2>1, <3>2, SeenLaid
        <3> QED
            BY <2>2, <3>3 DEF May
    <2>5. CASE vol.panic
        <3>1. Owned(TableOf(vol), root, at)'
            BY <2>1, <2>2, <2>3, <2>5 DEF Owned, Firsts, Holding, Closed, Named, Entry, Token, Unbound, Users,
                                          Discarding, BoundTo, Renaming
        <3> QED
            BY <2>1, <2>2, <2>5, <3>1 DEF LaidOut, May
    <2> QED
        BY <2>4, <2>5
<1>2. CASE Next /\ vol.panic
    BY <1>1, <1>2, PanicStops
<1>3. CASE Next /\ ~vol.panic
    <2>1. PICK root, at : Laid(TableOf(vol), root, at)
        BY <1>3 DEF LaidOut
    <2>2. ASSUME NEW p \in Procs, Call(p) PROVE LaidOut' /\ May(TableOf(vol), TableOf(vol'))
        <3>1. LaidOut' /\ TableOf(vol') = TableOf(vol)
            BY <2>1, <2>2, CallLaidOut
        <3> QED
            BY <3>1 DEF May
    <2>3. ASSUME NEW p \in Procs, Continue(p) PROVE LaidOut' /\ May(TableOf(vol), TableOf(vol'))
        BY <2>1, <2>3, ContinueLaidOut
    <2>4. CASE Remount \/ Lend \/ Return \/ Break \/ Heal
        <3>1. PICK T : T = TableOf(vol)
            OBVIOUS
        <3>2. TableOf(vol') = TableOf(vol) /\ SameDir /\ UNCHANGED <<file, str, op>>
            BY <2>4, BetweenStays
        <3>3. Laid(T, root, at) /\ T = TableOf(vol')
            BY <2>1, <3>1, <3>2
        <3>4. LaidOut'
            BY <3>2, <3>3, SeenLaid
        <3> QED
            BY <3>2, <3>4 DEF May
    <2>5. CASE Stopped
        BY <1>1, <2>5 DEF Stopped
    <2> QED
        BY <1>3, <2>2, <2>3, <2>4, <2>5 DEF Next
<1> QED
    BY <1>1, <1>2, <1>3

(***************************************************************************)
(* The invariant: while the directory is legible and no stream has lost    *)
(* its place, the chains are laid out among their files.                   *)
(***************************************************************************)
ChainInv == IInv /\ DirInv /\ (Intact => LaidOut)

\* It holds of a volume just mounted, and is kept.
LEMMA ChainInvKept == (Init => ChainInv) /\ (ChainInv /\ [Next]_vars => ChainInv')
<1>1. Init => ChainInv
    BY InitKeeps, InitSound, InitLaid DEF ChainInv
<1>2. ASSUME ChainInv, [Next]_vars PROVE ChainInv'
    <2>1. IInv' /\ DirInv'
        BY <1>2, StepKeeps, StepSound DEF ChainInv
    <2>2. Intact' => Intact
        BY <1>2, BrokenGrows DEF ChainInv, Intact
    <2>3. Intact' => LaidOut'
        BY <1>2, <2>2, StepLaid DEF ChainInv
    <2> QED
        BY <2>1, <2>3 DEF ChainInv
<1> QED
    BY <1>1, <1>2

\* The table as it is seen is of words, and is what FatTable calls it.
LEMMA TableIs ==
    ASSUME IInv
    PROVE  Table = TableOf(vol) /\ Table \in [Clusters -> Clusters \cup {None, EndMark}]
<1>1. Table = TableOf(vol)
    BY DEF Table, TableOf
<1>2. TableOf(vol) \in [Clusters -> Word]
    BY TableTyped DEF Typed, IInv, VolKnown
<1> QED
    BY <1>1, <1>2 DEF Word

\* It begins as FatTable does.
LEMMA TableBegins == Init => Chains!Init
<1> SUFFICES ASSUME Init PROVE Chains!Init
    OBVIOUS
<1>1. Table = TableOf(vol) /\ Table \in [Clusters -> Clusters \cup {None, EndMark}]
    BY InitKeeps, TableIs
<1>2. PICK root, at : Chained(TableOf(vol), root, at)
    BY InitLaid DEF LaidOut, Owned, Laid
<1>3. Chains!Marked
    BY MarksAreWords DEF Chains!Marked, None, EndMark, Failed, Clusters
<1>4. Chains!TypeOK
    BY <1>1 DEF Chains!TypeOK, Intact
<1> QED
    BY <1>1, <1>2, <1>3, <1>4 DEF Chains!Init, Chained

\* And each step is one that FatTable allows.
LEMMA TableSteps == ChainInv /\ ChainInv' /\ [Next]_vars => [Chains!Next]_(Chains!tableVars)
<1> SUFFICES ASSUME ChainInv, ChainInv', [Next]_vars PROVE [Chains!Next]_(Chains!tableVars)
    OBVIOUS
<1>1. Table = TableOf(vol) /\ Table' = TableOf(vol') /\ Table' \in [Clusters -> Clusters \cup {None, EndMark}]
    <2>1. Table = TableOf(vol) /\ Table' = TableOf(vol')
        BY DEF Table, TableOf
    <2>2. Good(vol')
        BY DEF ChainInv, IInv, VolKnown
    <2>3. TableOf(vol') \in [Clusters -> Word]
        BY <2>2, TableTyped DEF Typed
    <2> QED
        BY <2>1, <2>3 DEF Word
<1>2. broken \subseteq broken' /\ (broken' = broken \/ Table' = Table)
    BY <1>1, BrokenGrows DEF ChainInv
<1>3. CASE Intact'
    <2>1. Intact
        BY <1>2, <1>3 DEF Intact
    <2>2. May(Table, Table')
        BY <1>1, <1>3, <2>1, StepLaid DEF ChainInv
    <2>3. Table' = Table \/ \E c \in Clusters : \/ Chains!Start(c) \/ Chains!Cut(c) \/ Chains!Release(c)
                                                \/ \E e \in Clusters : Chains!Append(c, e)
        BY <2>2 DEF May, Chains!Start, Chains!Cut, Chains!Release, Chains!PointedAt, Chains!Append
    <2>4. Intact' = Intact
        BY <1>3, <2>1 DEF Intact
    <2>5. CASE Table' = Table
        BY <2>4, <2>5 DEF Chains!tableVars
    <2>6. CASE Table' # Table
        <3>1. Chains!Sound
            BY <2>3, <2>4, <2>6 DEF Chains!Sound
        <3> QED
            BY <2>1, <3>1 DEF Chains!Next
    <2> QED
        BY <2>5, <2>6
<1>4. CASE ~Intact' /\ Intact
    <2>1. Table' = Table
        BY <1>2, <1>4 DEF Intact
    <2>2. Intact' = FALSE
        BY <1>4 DEF Intact
    <2>3. Chains!Fails
        BY <2>1, <2>2 DEF Chains!Fails
    <2> QED
        BY <2>3 DEF Chains!Next
<1>5. CASE ~Intact' /\ ~Intact
    <2>1. Intact' = Intact
        BY <1>5 DEF Intact
    <2>2. Chains!Adrift
        BY <1>1, <1>5, <2>1 DEF Chains!Adrift
    <2> QED
        BY <2>2 DEF Chains!Next
<1> QED
    BY <1>3, <1>4, <1>5

(***************************************************************************)
(* The driver keeps its table as FatTable promises, through its cache and  *)
(* for any sizes of the two, any number of threads, files and clusters,    *)
(* however their calls interleave: a cluster is handed out only while it   *)
(* is free, hangs behind the end of a chain, and is freed only when no     *)
(* entry points at it; and nothing else shows in the table.                *)
(***************************************************************************)
THEOREM TableAlwaysKept == Spec => KeepsTable
<1>1. (Init => ChainInv) /\ (ChainInv /\ [Next]_vars => ChainInv')
    BY ChainInvKept
<1> QED
    BY <1>1, TableBegins, TableSteps, PTL DEF Spec, KeepsTable, Chains!Spec

(***************************************************************************)
(* So, while the directory is legible and no stream has lost its place, no *)
(* entry points at a free cluster nor two at the same one.                 *)
(***************************************************************************)
THEOREM LinksAlwaysSound == Spec => []Chains!WellLinked
BY TableAlwaysKept, TableWellLinked, PTL

\* One cluster further along a chain, if there is one.
Grown(q) == IF Table[Last(q)] \in Clusters THEN Append(q, Table[Last(q)]) ELSE q
\* The clusters of the chain that begins at r, in some order.
Along(root, r) == {q \in Seq(Clusters) : q # <<>> /\ \A i \in DOMAIN q : root[q[i]] = r}

\* Going along a chain stays in the chain.
LEMMA GrownIs ==
    ASSUME NEW root, NEW at, Chained(Table, root, at), NEW r, NEW q \in Along(root, r)
    PROVE  Grown(q) \in Along(root, r)
<1>1. q \in Seq(Clusters) /\ q # <<>> /\ \A i \in DOMAIN q : root[q[i]] = r
    BY DEF Along
<1>2. Last(q) = q[Len(q)] /\ Len(q) \in DOMAIN q /\ Last(q) \in Clusters /\ DOMAIN q = 1..Len(q)
    BY <1>1, EmptySeq, LenProperties, ElementOfSeq DEF Last
<1>3. root[Last(q)] = r
    BY <1>1, <1>2
<1>4. CASE Table[Last(q)] \in Clusters
    <2>1. PICK c \in Clusters : c = Table[Last(q)]
        BY <1>4
    <2>2. root[c] = r
        BY <1>2, <1>3, <2>1 DEF Chained
    <2>3. /\ Append(q, c) \in Seq(Clusters) /\ Append(q, c) # <<>>
          /\ \A i \in DOMAIN Append(q, c) :
                 (i \in DOMAIN q /\ Append(q, c)[i] = q[i]) \/ Append(q, c)[i] = c
        BY <1>1, <1>2, AppendProperties
    <2>4. Append(q, c) \in Along(root, r)
        BY <1>1, <2>2, <2>3 DEF Along
    <2> QED
        BY <1>4, <2>1, <2>4 DEF Grown
<1>5. CASE Table[Last(q)] \notin Clusters
    BY <1>5 DEF Grown
<1> QED
    BY <1>4, <1>5

\* What is found by following the links from a first cluster is its chain's.
LEMMA ChainIs ==
    ASSUME NEW root, NEW at, Chained(Table, root, at), NEW c \in Clusters, root[c] = c
    PROVE  \A e \in ToSet(ChainFrom(c)) : e \in Clusters /\ root[e] = c
<1> DEFINE S == Along(root, c)
           n == NumClusters
           a == <<c>>
           G == [i \in 0..n |-> [q \in S |-> Grown(q)]]
           table == Table
           grown(q) == IF table[Last(q)] \in Clusters THEN Append(q, table[Last(q)]) ELSE q
           from == CHOOSE from : from = [i \in 0..NumClusters |-> IF i = 0 THEN <<c>> ELSE grown(from[i - 1])]
<1>1. ChainFrom(c) = from[n]
    BY DEF ChainFrom
<1>2. n \in Nat
    BY SizesAssumption
<1>3. a \in S
    BY DEF Along
<1>4. \A q : grown(q) = Grown(q)
    BY DEF Grown
<1> HIDE DEF grown, table
<1>5. G \in [0..n -> [S -> S]]
    <2>1. \A q \in S : Grown(q) \in S
        BY GrownIs
    <2> HIDE DEF S
    <2> QED
        BY <2>1
<1>6. \A i \in 0..n, q \in S : G[i][q] = Grown(q)
    OBVIOUS
<1> HIDE DEF G, S, a
<1>7. PICK f \in [0..n -> S] : Follows(f, n, a, G)
    BY <1>2, <1>3, <1>5, Recursion
<1>8. \A i \in 1..n : f[i] = Grown(f[i - 1])
    BY <1>2, <1>6, <1>7 DEF Follows
<1>9. f = [i \in 0..n |-> IF i = 0 THEN a ELSE Grown(f[i - 1])]
    BY <1>2, <1>7, <1>8 DEF Follows
<1>10. f = [i \in 0..NumClusters |-> IF i = 0 THEN <<c>> ELSE grown(f[i - 1])]
    BY <1>4, <1>9 DEF a
<1>11. from = [i \in 0..NumClusters |-> IF i = 0 THEN <<c>> ELSE grown(from[i - 1])]
    BY <1>10
<1> HIDE DEF from
<1>12. from[0] = a /\ \A i \in 1..n : from[i] = Grown(from[i - 1])
    BY <1>2, <1>4, <1>11 DEF a
<1>13. \A i \in 1..n : from[i - 1] \in S => from[i] \in S
    BY <1>12, GrownIs DEF S
<1>14. from[n] \in S
    <2>1. \A i \in 0..n : from[i] \in S
        BY <1>2, <1>3, <1>12, <1>13, RecursionStays
    <2> QED
        BY <1>2, <2>1
<1>15. PICK q : q = ChainFrom(c)
    OBVIOUS
<1>16. q \in Seq(Clusters) /\ \A i \in DOMAIN q : root[q[i]] = c
    BY <1>1, <1>14, <1>15 DEF S, Along
<1>17. \A e \in ToSet(q) : e \in Clusters /\ root[e] = c
    BY <1>16, ElementOfSeq, LenProperties DEF ToSet
<1> QED
    BY <1>15, <1>17

\* Those who own the chains, by the names they claim them with.
TokenOf(o) == IF o.kind = "file" THEN Token(o.nr) ELSE <<0, o.nr>>

\* Two owners claim under different names.
LEMMA OwnersApart ==
    ASSUME DirSound
    PROVE  /\ \A o \in Owners : <<TokenOf(o), o.first>> \in Firsts
           /\ \A o, x \in Owners : TokenOf(o) = TokenOf(x) => o = x
<1> DEFINE F == {[kind |-> "file", nr |-> b, first |-> file[b].first] : b \in Holding}
           E == {[kind |-> "entry", nr |-> s, first |-> Entry(s).first] : s \in Closed}
<1>1. Owners = F \cup E
    BY DEF Owners, Holding
<1>2. \A o \in F : /\ o.kind = "file" /\ o.nr \in Holding /\ o.nr \in Bindings \ Unbound
                   /\ o = [kind |-> "file", nr |-> o.nr, first |-> file[o.nr].first]
                   /\ TokenOf(o) = Token(o.nr) /\ o.first = file[o.nr].first
    BY DEF Holding, TokenOf
<1>3. \A o \in E : /\ o.kind = "entry" /\ o.nr \in Closed
                   /\ o = [kind |-> "entry", nr |-> o.nr, first |-> Entry(o.nr).first]
                   /\ TokenOf(o) = <<0, o.nr>> /\ o.first = Entry(o.nr).first
    BY DEF TokenOf
<1> HIDE DEF F, E
<1>4. \A o \in Owners : <<TokenOf(o), o.first>> \in Firsts
    BY <1>1, <1>2, <1>3 DEF Firsts
<1>5. ASSUME NEW o \in Owners, NEW x \in Owners, TokenOf(o) = TokenOf(x) PROVE o = x
    <2>1. CASE o \in F /\ x \in F
        <3>1. o.nr = x.nr
            BY <1>2, <1>5, <2>1, TokensApart
        <3> QED
            BY <1>2, <2>1, <3>1
    <2>2. CASE o \in E /\ x \in E
        <3>1. o.nr = x.nr
            BY <1>3, <1>5, <2>2
        <3> QED
            BY <1>3, <2>2, <3>1
    <2>3. CASE o \in F /\ x \in E
        BY <1>2, <1>3, <1>5, <2>3, TokensApart
    <2>4. CASE o \in E /\ x \in F
        BY <1>2, <1>3, <1>5, <2>4, TokensApart
    <2> QED
        BY <1>1, <2>1, <2>2, <2>3, <2>4
<1> QED
    BY <1>4, <1>5

\* What is laid out is not linked across.
LEMMA LaidApart == ChainInv => NoCrossLinks
<1> SUFFICES ASSUME ChainInv, Intact PROVE NoCrossLinks
    BY DEF NoCrossLinks
<1> DEFINE claims == UNION {{o} \X ToSet(ChainFrom(o.first)) : o \in Owners}
           held == {a[2] : a \in claims}
           f == [a \in claims |-> a[2]]
<1>1. PICK root, at : Chained(Table, root, at) /\ Rooted(Firsts, root, at) /\ Apart(Firsts)
    <2>1. Table = TableOf(vol)
        BY DEF Table, TableOf
    <2>2. PICK root, at : Owned(TableOf(vol), root, at)
        BY LaidIsOwned DEF ChainInv, LaidOut
    <2> QED
        BY <2>1, <2>2 DEF Owned
<1>2. DirSound
    BY DEF ChainInv, DirInv, Intact
<1>3. ASSUME NEW a \in claims
      PROVE  /\ a[1] \in Owners /\ a[2] \in Clusters /\ a = <<a[1], a[2]>>
             /\ a[1].first # None /\ root[a[2]] = a[1].first
    <2>1. PICK o \in Owners : a \in {o} \X ToSet(ChainFrom(o.first))
        OBVIOUS
    <2>2. a[1] = o /\ a[2] \in ToSet(ChainFrom(o.first)) /\ a = <<a[1], a[2]>>
        BY <2>1
    <2>3. o.first \in Clusters
        <3>1. o.first \notin Clusters => ChainFrom(o.first) = <<>>
            BY DEF ChainFrom
        <3>2. ToSet(<<>>) = {}
            BY DEF ToSet
        <3> QED
            BY <2>2, <3>1, <3>2
    <2>4. PICK y : y = <<TokenOf(o), o.first>>
        OBVIOUS
    <2>5. y \in Firsts /\ y[2] = o.first
        BY <1>2, <2>4, OwnersApart
    <2>6. o.first # None /\ root[o.first] = o.first
        BY <1>1, <2>3, <2>5, Geometry DEF Rooted, None
    <2>7. a[2] \in Clusters /\ root[a[2]] = o.first
        BY <1>1, <2>2, <2>3, <2>6, ChainIs
    <2> QED
        BY <2>2, <2>6, <2>7
<1> HIDE DEF claims
<1>4. ASSUME NEW a \in claims, NEW b \in claims, a[2] = b[2] PROVE a = b
    <2>1. PICK o \in Owners : o = a[1]
        BY <1>3
    <2>2. PICK x \in Owners : x = b[1]
        BY <1>3
    <2>3. o.first = x.first /\ o.first # None
        BY <1>3, <1>4, <2>1, <2>2
    <2>4. PICK y : y = <<TokenOf(o), o.first>>
        OBVIOUS
    <2>5. PICK z : z = <<TokenOf(x), x.first>>
        OBVIOUS
    <2>6. y \in Firsts /\ z \in Firsts
        BY <1>2, <2>4, <2>5, OwnersApart
    <2>7. y[1] = TokenOf(o) /\ y[2] = o.first /\ z[1] = TokenOf(x) /\ z[2] = x.first
        BY <2>4, <2>5
    <2>8. TokenOf(o) = TokenOf(x)
        BY <1>1, <2>3, <2>6, <2>7 DEF Apart
    <2>9. o = x
        BY <1>2, <2>8, OwnersApart
    <2>10. a[1] = b[1]
        BY <2>1, <2>2, <2>9
    <2>11. a = <<a[1], a[2]>> /\ b = <<b[1], b[2]>>
        BY <1>3
    <2> QED
        BY <1>4, <2>10, <2>11
<1>5. f \in Injection(claims, held) /\ f \in Surjection(claims, held)
    BY <1>4 DEF Injection, Surjection, IsInjective
<1>6. IsFiniteSet(held)
    <2>1. held \subseteq Clusters
        BY <1>3
    <2>2. IsFiniteSet(Clusters)
        BY FS_Interval, SizesAssumption DEF Clusters
    <2> HIDE DEF held
    <2> QED
        BY <2>1, <2>2, FS_Subset
<1> HIDE DEF f, held
<1>7. Cardinality(claims) = Cardinality(held)
    BY <1>5, <1>6, FS_Injection
<1> QED
    BY <1>7 DEF NoCrossLinks, claims, held

(***************************************************************************)
(* No cluster ever belongs to two files, whatever was removed, truncated   *)
(* or renamed while it was open elsewhere and whichever sector of the      *)
(* table could not be read, while the directory is legible and no stream   *)
(* has lost its place: for any number of threads and files, on a volume    *)
(* and with a cache of any size.                                           *)
(***************************************************************************)
THEOREM NeverCrossLinked == Spec => []NoCrossLinks
<1>1. (Init => ChainInv) /\ (ChainInv /\ [Next]_vars => ChainInv')
    BY ChainInvKept
<1>2. ChainInv => NoCrossLinks
    BY LaidApart
<1> QED
    BY <1>1, <1>2, PTL DEF Spec
==============================================================================
