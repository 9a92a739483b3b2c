----------------------------- MODULE BootProofs -----------------------------
(***************************************************************************)
(* Proofs about the boot program and the switcher its threads run on.  Of  *)
(* BtLink, for any names and any bounds: the types, and that an iPod that  *)
(* has not been started again boots only when the board is connected to    *)
(* the device the user chose.  Of DeviceList, its step 3 in detail, for    *)
(* any reports, any number of rows and any length of a row: the list is a  *)
(* set with the highlight on one of its rows, what is chosen is what the   *)
(* user saw, a press moves once.  Of Scheduler, for any number of threads, *)
(* any clock and any delays less than half its range: the lists agree with *)
(* the threads' states, the timeouts are looked at in time, and time wakes *)
(* nobody early.                                                           *)
(***************************************************************************)
EXTENDS BtLink, DeviceList, Scheduler, SequenceTheorems, TLAPS

\* A queue of S-texts heard late, with remains in S, is a queue of S-texts and
\* no longer than it was (operator Heard of SerialLink).
LEMMA HeardType ==
    ASSUME NEW S, NEW q \in Seq(S), NEW R, R \subseteq S, NEW h \in Heard(q, R)
    PROVE  h \in Seq(S) /\ Len(h) <= Len(q)
<1> DEFINE Tails == {SubSeq(q, i, Len(q)) : i \in 1..(Len(q) + 1)}
<1>0. Len(q) \in Nat
    BY LenProperties
<1>1. \A s \in Tails : s \in Seq(S) /\ Len(s) <= Len(q)
    <2> SUFFICES ASSUME NEW i \in 1..(Len(q) + 1)
                 PROVE  SubSeq(q, i, Len(q)) \in Seq(S) /\ Len(SubSeq(q, i, Len(q))) <= Len(q)
        OBVIOUS
    <2>1. \A j \in i..Len(q) : q[j] \in S
        BY <1>0, ElementOfSeq
    <2>2. i \in Int /\ Len(q) \in Int
        BY <1>0
    <2>3. SubSeq(q, i, Len(q)) \in Seq(S)
        BY <2>1, <2>2, SubSeqProperties
    <2>4. Len(SubSeq(q, i, Len(q))) = IF i <= Len(q) THEN Len(q) - i + 1 ELSE 0
        BY <2>1, <2>2, SubSeqProperties
    <2> QED
        BY <2>3, <2>4, <1>0
<1>2. CASE h \in Tails
    BY <1>1, <1>2
<1>3. ASSUME NEW s \in Tails \ {<<>>}, NEW r \in R, h = [s EXCEPT ![1] = r]
      PROVE  h \in Seq(S) /\ Len(h) <= Len(q)
    <2>1. s \in Seq(S) /\ Len(s) <= Len(q) /\ s # <<>>
        BY <1>1, <1>3
    <2>2. 1 \in 1..Len(s)
        BY <2>1, EmptySeq
    <2>3. h \in Seq(S) /\ Len(h) = Len(s)
        BY <2>1, <2>2, <1>3, ExceptSeq
    <2> QED
        BY <2>1, <2>3
<1> QED
    BY <1>2, <1>3 DEF Heard

\* What the board prints keeps the lines in flight lines of S, and bounded
\* (operator Say of SerialLink).
LEMMA SayType ==
    ASSUME NEW S, toIpod \in Seq(S), Len(toIpod) <= MaxInFlight,
           NEW lines \in Seq(S), Len(lines) <= LongestBurst, Say(lines)
    PROVE  toIpod' \in Seq(S) /\ Len(toIpod') <= MaxInFlight
<1> DEFINE room == MaxToIpod - Len(toIpod)
           some == SubSeq(lines, 1, room)
<1>1. Len(toIpod) \in Nat /\ Len(lines) \in Nat /\ MaxToIpod \in Nat /\ room \in Int
    BY LenProperties, RingAssumption
<1>2. MaxInFlight = MaxToIpod + 3 /\ Len(lines) <= 3
    BY DEF MaxInFlight, LongestBurst
<1>3. toIpod \o lines \in Seq(S) /\ Len(toIpod \o lines) = Len(toIpod) + Len(lines)
    BY ConcatProperties
<1>4. ASSUME room < Len(lines)
      PROVE  toIpod \o some \in Seq(S) /\ Len(toIpod \o some) <= MaxInFlight
    <2>1. \A j \in 1..room : lines[j] \in S
        BY <1>1, <1>4, ElementOfSeq
    <2>2. some \in Seq(S) /\ Len(some) = IF 1 <= room THEN room - 1 + 1 ELSE 0
        BY <1>1, <2>1, SubSeqProperties
    <2>3. toIpod \o some \in Seq(S) /\ Len(toIpod \o some) = Len(toIpod) + Len(some)
        BY <2>2, ConcatProperties
    <2> HIDE DEF some
    <2> QED
        BY <1>1, <1>2, <2>2, <2>3
<1>5. CASE ~portOpen
    BY <1>5 DEF Say
<1>6. CASE portOpen /\ Listening
    <2>1. toIpod' = toIpod \o lines /\ (toIpod = <<>> \/ Len(lines) <= room)
        BY <1>6 DEF Say
    <2>2. toIpod = <<>> => Len(toIpod) = 0
        OBVIOUS
    <2> QED
        BY <1>1, <1>2, <1>3, <2>1, <2>2
<1>7. CASE portOpen /\ ~Listening
    <2>1. CASE Len(lines) <= room
        <3>1. toIpod' = toIpod \o lines
            BY <1>7, <2>1 DEF Say
        <3> QED
            BY <1>1, <1>2, <1>3, <2>1, <3>1
    <2>2. CASE ~(Len(lines) <= room)
        <3>1. toIpod' = toIpod \o some
            BY <1>7, <2>2 DEF Say
        <3> QED
            BY <1>1, <1>4, <2>2, <3>1
    <2> QED
        BY <2>1, <2>2
<1> QED
    BY <1>5, <1>6, <1>7

\* Appending a line the ring may have no room for (operator WriteLine).
LEMMA WriteType ==
    ASSUME NEW S, toBoard \in Seq(S), Len(toBoard) <= MaxToBoard,
           NEW text \in S, WriteLine(text)
    PROVE  toBoard' \in Seq(S) /\ Len(toBoard') <= MaxToBoard
<1>1. Len(toBoard) \in Nat /\ MaxToBoard \in Nat
    BY LenProperties, RingAssumption
<1>2. Append(toBoard, text) \in Seq(S) /\ Len(Append(toBoard, text)) = Len(toBoard) + 1
    BY AppendProperties
<1> QED
    BY <1>1, <1>2 DEF WriteLine

\* A line read from a queue leaves a shorter queue of the same kind.
LEMMA TailType ==
    ASSUME NEW S, NEW q \in Seq(S), q # <<>>, NEW max \in Nat, Len(q) <= max
    PROVE  Head(q) \in S /\ Tail(q) \in Seq(S) /\ Len(Tail(q)) <= max
<1>1. Head(q) \in S /\ Tail(q) \in Seq(S) /\ Len(Tail(q)) = Len(q) - 1
    BY HeadTailProperties
<1>2. Len(q) \in Nat
    BY LenProperties
<1> QED
    BY <1>1, <1>2

\* The literal sequences of a set's elements.
LEMMA TupleType ==
    ASSUME NEW S, NEW a \in S, NEW b \in S, NEW c \in S
    PROVE  /\ <<a>> \in Seq(S) /\ <<a, b>> \in Seq(S) /\ <<a, b, c>> \in Seq(S)
           /\ Len(<<a>>) <= LongestBurst
           /\ Len(<<a, b>>) <= LongestBurst
           /\ Len(<<a, b, c>>) <= LongestBurst
BY DEF LongestBurst

\* Every line the board prints is a line.
LEMMA LinesType ==
    /\ \A k \in LineKinds, t \in Texts : Line(k, t) \in Lines
    /\ Parts \subseteq Lines
    /\ \A l \in Lines : Chop(l) \in Texts
<1>1. \A k \in LineKinds, t \in Texts : Line(k, t) \in Lines
    BY DEF Line, Lines
<1>2. Parts \subseteq Lines
    <2>1. "part" \in LineKinds /\ {"short", "junk"} \subseteq Texts
        BY DEF LineKinds, Texts, OtherTexts
    <2> QED
        BY <1>1, <2>1 DEF Parts
<1>3. \A l \in Lines : Chop(l) \in Texts
    BY DEF Chop, Lines, LineKinds, Texts, OtherTexts
<1> QED
    BY <1>1, <1>2, <1>3

-----------------------------------------------------------------------------
\* A step of the board, for any set T of texts and any set L of lines that
\* contain what the board makes of them: the queues, the buffer and the name
\* stay within T and L (every action of Board).
LEMMA BoardWithin ==
    ASSUME NEW T, OtherTexts \subseteq T, T \subseteq Texts,
           NEW L, \A l \in Lines : l.kind # "connected" => l \in L,
           \A t \in T \cap Names : Line("connected", t) \in L,
           toBoard \in Seq(T), Len(toBoard) <= MaxToBoard,
           toIpod \in Seq(L), Len(toIpod) <= MaxInFlight,
           device_name_buffer \in T, device_name \in T,
           BoardTypeOK, BoardNext
    PROVE  /\ toBoard' \in Seq(T) /\ Len(toBoard') <= MaxToBoard
           /\ toIpod' \in Seq(L) /\ Len(toIpod') <= MaxInFlight
           /\ device_name_buffer' \in T /\ device_name' \in T
           /\ BoardTypeOK'
<1> DEFINE BoardSide == toBoard' \in Seq(T) /\ Len(toBoard') <= MaxToBoard
           IpodSide == toIpod' \in Seq(L) /\ Len(toIpod') <= MaxInFlight
           BufferSide == device_name_buffer' \in T /\ device_name' \in T /\ BoardTypeOK'
<1>0. /\ MaxToBoard \in Nat /\ MaxInFlight \in Nat
      /\ "short" \in T /\ "junk" \in T /\ "reset" \in T
      /\ \A t \in T : t \in Texts
      /\ \A t \in Names : t \in Texts
    BY RingAssumption DEF Texts, OtherTexts, MaxInFlight, LongestBurst
<1>1. \A k \in LineKinds \ {"connected"}, t \in Texts : Line(k, t) \in L
    BY LinesType DEF Line
<1>c. ASSUME UNCHANGED boardVars
      PROVE  BufferSide
    BY <1>c DEF BoardTypeOK, boardVars
<1>d. ASSUME UNCHANGED toBoard
      PROVE  BoardSide
    BY <1>d
<1>e. ASSUME UNCHANGED toIpod
      PROVE  IpodSide
    BY <1>e
<1>2. ASSUME NEW lines \in Seq(L), Len(lines) <= LongestBurst, Say(lines)
      PROVE  IpodSide
    BY <1>2, SayType
<1>3. ASSUME toBoard # <<>>
      PROVE  Head(toBoard) \in T /\ Tail(toBoard) \in Seq(T) /\ Len(Tail(toBoard)) <= MaxToBoard
    BY <1>0, <1>3, TailType
<1>4. ASSUME Restart
      PROVE  BufferSide /\ BoardSide
    <2>1. BufferSide
        BY <1>0, <1>4 DEF Restart, BoardTypeOK
    <2>2. toBoard' = <<>>
        BY <1>4 DEF Restart
    <2>3. BoardSide
        BY <2>2, <1>0, EmptySeq
    <2> QED
        BY <2>1, <2>3
<1>5. ASSUME BufferChars
      PROVE  BufferSide /\ BoardSide
    <2>1. toBoard' = toBoard /\ toBoard # <<>> /\ bpc' = bpc /\ device_name' = device_name
        BY <1>5 DEF BufferChars, CharsPending
    <2>2. device_name_buffer' \in T /\ nameidx' = 1
        BY <1>0, <1>3, <1>5, <2>1 DEF BufferChars, Overlay
    <2>3. BoardTypeOK'
        BY <1>0, <2>1, <2>2 DEF BoardTypeOK
    <2> QED
        BY <2>1, <2>2, <2>3, <1>d
<1>6. ASSUME PrintConnecting
      PROVE  IpodSide
    <2>1. <<Line("connecting", device_name)>> \in Seq(L)
         /\ Len(<<Line("connecting", device_name)>>) <= LongestBurst
        BY <1>0, <1>1, TupleType DEF LineKinds
    <2> QED
        BY <1>6, <2>1, <1>2 DEF PrintConnecting
<1>7. CASE Start
    <2>1. toBoard' \in Seq(T) /\ Len(toBoard') <= Len(toBoard)
        BY <1>0, <1>7, HeardType DEF Start
    <2>2. <<Line("blank", "short"), Line("starting", "short")>> \in Seq(L)
         /\ Len(<<Line("blank", "short"), Line("starting", "short")>>) <= LongestBurst
        BY <1>0, <1>1, TupleType DEF LineKinds
    <2>3. IpodSide
        BY <1>2, <1>7, <2>2 DEF Start
    <2>4. Len(toBoard') \in Nat /\ Len(toBoard) \in Nat
        BY <2>1, LenProperties
    <2>5. BoardSide
        BY <2>1, <2>4, <1>0
    <2>6. BufferSide
        BY <1>0, <1>7 DEF Start, BoardTypeOK
    <2> QED
        BY <2>3, <2>5, <2>6
<1>8. ASSUME NEW name \in Names, ScanResult(name)
      PROVE  BufferSide /\ BoardSide /\ IpodSide
    <2>1. <<Line("device", name)>> \in Seq(L)
         /\ Len(<<Line("device", name)>>) <= LongestBurst
        BY <1>0, <1>1, TupleType DEF LineKinds
    <2>2. IpodSide
        BY <1>2, <1>8, <2>1 DEF ScanResult
    <2> QED
        BY <1>8, <1>c, <1>d, <2>2 DEF ScanResult
<1>9. CASE SearchChars
    BY <1>e, <1>5, <1>9 DEF SearchChars
<1>10. CASE SearchNewline
    <2>1. toBoard # <<>> /\ IpodSide
        BY <1>e, <1>10 DEF SearchNewline, NewlinePending
    <2>2. CASE StartsWithReset(device_name_buffer)
        BY <1>4, <1>10, <2>1, <2>2 DEF SearchNewline
    <2>3. CASE ~StartsWithReset(device_name_buffer)
        <3>1. BufferSide
            BY <1>10, <2>3 DEF SearchNewline, BoardTypeOK
        <3>2. toBoard' = Tail(toBoard)
            BY <1>10, <2>3 DEF SearchNewline
        <3> QED
            BY <1>3, <2>1, <3>1, <3>2
    <2> QED
        BY <2>2, <2>3
<1>11. CASE ConnectingIdle
    BY <1>c, <1>d, <1>6, <1>11 DEF ConnectingIdle
<1>12. CASE ConnectingChars
    BY <1>5, <1>6, <1>12 DEF ConnectingChars
<1>13. CASE ConnectingNewline
    <2>1. toBoard # <<>> /\ IpodSide
        BY <1>6, <1>13 DEF ConnectingNewline, NewlinePending
    <2>2. CASE device_name_buffer = "reset"
        BY <1>4, <1>13, <2>1, <2>2 DEF ConnectingNewline
    <2>3. CASE device_name_buffer # "reset"
        <3>1. BufferSide
            BY <1>0, <1>13, <2>3 DEF ConnectingNewline, BoardTypeOK
        <3>2. toBoard' = Tail(toBoard)
            BY <1>13, <2>3 DEF ConnectingNewline
        <3> QED
            BY <1>3, <2>1, <3>1, <3>2
    <2> QED
        BY <2>2, <2>3
<1>14. CASE Connected
    <2>1. <<Line("connected", device_name), Line("ready", "short"), Line("done", "short")>> \in Seq(L)
         /\ Len(<<Line("connected", device_name), Line("ready", "short"), Line("done", "short")>>) <= LongestBurst
        BY <1>0, <1>1, <1>14, TupleType DEF LineKinds, Connected
    <2>2. IpodSide
        BY <1>2, <1>14, <2>1 DEF Connected
    <2>3. BufferSide
        BY <1>14 DEF Connected, BoardTypeOK
    <2> QED
        BY <1>d, <1>14, <2>2, <2>3 DEF Connected
<1>15. CASE TaskFailure
    <2>1. <<Line("connected", device_name), Line("ready", "short"), Line("error", "short")>> \in Seq(L)
         /\ Len(<<Line("connected", device_name), Line("ready", "short"), Line("error", "short")>>) <= LongestBurst
        BY <1>0, <1>1, <1>15, TupleType DEF LineKinds, TaskFailure
    <2>2. IpodSide
        BY <1>2, <1>15, <2>1 DEF TaskFailure
    <2> QED
        BY <1>4, <1>15, <2>2 DEF TaskFailure
<1>16. CASE TaskLine
    <2>1. toBoard # <<>> /\ IpodSide
        BY <1>e, <1>16 DEF TaskLine
    <2>2. CASE TaskBuffer(Head(toBoard)) = "reset"
        BY <1>4, <1>16, <2>1, <2>2 DEF TaskLine
    <2>3. CASE TaskBuffer(Head(toBoard)) # "reset"
        BY <1>c, <1>3, <1>16, <2>1, <2>3 DEF TaskLine
    <2> QED
        BY <2>2, <2>3
<1> QED
    BY <1>7, <1>8, <1>9, <1>10, <1>11, <1>12, <1>13, <1>14, <1>15, <1>16
    DEF BoardNext, BoardRuns

\* The same of a step of the iPod, which writes "reset" or the selected device
\* (every action of IpodBoot).
LEMMA IpodWithin ==
    ASSUME NEW T, OtherTexts \subseteq T,
           NEW L, \A l \in Lines : l.kind # "connected" => l \in L,
           toBoard \in Seq(T), Len(toBoard) <= MaxToBoard,
           toIpod \in Seq(L), Len(toIpod) <= MaxInFlight,
           ipc = "step4" => selected_dev \in T,
           IpodNext
    PROVE  /\ toBoard' \in Seq(T) /\ Len(toBoard') <= MaxToBoard
           /\ toIpod' \in Seq(L) /\ Len(toIpod') <= MaxInFlight
<1> DEFINE BoardSide == toBoard' \in Seq(T) /\ Len(toBoard') <= MaxToBoard
           IpodSide == toIpod' \in Seq(L) /\ Len(toIpod') <= MaxInFlight
<1>0. /\ MaxToBoard \in Nat /\ MaxInFlight \in Nat /\ 1 <= MaxInFlight
      /\ "reset" \in T
      /\ \A p \in Parts : p \in L
    <2>1. \A p \in Parts : p \in Lines /\ p.kind = "part"
        BY LinesType DEF Parts, Line
    <2> QED
        BY RingAssumption, <2>1 DEF OtherTexts, MaxInFlight, LongestBurst
<1>d. ASSUME UNCHANGED toBoard
      PROVE  BoardSide
    BY <1>d
<1>e. ASSUME UNCHANGED toIpod
      PROVE  IpodSide
    BY <1>e
<1>1. ASSUME NEW text \in T, WriteLine(text)
      PROVE  BoardSide
    BY <1>1, WriteType
<1>2. ASSUME TakeLine
      PROVE  IpodSide
    BY <1>0, <1>2, TailType DEF TakeLine
<1>3. ASSUME toIpod' = <<>>
      PROVE  IpodSide
    BY <1>0, <1>3, EmptySeq
<1>4. ASSUME NEW p \in Parts, toIpod' = <<p>>
      PROVE  IpodSide
    <2>1. <<p>> \in Seq(L)
        BY <1>0, <1>4, TupleType
    <2> QED
        BY <1>0, <1>4, <2>1
<1>5. CASE SendReset
    BY <1>0, <1>1, <1>e, <1>5 DEF SendReset
<1>6. CASE AwaitStarting
    BY <1>0, <1>1, <1>2, <1>d, <1>6 DEF AwaitStarting
<1>7. CASE ListDevice
    BY <1>2, <1>d, <1>7 DEF ListDevice
<1>8. CASE SendSelected
    <2>1. BoardSide
        BY <1>1, <1>8 DEF SendSelected
    <2>2. CASE toIpod' = toIpod
        BY <1>e, <2>1, <2>2
    <2>3. ASSUME NEW p \in Parts, toIpod # <<>>, toIpod' = [toIpod EXCEPT ![1] = p]
          PROVE  IpodSide
        <3>1. 1 \in 1..Len(toIpod)
            BY <2>3, EmptySeq
        <3>2. toIpod' \in Seq(L) /\ Len(toIpod') = Len(toIpod)
            BY <1>0, <2>3, <3>1, ExceptSeq
        <3> QED
            BY <3>2
    <2> QED
        BY <1>8, <2>1, <2>2, <2>3 DEF SendSelected
<1>9. CASE AwaitConnected
    BY <1>2, <1>d, <1>9 DEF AwaitConnected
<1>10. CASE RunOf
    BY <1>3, <1>d, <1>10 DEF RunOf
<1>11. ASSUME NEW dev \in devices, SelectDevice(dev)
       PROVE  BoardSide /\ IpodSide
    BY <1>d, <1>e, <1>11 DEF SelectDevice
<1>12. CASE OpenMenu
    BY <1>d, <1>e, <1>12 DEF OpenMenu
<1>13. CASE MenuBack
    BY <1>d, <1>e, <1>13 DEF MenuBack
<1>14. CASE MenuReset
    BY <1>0, <1>1, <1>e, <1>14 DEF MenuReset
<1>15. CASE MenuStop
    BY <1>3, <1>d, <1>15 DEF MenuStop
<1>16. CASE MenuSetup
    BY <1>3, <1>4, <1>d, <1>16 DEF MenuSetup
<1> QED
    BY <1>5, <1>6, <1>7, <1>8, <1>9, <1>10, <1>11, <1>12, <1>13, <1>14, <1>15, <1>16
    DEF IpodNext, IpodRuns

\* The iPod's own variables keep their types.
LEMMA IpodType ==
    ASSUME LinkTypeOK, IpodTypeOK, IpodNext
    PROVE  /\ IpodTypeOK'
           /\ portOpen' \in BOOLEAN
           /\ ipc' \in {"step1", "step2", "step3", "menu", "step4", "step5", "step6", "of"}
<1>1. ASSUME toIpod # <<>>
      PROVE  Chop(NextLine) \in Texts
    <2>1. Head(toIpod) \in Lines
        BY <1>1, HeadTailProperties DEF LinkTypeOK
    <2> QED
        BY <2>1, LinesType DEF NextLine
<1>2. CASE ListDevice
    BY <1>1, <1>2 DEF ListDevice, TakeLine, IpodTypeOK, LinkTypeOK
<1>3. CASE SendReset
    BY <1>3 DEF SendReset, IpodTypeOK, LinkTypeOK
<1>4. CASE AwaitStarting
    BY <1>4 DEF AwaitStarting, TakeLine, IpodTypeOK, LinkTypeOK
<1>5. CASE SendSelected
    BY <1>5 DEF SendSelected, IpodTypeOK, LinkTypeOK
<1>6. CASE AwaitConnected
    BY <1>6 DEF AwaitConnected, IpodTypeOK, LinkTypeOK
<1>7. CASE RunOf
    BY <1>7 DEF RunOf, IpodTypeOK, LinkTypeOK
<1>8. ASSUME NEW dev \in devices, SelectDevice(dev)
      PROVE  /\ IpodTypeOK'
             /\ portOpen' \in BOOLEAN
             /\ ipc' = "step4"
    BY <1>8 DEF SelectDevice, IpodTypeOK, LinkTypeOK
<1>9. CASE OpenMenu \/ MenuBack \/ MenuReset \/ MenuStop \/ MenuSetup
    BY <1>9 DEF OpenMenu, LeaveMenu, MenuBack, MenuReset, MenuStop, MenuSetup, IpodTypeOK, LinkTypeOK
<1> QED
    BY <1>2, <1>3, <1>4, <1>5, <1>6, <1>7, <1>8, <1>9 DEF IpodNext, IpodRuns

-----------------------------------------------------------------------------
\* Every step keeps the types.
LEMMA TypeStep == TypeOK /\ [Next]_vars => TypeOK'
<1> SUFFICES ASSUME TypeOK, [Next]_vars
             PROVE  TypeOK'
    OBVIOUS
<1>0. /\ LinkTypeOK /\ BoardTypeOK /\ IpodTypeOK
      /\ faults \in 0..MaxFaults /\ MaxFaults \in Nat /\ rebooted \in BOOLEAN
      /\ MaxToBoard \in Nat /\ MaxInFlight \in Nat /\ 1 <= MaxInFlight
    BY FaultsAssumption, RingAssumption DEF TypeOK, MaxInFlight, LongestBurst
<1>1. CASE BoardStep
    <2>1. /\ OtherTexts \subseteq Texts
          /\ \A t \in Texts \cap Names : Line("connected", t) \in Lines
        BY LinesType DEF Texts, LineKinds
    <2>2. /\ toBoard' \in Seq(Texts) /\ Len(toBoard') <= MaxToBoard
          /\ toIpod' \in Seq(Lines) /\ Len(toIpod') <= MaxInFlight
          /\ BoardTypeOK'
        BY <1>0, <1>1, <2>1, BoardWithin DEF BoardStep, LinkTypeOK, BoardTypeOK
    <2>3. UNCHANGED <<ipodVars, counters>>
        BY <1>1 DEF BoardStep
    <2> QED
        BY <1>0, <2>2, <2>3 DEF TypeOK, LinkTypeOK, IpodTypeOK, ipodVars, counters
<1>2. CASE IpodStep
    <2>1. ipc = "step4" => selected_dev \in Texts
        BY <1>0 DEF IpodTypeOK
    <2>2. /\ toBoard' \in Seq(Texts) /\ Len(toBoard') <= MaxToBoard
          /\ toIpod' \in Seq(Lines) /\ Len(toIpod') <= MaxInFlight
        BY <1>0, <1>2, <2>1, IpodWithin DEF IpodStep, LinkTypeOK, IpodTypeOK, Texts
    <2>3. IpodTypeOK' /\ portOpen' \in BOOLEAN
          /\ ipc' \in {"step1", "step2", "step3", "menu", "step4", "step5", "step6", "of"}
        BY <1>0, <1>2, IpodType DEF IpodStep
    <2>4. UNCHANGED <<boardVars, counters>>
        BY <1>2 DEF IpodStep
    <2> QED
        BY <1>0, <2>2, <2>3, <2>4 DEF TypeOK, LinkTypeOK, BoardTypeOK, boardVars, counters
<1>3. CASE Overrun
    <2> SUFFICES ASSUME NEW i \in DOMAIN toIpod, NEW p \in Parts,
                        toIpod' = [toIpod EXCEPT ![i] = p]
                 PROVE  TypeOK'
        BY <1>3 DEF Overrun
    <2>1. i \in 1..Len(toIpod) /\ p \in Lines
        BY <1>0, LinesType, LenProperties DEF LinkTypeOK
    <2>2. toIpod' \in Seq(Lines) /\ Len(toIpod') = Len(toIpod)
        BY <1>0, <2>1, ExceptSeq DEF LinkTypeOK
    <2>3. /\ UNCHANGED <<toBoard, boardVars, ipodVars, rebooted>>
          /\ faults' \in 0..MaxFaults
        BY <1>0, <1>3 DEF Overrun, Fault
    <2> QED
        BY <1>0, <2>2, <2>3
        DEF TypeOK, LinkTypeOK, BoardTypeOK, IpodTypeOK, boardVars, ipodVars
<1>4. CASE PowerCycle
    <2>1. toBoard' = <<>> /\ BoardTypeOK'
        BY <1>0, <1>4 DEF PowerCycle, Restart, BoardTypeOK, Texts, OtherTexts
    <2>2. toBoard' \in Seq(Texts) /\ Len(toBoard') <= MaxToBoard
        BY <1>0, <2>1, EmptySeq
    <2>3. UNCHANGED <<toIpod, ipodVars, rebooted>> /\ faults' \in 0..MaxFaults
        BY <1>0, <1>4 DEF PowerCycle, Fault
    <2> QED
        BY <1>0, <2>1, <2>2, <2>3 DEF TypeOK, LinkTypeOK, IpodTypeOK, ipodVars
<1>5. CASE Reboot
    <2>1. toIpod' \in Seq(Lines) /\ Len(toIpod') <= MaxInFlight
        <3>1. CASE toIpod' = <<>>
            BY <1>0, <3>1, EmptySeq
        <3>2. ASSUME NEW p \in Parts, toIpod' = <<p>>
              PROVE  toIpod' \in Seq(Lines) /\ Len(toIpod') <= MaxInFlight
            <4>1. <<p>> \in Seq(Lines)
                BY LinesType, TupleType
            <4> QED
                BY <1>0, <3>2, <4>1
        <3> QED
            BY <1>5, <3>1, <3>2 DEF Reboot
    <2>2. IpodTypeOK' /\ portOpen' \in BOOLEAN /\ ipc' = "step1"
        BY <1>5 DEF Reboot, IpodTypeOK
    <2>3. /\ UNCHANGED <<toBoard, boardVars>>
          /\ faults' \in 0..MaxFaults /\ rebooted' = TRUE
        BY <1>0, <1>5 DEF Reboot, Fault
    <2> QED
        BY <1>0, <2>1, <2>2, <2>3 DEF TypeOK, LinkTypeOK, BoardTypeOK, boardVars
<1>6. CASE UNCHANGED vars
    BY <1>0, <1>6
    DEF vars, link, boardVars, ipodVars, counters, TypeOK, LinkTypeOK, BoardTypeOK, IpodTypeOK
<1> QED
    BY <1>1, <1>2, <1>3, <1>4, <1>5, <1>6 DEF Next

\* Every state has the types of TypeOK, and no queue outgrows its bound, for
\* any names and any bounds (all of main and setup).
THEOREM TypeCorrect == Spec => []TypeOK
<1>1. Init => TypeOK
    <2> SUFFICES ASSUME Init PROVE TypeOK
        OBVIOUS
    <2>1. <<>> \in Seq(Texts) /\ <<>> \in Seq(Lines)
        BY EmptySeq
    <2>2. LinkTypeOK
        BY <2>1, RingAssumption DEF Init, IpodInit, LinkTypeOK, MaxInFlight, LongestBurst
    <2>3. BoardTypeOK /\ IpodTypeOK
        BY DEF Init, BoardInit, IpodInit, BoardTypeOK, IpodTypeOK, Texts, OtherTexts
    <2>4. rebooted \in BOOLEAN
        BY DEF Init
    <2>5. faults \in 0..MaxFaults
        BY FaultsAssumption DEF Init
    <2> QED
        BY <2>2, <2>3, <2>4, <2>5 DEF TypeOK
<1> QED
    BY <1>1, TypeStep, PTL DEF Spec

-----------------------------------------------------------------------------
\* What is expected of the board includes every text that is not a name, and a
\* "connected" line for every name that is expected.
LEMMA ExpectedFacts ==
    ASSUME TypeOK
    PROVE  /\ OtherTexts \subseteq Expected
           /\ Expected \subseteq Texts
           /\ \A l \in Lines : l.kind # "connected" => l \in ExpectedLines
           /\ \A t \in Expected \cap Names : Line("connected", t) \in ExpectedLines
<1>1. OtherTexts \subseteq Expected /\ Expected \subseteq Texts
    BY DEF Expected, Chosen, Texts
<1>2. \A l \in Lines : l.kind # "connected" => l \in ExpectedLines
    BY DEF ExpectedLines
<1>3. ASSUME NEW t \in Expected \cap Names
      PROVE  Line("connected", t) \in ExpectedLines
    <2>1. t \in Chosen
        BY TextsAssumption DEF Expected
    <2>2. Line("connected", t) \in Lines
        BY LinesType DEF LineKinds, Texts
    <2> QED
        BY <2>1, <2>2 DEF ExpectedLines, Line
<1> QED
    BY <1>1, <1>2, <1>3

\* A program that goes on without starting over expects no less than before.
LEMMA ExpectedGrows ==
    ASSUME TypeOK, IpodNext
    PROVE  /\ Chosen \subseteq Chosen'
           /\ Expected \subseteq Expected'
           /\ ExpectedLines \subseteq ExpectedLines'
           /\ ipc = "step4" => selected_dev \in Expected'
<1>1. ipc \in {"step5", "step6", "of"} =>
        ipc' \in {"step5", "step6", "of"} /\ selected_dev' = selected_dev
    BY DEF IpodNext, IpodRuns, SendReset, AwaitStarting, ListDevice, SelectDevice,
           SendSelected, AwaitConnected, RunOf, OpenMenu, MenuBack, MenuReset,
           MenuStop, MenuSetup, LeaveMenu
<1>2. ipc = "step4" => ipc' = "step5" /\ selected_dev' = selected_dev
    BY DEF IpodNext, IpodRuns, SendReset, AwaitStarting, ListDevice, SelectDevice,
           SendSelected, AwaitConnected, RunOf, OpenMenu, MenuBack, MenuReset,
           MenuStop, MenuSetup, LeaveMenu
<1>3. Chosen \subseteq Chosen'
    BY <1>1 DEF Chosen
<1>4. ipc = "step4" => selected_dev \in Expected'
    BY <1>2 DEF Expected, Chosen, TypeOK, IpodTypeOK, Texts
<1> QED
    BY <1>3, <1>4 DEF Expected, ExpectedLines

LEMMA ChosenStep == TypeOK /\ OnlyChosenSent /\ [Next]_vars => OnlyChosenSent'
<1> SUFFICES ASSUME TypeOK, OnlyChosenSent, [Next]_vars, ~rebooted'
             PROVE  OnlyChosenSent'
    BY DEF OnlyChosenSent
<1> DEFINE Same == UNCHANGED <<toBoard, device_name_buffer, device_name, toIpod>>
<1>0. /\ Len(toBoard) <= MaxToBoard /\ Len(toIpod) <= MaxInFlight
      /\ BoardTypeOK
    BY DEF TypeOK, LinkTypeOK
<1>1. ASSUME UNCHANGED <<ipc, selected_dev>>
      PROVE  Expected' = Expected /\ ExpectedLines' = ExpectedLines
    BY <1>1 DEF Expected, ExpectedLines, Chosen
<1>2. ASSUME ~rebooted
      PROVE  /\ toBoard \in Seq(Expected) /\ toIpod \in Seq(ExpectedLines)
             /\ device_name_buffer \in Expected /\ device_name \in Expected
    BY <1>2 DEF OnlyChosenSent
<1>3. CASE BoardStep
    <2>1. ~rebooted /\ UNCHANGED <<ipc, selected_dev>> /\ BoardNext
        BY <1>3 DEF BoardStep, ipodVars, counters
    <2>2. /\ toBoard' \in Seq(Expected) /\ toIpod' \in Seq(ExpectedLines)
          /\ device_name_buffer' \in Expected /\ device_name' \in Expected
        BY <1>0, <1>2, <2>1, ExpectedFacts, BoardWithin
    <2> QED
        BY <1>1, <2>1, <2>2 DEF OnlyChosenSent
<1>4. CASE IpodStep
    <2>1. ~rebooted /\ IpodNext /\ UNCHANGED boardVars
        BY <1>4 DEF IpodStep, counters
    <2>2. /\ Expected \subseteq Expected' /\ ExpectedLines \subseteq ExpectedLines'
          /\ ipc = "step4" => selected_dev \in Expected'
        BY <2>1, ExpectedGrows
    <2>3. toBoard \in Seq(Expected') /\ toIpod \in Seq(ExpectedLines')
        BY <1>2, <2>1, <2>2, SeqMonotonic
    <2>4. /\ OtherTexts \subseteq Expected'
          /\ \A l \in Lines : l.kind # "connected" => l \in ExpectedLines'
        BY <2>2, ExpectedFacts
    <2>5. toBoard' \in Seq(Expected') /\ toIpod' \in Seq(ExpectedLines')
        BY <1>0, <2>1, <2>2, <2>3, <2>4, IpodWithin
    <2>6. device_name_buffer' \in Expected' /\ device_name' \in Expected'
        BY <1>2, <2>1, <2>2 DEF boardVars
    <2> QED
        BY <2>5, <2>6 DEF OnlyChosenSent
<1>5. CASE Overrun
    <2>1. /\ ~rebooted /\ UNCHANGED <<ipc, selected_dev>>
          /\ UNCHANGED <<toBoard, device_name_buffer, device_name>>
        BY <1>5 DEF Overrun, ipodVars, boardVars
    <2> SUFFICES ASSUME NEW i \in DOMAIN toIpod, NEW p \in Parts,
                        toIpod' = [toIpod EXCEPT ![i] = p]
                 PROVE  OnlyChosenSent'
        BY <1>5 DEF Overrun
    <2>2. i \in 1..Len(toIpod)
        BY <1>2, <2>1, LenProperties
    <2>3. p \in ExpectedLines
        BY LinesType, ExpectedFacts DEF Parts, Line
    <2>4. toIpod' \in Seq(ExpectedLines)
        BY <1>2, <2>1, <2>2, <2>3, ExceptSeq
    <2> QED
        BY <1>1, <1>2, <2>1, <2>4 DEF OnlyChosenSent
<1>6. CASE PowerCycle
    <2>1. /\ ~rebooted /\ UNCHANGED <<ipc, selected_dev, toIpod>> /\ toBoard' = <<>>
          /\ device_name_buffer' = "short" /\ device_name' = "short"
        BY <1>6 DEF PowerCycle, Restart, ipodVars
    <2>2. "short" \in Expected /\ <<>> \in Seq(Expected)
        BY EmptySeq DEF Expected, OtherTexts
    <2> QED
        BY <1>1, <1>2, <2>1, <2>2 DEF OnlyChosenSent
<1>7. CASE Reboot
    BY <1>0, <1>7 DEF Reboot
<1>8. CASE UNCHANGED vars
    BY <1>1, <1>2, <1>8 DEF vars, link, boardVars, ipodVars, counters, OnlyChosenSent
<1> QED
    BY <1>3, <1>4, <1>5, <1>6, <1>7, <1>8 DEF Next

\* As long as the iPod does not start over, no other device name than the one
\* the user chose ever reaches the board or comes back in a "connected" line,
\* whatever restarts and damaged lines do to the exchange (main, steps 1 to 5;
\* setup, steps 2 and 3).
THEOREM ChosenOnly == Spec => []OnlyChosenSent
<1>1. Init => OnlyChosenSent
    <2> SUFFICES ASSUME Init PROVE OnlyChosenSent
        OBVIOUS
    <2>1. <<>> \in Seq(Expected) /\ <<>> \in Seq(ExpectedLines) /\ "short" \in Expected
        BY EmptySeq DEF Expected, OtherTexts
    <2> QED
        BY <2>1 DEF Init, BoardInit, OnlyChosenSent
<1> QED
    BY <1>1, TypeCorrect, ChosenStep, PTL DEF Spec

\* The iPod leaves step 5 only when the board is connected to the device the
\* user chose, for any names, any bounds on the queues and any number of power
\* cycles of the board and of damaged lines, until the iPod is started again
\* (main, steps 4 and 5).
THEOREM LaunchesConnected == Spec => ConnectedToSelected
<1>1. ASSUME TypeOK, OnlyChosenSent, [Next]_vars
      PROVE  [ipc = "step5" /\ ipc' = "step6" /\ ~rebooted
                  => NextLine.name = selected_dev]_vars
    <2> SUFFICES ASSUME ipc = "step5", ipc' = "step6", ~rebooted
                 PROVE  NextLine.name = selected_dev
        OBVIOUS
    <2>1. AwaitConnected
        BY <1>1
        DEF Next, BoardStep, IpodStep, Overrun, PowerCycle, Reboot, vars, ipodVars,
            IpodNext, IpodRuns, SendReset, AwaitStarting, ListDevice, SelectDevice,
            SendSelected, RunOf, OpenMenu, MenuBack, MenuReset,
            MenuStop, MenuSetup, LeaveMenu
    <2>2. toIpod # <<>> /\ NextLine.kind = "connected"
        BY <2>1 DEF AwaitConnected, TakeLine
    <2>3. NextLine \in ExpectedLines
        BY <1>1, <2>2, HeadTailProperties DEF OnlyChosenSent, NextLine
    <2> QED
        BY <2>2, <2>3 DEF ExpectedLines, Chosen
<1>2. TypeOK /\ OnlyChosenSent /\ [Next]_vars =>
        [ipc = "step5" /\ ipc' = "step6" /\ ~rebooted => NextLine.name = selected_dev]_vars
    BY <1>1
<1> QED
    BY <1>2, TypeCorrect, ChosenOnly, PTL DEF Spec, ConnectedToSelected
-----------------------------------------------------------------------------
(***************************************************************************)
(* The list of devices.                                                    *)
(***************************************************************************)
Rows == {Stored(r) : r \in Reports}

\* What a row keeps of a name: all of it when there is room for its end.
LEMMA StoredFacts ==
    ASSUME NEW dev \in Reports
    PROVE  /\ Stored(dev) \in Seq(Chars)
           /\ Len(Stored(dev)) < NameSize => Stored(dev) = dev
<1> DEFINE n == Min({NameSize, Len(dev)})
<1>1. dev \in Seq(Chars) /\ Len(dev) \in Nat /\ NameSize \in Nat
    BY ReportsAssumption, SizeAssumption, LenProperties
<1>2. n \in {NameSize, Len(dev)} /\ n <= NameSize /\ n <= Len(dev)
    <2>1. \E x \in {NameSize, Len(dev)} : \A y \in {NameSize, Len(dev)} : x <= y
        BY <1>1
    <2> QED
        BY <1>1, <2>1 DEF Min
<1> HIDE DEF n
<1>3. \A i \in 1..n : dev[i] \in Chars
    BY <1>1, <1>2, ElementOfSeq
<1>4. /\ SubSeq(dev, 1, n) \in Seq(Chars)
      /\ Len(SubSeq(dev, 1, n)) = n
      /\ \A i \in 1..n : SubSeq(dev, 1, n)[i] = dev[i]
    BY <1>1, <1>2, <1>3, SubSeqProperties
<1>5. ASSUME n < NameSize PROVE SubSeq(dev, 1, n) = dev
    <2>1. n = Len(dev)
        BY <1>1, <1>2, <1>5
    <2> QED
        BY <1>1, <1>4, <2>1, SeqEqual
<1> QED
    BY <1>4, <1>5 DEF Stored, n

\* While the list is on the screen and unchanged, the highlight is where it was
\* drawn; the user can choose only then.
DrawnAgrees ==
    /\ pc \in {"rx", "menu"} \/ ~update => focus = drawn
    /\ pc = "step4" => focus = drawn
    /\ selected \subseteq {drawn}
    /\ selected # {} => pc = "step4"

\* A press that has had its effect is the button seen last.
PressKnown == used /\ button \in {"left", "right"} => last = button

ListInv == ListKept /\ DrawnAgrees /\ PressKnown

\* The types, those of the flags apart.
Flags == update \in BOOLEAN /\ open \in BOOLEAN /\ used \in BOOLEAN
Places ==
    /\ pc \in {"rx", "draw", "menu", "step4"}
    /\ rows \in Seq(Rows) /\ Len(rows) <= MaxDevices
    /\ focus \in 0..(MaxDevices - 1) /\ drawn \in 0..(MaxDevices - 1)
    /\ selected \subseteq 0..(MaxDevices - 1)
    /\ last \in Buttons /\ button \in Buttons
    /\ menuFocus \in 0..3
    /\ screen \in {"list", "menu", "blank"}
LEMMA TypeParts == ListTypeOK <=> Flags /\ Places
BY DEF ListTypeOK, Flags, Places, Rows

\* The initial state satisfies the invariant.
LEMMA InitList == ListInit => ListInv
<1> SUFFICES ASSUME ListInit PROVE ListInv
    OBVIOUS
<1>1. rows \in Seq(Rows) /\ Len(rows) = 0
    BY EmptySeq DEF ListInit
<1>2. Places /\ FocusInRange /\ ListIsASet
    BY <1>1, SizeAssumption DEF ListInit, Places, FocusInRange, ListIsASet, Buttons
<1>3. Flags
    BY DEF ListInit, Flags
<1> QED
    BY <1>2, <1>3, TypeParts DEF ListInit, ListInv, ListKept, DrawnAgrees, PressKnown

\* A name that is not in the list becomes its last row.
LEMMA ReceiveList ==
    ASSUME ListInv, NEW dev \in Reports, Receive(dev)
    PROVE  ListInv'
<1> DEFINE row == Stored(dev)
           n == Len(rows)
<1>1. rows \in Seq(Rows) /\ row \in Rows /\ rows' = Append(rows, row)
    BY DEF ListInv, ListKept, ListTypeOK, Receive, Rows
<1>2. n \in Nat /\ n < MaxDevices
    BY <1>1, LenProperties, SizeAssumption DEF ListInv, ListKept, ListTypeOK, Receive
<1>3. /\ rows' \in Seq(Rows) /\ Len(rows') = n + 1
      /\ \A i \in 1..n : rows'[i] = rows[i]
      /\ rows'[n + 1] = row
    BY <1>1, AppendProperties
<1> HIDE DEF row
<1>4. ASSUME NEW i \in 1..n, rows[i] = row, Len(row) < NameSize
      PROVE  FALSE
    <2>1. Text(i) = row
        BY <1>2, <1>4 DEF Text
    <2>2. row = dev
        BY <1>4, StoredFacts DEF row
    <2> QED
        BY <2>1, <2>2 DEF Receive
<1>5. ListIsASet'
    <2> SUFFICES ASSUME NEW i \in 1..(n + 1), NEW j \in 1..(n + 1),
                        rows'[i] = rows'[j], Len(rows'[i]) < NameSize
                 PROVE  i = j
        BY <1>3 DEF ListIsASet
    <2>1. CASE i \in 1..n /\ j \in 1..n
        BY <2>1, <1>3 DEF ListInv, ListKept, ListIsASet
    <2>2. CASE i = n + 1 \/ j = n + 1
        BY <2>2, <1>2, <1>3, <1>4
    <2> QED
        BY <2>1, <2>2, <1>2
<1>6. Places' /\ FocusInRange'
    <2>1. Places /\ FocusInRange
        BY TypeParts DEF ListInv, ListKept
    <2>2. UNCHANGED <<pc, focus, selected, last, button, menuFocus, screen, drawn>>
        BY DEF Receive, userVars
    <2> QED
        BY <1>2, <1>3, <2>1, <2>2, SizeAssumption DEF Places, FocusInRange
<1>7. Flags'
    BY TypeParts DEF ListInv, ListKept, Flags, Receive, userVars
<1>8. ListTypeOK'
    BY <1>6, <1>7 DEF ListTypeOK, Places, Flags, Rows
<1> QED
    BY <1>5, <1>6, <1>8 DEF ListInv, ListKept, DrawnAgrees, PressKnown, Receive, userVars

\* A turn of the loop looks at the buttons.
LEMMA LoopList ==
    ASSUME ListInv, Left \/ Right \/ Select \/ NoButton
    PROVE  ListInv'
<1>1. Len(rows) \in Nat /\ focus \in Nat /\ rows' = rows /\ Len(rows) <= MaxDevices
    BY LenProperties, SizeAssumption DEF ListInv, ListKept, ListTypeOK, Left, Right, Select, NoButton, Looks
<1>2. focus' \in 0..(MaxDevices - 1) /\ FocusInRange'
    BY <1>1, SizeAssumption DEF ListInv, ListKept, ListTypeOK, FocusInRange, Left, Right, Select, NoButton,
        Looks, Moves
<1>3. Places'
    BY <1>1, <1>2, TypeParts DEF ListInv, ListKept, Places, Left, Right, Select, NoButton, Looks, Moves, Buttons
<1>6. Flags'
    BY TypeParts DEF ListInv, ListKept, Flags, Left, Right, Select, NoButton, Looks, Moves
<1>4. DrawnAgrees'
    BY DEF ListInv, DrawnAgrees, Left, Right, Select, NoButton, Looks, Moves
<1>5. PressKnown'
    BY DEF ListInv, PressKnown, Left, Right, Select, NoButton, Looks, Moves
<1>7. ListTypeOK'
    BY <1>3, <1>6 DEF ListTypeOK, Places, Flags, Rows
<1> QED
    BY <1>1, <1>2, <1>4, <1>5, <1>7 DEF ListInv, ListKept, ListIsASet

\* Drawing, the menu and the user leave the list and the highlight alone.
LEMMA OtherList ==
    ASSUME ListInv,
           \/ Draw \/ EnterMenu \/ MenuLeft \/ MenuRight \/ MenuNoButton \/ MenuSelectHeld
           \/ MenuSelect \/ MenuExit \/ \E b \in Buttons : ChangeButton(b)
    PROVE  ListInv'
<1>1. rows' = rows /\ focus' = focus /\ selected' = selected
    BY DEF Draw, EnterMenu, MenuLeft, MenuRight, MenuNoButton, MenuSelectHeld, MenuSelect, MenuExit,
        ChangeButton, MenuMoves, InMenu, MenuReturns, loopVars
<1>2. menuFocus' \in 0..3
    <2>1. menuFocus \in 0..3
        BY DEF ListInv, ListKept, ListTypeOK
    <2>2. CASE Draw \/ EnterMenu
        BY <2>1, <2>2 DEF Draw, EnterMenu
    <2>6. CASE MenuExit \/ MenuSelect \/ \E b \in Buttons : ChangeButton(b)
        <3>1. menuFocus' = menuFocus
            BY <2>6 DEF MenuExit, MenuSelect, MenuReturns, ChangeButton
        <3> QED
            BY <2>1, <3>1
    <2>3. CASE MenuLeft
        BY <2>1, <2>3 DEF MenuLeft, MenuMoves
    <2>4. CASE MenuRight
        BY <2>1, <2>4 DEF MenuRight, MenuMoves
    <2>5. CASE MenuNoButton \/ MenuSelectHeld
        BY <2>1, <2>5 DEF MenuNoButton, MenuSelectHeld, MenuMoves
    <2> QED
        BY <2>2, <2>3, <2>4, <2>5, <2>6
<1>3. Places' /\ Flags'
    <2>1. Places /\ Flags
        BY TypeParts DEF ListInv, ListKept
    <2>2. CASE Draw
        BY <1>1, <1>2, <2>1, <2>2 DEF Draw, Places, Flags, userVars
    <2>3. CASE EnterMenu
        BY <1>1, <1>2, <2>1, <2>3 DEF EnterMenu, Places, Flags, loopVars, userVars
    <2>4. CASE MenuLeft \/ MenuRight \/ MenuNoButton \/ MenuSelectHeld
        BY <1>1, <1>2, <2>1, <2>4 DEF MenuLeft, MenuRight, MenuNoButton, MenuSelectHeld, MenuMoves,
            InMenu, Places, Flags, Buttons
    <2>5. CASE MenuSelect
        BY <1>1, <1>2, <2>1, <2>5 DEF MenuSelect, InMenu, MenuReturns, Places, Flags, Buttons
    <2>6. CASE MenuExit
        BY <1>1, <1>2, <2>1, <2>6 DEF MenuExit, InMenu, MenuReturns, Places, Flags, Buttons
    <2>7. CASE \E b \in Buttons : ChangeButton(b)
        BY <1>1, <1>2, <2>1, <2>7 DEF ChangeButton, Places, Flags, loopVars
    <2> QED
        BY <2>2, <2>3, <2>4, <2>5, <2>6, <2>7
<1>4. DrawnAgrees' /\ PressKnown'
    <2>1. CASE Draw
        BY <1>1, <2>1 DEF ListInv, DrawnAgrees, PressKnown, Draw, userVars
    <2>2. CASE EnterMenu
        BY <1>1, <2>2 DEF ListInv, DrawnAgrees, PressKnown, EnterMenu, loopVars, userVars
    <2>3. CASE MenuLeft \/ MenuRight \/ MenuNoButton \/ MenuSelectHeld
        BY <1>1, <2>3 DEF ListInv, DrawnAgrees, PressKnown, MenuLeft, MenuRight, MenuNoButton,
            MenuSelectHeld, MenuMoves, InMenu
    <2>4. CASE MenuSelect \/ MenuExit
        BY <1>1, <2>4 DEF ListInv, DrawnAgrees, PressKnown, MenuSelect, MenuExit, InMenu, MenuReturns
    <2>5. CASE \E b \in Buttons : ChangeButton(b)
        BY <1>1, <2>5 DEF ListInv, DrawnAgrees, PressKnown, ChangeButton, loopVars
    <2> QED
        BY <2>1, <2>2, <2>3, <2>4, <2>5
<1>5. ListTypeOK'
    BY <1>3 DEF ListTypeOK, Places, Flags, Rows
<1> QED
    BY <1>1, <1>4, <1>5 DEF ListInv, ListKept, ListIsASet, FocusInRange

\* Every step keeps the invariant.
LEMMA NextList == ListInv /\ [ListNext]_listVars => ListInv'
<1> SUFFICES ASSUME ListInv, [ListNext]_listVars PROVE ListInv'
    OBVIOUS
<1>1. CASE UNCHANGED listVars
    BY <1>1 DEF listVars, loopVars, userVars, ListInv, ListKept, ListTypeOK, FocusInRange, ListIsASet,
        DrawnAgrees, PressKnown
<1>2. CASE ListNext
    BY <1>2, ReceiveList, LoopList, OtherList DEF ListNext
<1> QED
    BY <1>1, <1>2

\* The invariant holds in every behaviour.
LEMMA ListInvariance == ListSpec => []ListInv
<1> QED
    BY InitList, NextList, PTL DEF ListSpec

-----------------------------------------------------------------------------
\* The devices are a set, names as long as a row excepted, there are never more
\* than fit, and the highlight is on one of them (ipods5l-devel.c, step 3).
THEOREM DevicesAreASet == ListSpec => []ListKept
<1>1. ListInv => ListKept
    BY DEF ListInv
<1> QED
    BY <1>1, ListInvariance, PTL

\* The device chosen is the one that was highlighted on the screen, though the
\* list grows and buttons are pressed in between.
THEOREM ChoosesWhatIsShown == ListSpec => []ChoosesHighlighted
<1>1. ListInv => ChoosesHighlighted
    BY DEF ListInv, DrawnAgrees, ChoosesHighlighted
<1> QED
    BY <1>1, ListInvariance, PTL

\* A LEFT or RIGHT that has moved a highlight moves none again, in the list or in the
\* menu, until the button changes.
THEOREM OnePressOneMove == ListSpec => PressMovesOnce
<1> DEFINE Kept == used /\ button \in {"left", "right"} => UNCHANGED <<focus, menuFocus>>
<1>1. ASSUME ListInv, ListNext, used, button \in {"left", "right"}
      PROVE  UNCHANGED <<focus, menuFocus>>
    <2>1. last = button
        BY <1>1 DEF ListInv, PressKnown
    <2> QED
        BY <1>1, <2>1 DEF ListNext, Receive, Left, Right, Select, NoButton, EnterMenu, Draw, MenuLeft,
            MenuRight, MenuNoButton, MenuSelectHeld, MenuSelect, MenuExit, ChangeButton, Looks,
            Moves, MenuMoves, InMenu, MenuReturns, loopVars, userVars
<1>2. ListInv /\ [ListNext]_listVars => [Kept]_listVars
    BY <1>1 DEF listVars
<1> QED
    BY <1>2, ListInvariance, PTL DEF ListSpec, PressMovesOnce

(***************************************************************************)
(* Lists of threads.  Holds(l, R): no thread is on l twice, and those on   *)
(* it are R.                                                               *)
(***************************************************************************)
Holds(l, R) == l \in Seq(Slots) /\ Once(l) /\ Range(l) = R

\* What Holds says of the places of a list.
LEMMA HeldPlaces ==
    ASSUME NEW l, NEW R, Holds(l, R)
    PROVE  /\ l \in Seq(Slots) /\ Len(l) \in Nat /\ DOMAIN l = 1..Len(l) /\ R \subseteq Slots
           /\ \A i \in 1..Len(l) : l[i] \in R
           /\ \A s \in R : \E i \in 1..Len(l) : l[i] = s
           /\ \A i, j \in 1..Len(l) : l[i] = l[j] => i = j
<1>1. l \in Seq(Slots) /\ Len(l) \in Nat /\ DOMAIN l = 1..Len(l)
    BY LenProperties DEF Holds
<1>2. \A i \in 1..Len(l) : l[i] \in Slots
    BY <1>1, ElementOfSeq
<1> QED
    BY <1>1, <1>2 DEF Holds, Range, Once

\* The same, to show it.
LEMMA FromPlaces ==
    ASSUME NEW l \in Seq(Slots), NEW R, NEW n \in Nat, Len(l) = n,
           \A i \in 1..n : l[i] \in R,
           \A s \in R : \E i \in 1..n : l[i] = s,
           \A i, j \in 1..n : l[i] = l[j] => i = j
    PROVE  Holds(l, R)
<1>1. DOMAIN l = 1..n
    BY LenProperties
<1> QED
    BY <1>1 DEF Holds, Range, Once

\* Nobody is on the empty list.
LEMMA EmptyHolds == Holds(<<>>, {})
BY EmptySeq DEF Holds, Range, Once

\* Whoever is on no place of a list is not on it; an empty list holds nobody.
LEMMA NobodyHeld ==
    ASSUME NEW l, NEW R, Holds(l, R)
    PROVE  R = {} <=> l = <<>>
<1>1. /\ l \in Seq(Slots) /\ Len(l) \in Nat
      /\ \A i \in 1..Len(l) : l[i] \in R
      /\ \A s \in R : \E i \in 1..Len(l) : l[i] = s
    BY HeldPlaces
<1>2. l = <<>> <=> Len(l) = 0
    BY <1>1, EmptySeq
<1>3. Len(l) = 0 => R = {}
    BY <1>1
<1>4. Len(l) # 0 => l[1] \in R
    BY <1>1
<1> QED
    BY <1>2, <1>3, <1>4

\* Two lists, one behind the other.
LEMMA JoinHolds ==
    ASSUME NEW l, NEW R, Holds(l, R), NEW m, NEW Q, Holds(m, Q), R \cap Q = {}
    PROVE  Holds(l \o m, R \cup Q)
<1>1. /\ l \in Seq(Slots) /\ Len(l) \in Nat
      /\ \A i \in 1..Len(l) : l[i] \in R
      /\ \A s \in R : \E i \in 1..Len(l) : l[i] = s
      /\ \A i, j \in 1..Len(l) : l[i] = l[j] => i = j
    BY HeldPlaces
<1>2. /\ m \in Seq(Slots) /\ Len(m) \in Nat
      /\ \A i \in 1..Len(m) : m[i] \in Q
      /\ \A s \in Q : \E i \in 1..Len(m) : m[i] = s
      /\ \A i, j \in 1..Len(m) : m[i] = m[j] => i = j
    BY HeldPlaces
<1> DEFINE r == l \o m
           n == Len(l) + Len(m)
<1>3. /\ r \in Seq(Slots) /\ Len(r) = n
      /\ \A i \in 1..n : r[i] = IF i <= Len(l) THEN l[i] ELSE m[i - Len(l)]
    BY <1>1, <1>2, ConcatProperties
<1> HIDE DEF r
<1>4. n \in Nat
    BY <1>1, <1>2
<1>5. /\ \A i \in 1..Len(l) : i \in 1..n /\ r[i] = l[i]
      /\ \A i \in 1..Len(m) : i + Len(l) \in 1..n /\ r[i + Len(l)] = m[i]
    <2>1. \A i \in 1..Len(l) : i \in 1..n /\ r[i] = l[i]
        BY <1>1, <1>2, <1>3
    <2>2. ASSUME NEW i \in 1..Len(m) PROVE i + Len(l) \in 1..n /\ r[i + Len(l)] = m[i]
        <3>1. i + Len(l) \in 1..n /\ ~(i + Len(l) <= Len(l)) /\ i + Len(l) - Len(l) = i
            BY <1>1, <1>2
        <3> QED
            BY <3>1, <1>3
    <2> QED
        BY <2>1, <2>2
<1>6. \A i \in 1..n : \/ i \in 1..Len(l) /\ r[i] = l[i]
                      \/ ~(i <= Len(l)) /\ i - Len(l) \in 1..Len(m) /\ r[i] = m[i - Len(l)]
    BY <1>1, <1>2, <1>3
<1>7. \A i \in 1..n : r[i] \in R \cup Q
    BY <1>1, <1>2, <1>6
<1>8. ASSUME NEW s \in R \cup Q PROVE \E i \in 1..n : r[i] = s
    <2>1. CASE s \in R
        <3>1. PICK i \in 1..Len(l) : l[i] = s
            BY <1>1, <2>1
        <3> QED
            BY <3>1, <1>5
    <2>2. CASE s \in Q
        <3>1. PICK i \in 1..Len(m) : m[i] = s
            BY <1>2, <2>2
        <3>2. i + Len(l) \in 1..n /\ r[i + Len(l)] = s
            BY <3>1, <1>5
        <3> QED
            BY <3>2
    <2> QED
        BY <2>1, <2>2
<1>9. ASSUME NEW i \in 1..n, NEW j \in 1..n, r[i] = r[j] PROVE i = j
    <2>1. CASE i <= Len(l) /\ j <= Len(l)
        BY <1>1, <1>6, <1>9, <2>1
    <2>2. CASE ~(i <= Len(l)) /\ ~(j <= Len(l))
        <3>1. i - Len(l) = j - Len(l)
            BY <1>2, <1>6, <1>9, <2>2
        <3> QED
            BY <3>1, <1>1
    <2>3. CASE i <= Len(l) /\ ~(j <= Len(l))
        <3>1. i \in 1..Len(l) /\ r[i] = l[i]
            BY <1>6, <2>3
        <3>2. j - Len(l) \in 1..Len(m) /\ r[j] = m[j - Len(l)]
            BY <1>1, <1>6, <2>3
        <3>3. r[i] \in R /\ r[j] \in Q
            BY <1>1, <1>2, <3>1, <3>2
        <3> QED
            BY <3>3, <1>9
    <2>4. CASE ~(i <= Len(l)) /\ j <= Len(l)
        <3>1. j \in 1..Len(l) /\ r[j] = l[j]
            BY <1>6, <2>4
        <3>2. i - Len(l) \in 1..Len(m) /\ r[i] = m[i - Len(l)]
            BY <1>1, <1>6, <2>4
        <3>3. r[j] \in R /\ r[i] \in Q
            BY <1>1, <1>2, <3>1, <3>2
        <3> QED
            BY <3>3, <1>9
    <2> QED
        BY <2>1, <2>2, <2>3, <2>4
<1> HIDE DEF n
<1>10. Holds(r, R \cup Q)
    BY <1>3, <1>4, <1>7, <1>8, <1>9, FromPlaces
<1> QED
    BY <1>10 DEF r

\* One more at the end of a list.
LEMMA AppendHolds ==
    ASSUME NEW l, NEW R, Holds(l, R), NEW s \in Slots, s \notin R
    PROVE  Holds(Append(l, s), R \cup {s}) /\ Holds(l \o <<s>>, R \cup {s}) /\ Range(<<s>>) = {s}
<1>1. <<s>> \in Seq(Slots) /\ Len(<<s>>) = 1 /\ <<s>>[1] = s
    OBVIOUS
<1>2. Holds(<<s>>, {s})
    <2> DEFINE m == <<s>>
    <2>1. m \in Seq(Slots) /\ Len(m) = 1 /\ m[1] = s
        BY <1>1
    <2> HIDE DEF m
    <2>2. /\ \A i \in 1..1 : m[i] \in {s}
          /\ \A t \in {s} : \E i \in 1..1 : m[i] = t
          /\ \A i, j \in 1..1 : m[i] = m[j] => i = j
        BY <2>1
    <2>3. Holds(m, {s})
        BY <2>1, <2>2, FromPlaces
    <2> QED
        BY <2>3 DEF m
<1>3. Holds(l \o <<s>>, R \cup {s})
    BY <1>2, JoinHolds
<1>4. Append(l, s) = l \o <<s>>
    BY HeldPlaces, AppendIsConcat
<1> QED
    BY <1>2, <1>3, <1>4 DEF Holds

\* One less, at a place of a list; what is behind moves up.
LEMMA RemoveHolds ==
    ASSUME NEW l, NEW R, Holds(l, R), NEW k \in 1..Len(l)
    PROVE  /\ Holds(RemoveAt(l, k), R \ {l[k]})
           /\ Len(RemoveAt(l, k)) = Len(l) - 1
           /\ \A i \in 1..(Len(l) - 1) : RemoveAt(l, k)[i] = IF i < k THEN l[i] ELSE l[i + 1]
<1>1. /\ l \in Seq(Slots) /\ Len(l) \in Nat /\ DOMAIN l = 1..Len(l)
      /\ \A i \in 1..Len(l) : l[i] \in R
      /\ \A s \in R : \E i \in 1..Len(l) : l[i] = s
      /\ \A i, j \in 1..Len(l) : l[i] = l[j] => i = j
    BY HeldPlaces
<1>2. \A i \in 1..Len(l) : l[i] \in Slots
    BY <1>1, ElementOfSeq
<1> DEFINE a == SubSeq(l, 1, k - 1)
           b == SubSeq(l, k + 1, Len(l))
           r == RemoveAt(l, k)
           n == Len(l) - 1
<1>3. a \in Seq(Slots) /\ Len(a) = k - 1 /\ \A i \in 1..(k - 1) : a[i] = l[i]
    BY <1>1, <1>2, SubSeqProperties
<1>4. b \in Seq(Slots) /\ Len(b) = Len(l) - k /\ \A i \in 1..(Len(l) - k) : b[i] = l[i + k]
    <2>1. k + 1 \in Int /\ Len(l) \in Int /\ \A i \in (k + 1)..Len(l) : l[i] \in Slots
        BY <1>1, <1>2
    <2>2. /\ b \in Seq(Slots)
          /\ Len(b) = IF k + 1 <= Len(l) THEN Len(l) - (k + 1) + 1 ELSE 0
          /\ \A i \in 1..(Len(l) - (k + 1) + 1) : b[i] = l[k + 1 + i - 1]
        BY <2>1, SubSeqProperties
    <2> HIDE DEF b
    <2>3. Len(b) = Len(l) - k
        <3>1. Len(l) \in Nat /\ k \in 1..Len(l)
            BY <1>1
        <3>2. (IF k + 1 <= Len(l) THEN Len(l) - (k + 1) + 1 ELSE 0) = Len(l) - k
            BY <3>1
        <3>3. Len(b) = IF k + 1 <= Len(l) THEN Len(l) - (k + 1) + 1 ELSE 0
            BY <2>2
        <3> QED
            BY <3>2, <3>3
    <2>4. ASSUME NEW i \in 1..(Len(l) - k) PROVE b[i] = l[i + k]
        <3>1. i \in 1..(Len(l) - (k + 1) + 1) /\ k + 1 + i - 1 = i + k
            BY <1>1
        <3> QED
            BY <3>1, <2>2
    <2> QED
        BY <2>2, <2>3, <2>4
<1>5. r = a \o b
    BY DEF RemoveAt
<1> HIDE DEF a, b, r
<1>6. /\ r \in Seq(Slots) /\ Len(r) = Len(a) + Len(b)
      /\ \A i \in 1..(Len(a) + Len(b)) : r[i] = IF i <= Len(a) THEN a[i] ELSE b[i - Len(a)]
    BY <1>3, <1>4, <1>5, ConcatProperties
<1>7. Len(r) = n /\ n \in Nat
    BY <1>1, <1>3, <1>4, <1>6
<1>8. ASSUME NEW i \in 1..n PROVE r[i] = IF i < k THEN l[i] ELSE l[i + 1]
    <2>0. i \in 1..(Len(a) + Len(b))
        BY <1>1, <1>3, <1>4
    <2>1. CASE i < k
        <3>1. i <= Len(a) /\ i \in 1..(k - 1)
            BY <2>1, <1>1, <1>3
        <3>2. r[i] = a[i]
            BY <3>1, <2>0, <1>6
        <3> QED
            BY <3>1, <3>2, <2>1, <1>3
    <2>2. CASE ~(i < k)
        <3>1. i - Len(a) \in 1..(Len(l) - k) /\ ~(i <= Len(a)) /\ i - Len(a) + k = i + 1
            BY <2>2, <1>1, <1>3
        <3>2. r[i] = b[i - Len(a)]
            BY <3>1, <2>0, <1>6
        <3> QED
            BY <3>1, <3>2, <2>2, <1>4
    <2> QED
        BY <2>1, <2>2
<1>9. \A i \in 1..n : r[i] \in R \ {l[k]}
    BY <1>1, <1>8
<1>10. ASSUME NEW s \in R \ {l[k]} PROVE \E i \in 1..n : r[i] = s
    <2>1. PICK i \in 1..Len(l) : l[i] = s
        BY <1>1, <1>10
    <2>2. CASE i < k
        BY <2>1, <2>2, <1>1, <1>8
    <2>3. CASE ~(i < k)
        <3>1. i - 1 \in 1..n /\ ~(i - 1 < k) /\ i - 1 + 1 = i
            BY <2>1, <2>3, <1>1, <1>10
        <3> QED
            BY <2>1, <3>1, <1>8
    <2> QED
        BY <2>2, <2>3
<1>11. ASSUME NEW i \in 1..n, NEW j \in 1..n, r[i] = r[j] PROVE i = j
    BY <1>1, <1>8, <1>11
<1>12. Holds(r, R \ {l[k]})
    <2> HIDE DEF n
    <2> QED
        BY <1>6, <1>7, <1>9, <1>10, <1>11, FromPlaces
<1> QED
    BY <1>7, <1>8, <1>12 DEF r

\* The first of a list leaves it.
LEMMA TailHolds ==
    ASSUME NEW l, NEW R, Holds(l, R), l # <<>>
    PROVE  Head(l) \in R /\ Holds(Tail(l), R \ {Head(l)})
<1>1. /\ l \in Seq(Slots) /\ Len(l) \in Nat
      /\ \A i \in 1..Len(l) : l[i] \in R
      /\ \A s \in R : \E i \in 1..Len(l) : l[i] = s
      /\ \A i, j \in 1..Len(l) : l[i] = l[j] => i = j
    BY HeldPlaces
<1>2. Len(l) > 0
    BY <1>1, EmptySeq
<1>3. /\ Tail(l) \in Seq(Slots) /\ Len(Tail(l)) = Len(l) - 1
      /\ \A i \in 1..Len(Tail(l)) : Tail(l)[i] = l[i + 1]
    BY <1>1, HeadTailProperties
<1>4. Head(l) = l[1]
    BY <1>1
<1> DEFINE m == Tail(l)
           n == Len(l) - 1
<1>5. m \in Seq(Slots) /\ Len(m) = n /\ n \in Nat /\ \A i \in 1..n : m[i] = l[i + 1]
    BY <1>1, <1>2, <1>3
<1> HIDE DEF m
<1>6. \A i \in 1..n : m[i] \in R \ {l[1]}
    BY <1>1, <1>5
<1>7. ASSUME NEW s \in R \ {l[1]} PROVE \E i \in 1..n : m[i] = s
    <2>1. PICK i \in 1..Len(l) : l[i] = s
        BY <1>1, <1>7
    <2>2. i - 1 \in 1..n /\ i - 1 + 1 = i
        BY <2>1, <1>1, <1>7
    <2> QED
        BY <2>1, <2>2, <1>5
<1>8. ASSUME NEW i \in 1..n, NEW j \in 1..n, m[i] = m[j] PROVE i = j
    BY <1>1, <1>5, <1>8
<1>9. Holds(m, R \ {l[1]})
    <2> HIDE DEF n
    <2> QED
        BY <1>5, <1>6, <1>7, <1>8, FromPlaces
<1> QED
    BY <1>1, <1>2, <1>4, <1>9 DEF m

\* ll_remove takes a thread off a list, if it is on it.
LEMMA WithoutHolds ==
    ASSUME NEW l, NEW R, Holds(l, R), NEW s \in Slots
    PROVE  Holds(Without(l, s), R \ {s})
<1>1. /\ DOMAIN l = 1..Len(l)
      /\ \A t \in R : \E i \in 1..Len(l) : l[i] = t
    BY HeldPlaces
<1>2. Range(l) = R
    BY DEF Holds
<1>3. CASE s \in R
    <2> DEFINE k == CHOOSE i \in DOMAIN l : l[i] = s
    <2>1. k \in 1..Len(l) /\ l[k] = s
        BY <1>1, <1>3
    <2>2. Without(l, s) = RemoveAt(l, k)
        BY <1>2, <1>3 DEF Without
    <2> HIDE DEF k
    <2>3. Holds(RemoveAt(l, k), R \ {l[k]})
        BY <2>1, RemoveHolds
    <2> QED
        BY <2>1, <2>2, <2>3
<1>4. CASE s \notin R
    <2>1. Without(l, s) = l /\ R \ {s} = R
        BY <1>2, <1>4 DEF Without
    <2> QED
        BY <2>1
<1> QED
    BY <1>3, <1>4

\* Seen from behind one of its places a list holds the same.
LEMMA AfterHolds ==
    ASSUME NEW l, NEW R, Holds(l, R), NEW k \in 1..Len(l)
    PROVE  Holds(After(l, k), R) /\ After(l, k) # <<>>
<1>1. /\ l \in Seq(Slots) /\ Len(l) \in Nat
      /\ \A i \in 1..Len(l) : l[i] \in R
      /\ \A s \in R : \E i \in 1..Len(l) : l[i] = s
      /\ \A i, j \in 1..Len(l) : l[i] = l[j] => i = j
    BY HeldPlaces
<1>2. \A i \in 1..Len(l) : l[i] \in Slots
    BY <1>1, ElementOfSeq
<1> DEFINE a == SubSeq(l, k + 1, Len(l))
           b == SubSeq(l, 1, k)
           r == After(l, k)
           n == Len(l)
           From(i) == IF i <= n - k THEN i + k ELSE i - (n - k)
<1>3. a \in Seq(Slots) /\ Len(a) = n - k /\ \A i \in 1..(n - k) : a[i] = l[i + k]
    BY <1>1, <1>2, SubSeqProperties
<1>4. b \in Seq(Slots) /\ Len(b) = k /\ \A i \in 1..k : b[i] = l[i]
    BY <1>1, <1>2, SubSeqProperties
<1>5. r = a \o b
    BY DEF After
<1>6. /\ r \in Seq(Slots) /\ Len(r) = Len(a) + Len(b)
      /\ \A i \in 1..(Len(a) + Len(b)) : r[i] = IF i <= Len(a) THEN a[i] ELSE b[i - Len(a)]
    BY <1>3, <1>4, <1>5, ConcatProperties
<1> HIDE DEF a, b, r
<1>7. Len(r) = n /\ n \in Nat
    BY <1>1, <1>3, <1>4, <1>6
<1>8. ASSUME NEW i \in 1..n PROVE From(i) \in 1..n /\ r[i] = l[From(i)]
    <2>0. i \in 1..(Len(a) + Len(b))
        BY <1>1, <1>3, <1>4
    <2>1. CASE i <= n - k
        <3>1. i <= Len(a) /\ i \in 1..(n - k) /\ From(i) = i + k /\ i + k \in 1..n
            BY <2>1, <1>1, <1>3
        <3>2. r[i] = a[i]
            BY <3>1, <2>0, <1>6
        <3> QED
            BY <3>1, <3>2, <1>3
    <2>2. CASE ~(i <= n - k)
        <3>1. i - Len(a) \in 1..k /\ ~(i <= Len(a)) /\ i - Len(a) = From(i)
            BY <2>2, <1>1, <1>3
        <3>2. r[i] = b[i - Len(a)]
            BY <3>1, <2>0, <1>6
        <3> QED
            BY <3>1, <3>2, <1>1, <1>4
    <2> QED
        BY <2>1, <2>2
<1>9. \A i, j \in 1..n : From(i) = From(j) => i = j
    BY <1>1
<1>10. ASSUME NEW j \in 1..n PROVE \E i \in 1..n : From(i) = j
    <2>1. CASE j > k
        <3>1. j - k \in 1..n /\ From(j - k) = j
            BY <1>1, <2>1
        <3> QED
            BY <3>1
    <2>2. CASE ~(j > k)
        <3>1. j + (n - k) \in 1..n /\ From(j + (n - k)) = j
            BY <1>1, <2>2
        <3> QED
            BY <3>1
    <2> QED
        BY <2>1, <2>2
<1> HIDE DEF From
<1>11. \A i \in 1..n : r[i] \in R
    BY <1>1, <1>8
<1>12. ASSUME NEW s \in R PROVE \E i \in 1..n : r[i] = s
    <2>1. PICK j \in 1..n : l[j] = s
        BY <1>1
    <2>2. PICK i \in 1..n : From(i) = j
        BY <1>10
    <2> QED
        BY <2>1, <2>2, <1>8
<1>13. ASSUME NEW i \in 1..n, NEW j \in 1..n, r[i] = r[j] PROVE i = j
    <2>1. From(i) \in 1..n /\ From(j) \in 1..n /\ l[From(i)] = l[From(j)]
        BY <1>8, <1>13
    <2>2. From(i) = From(j)
        BY <2>1, <1>1
    <2> QED
        BY <2>2, <1>9
<1>14. r # <<>>
    BY <1>1, <1>6, <1>7, EmptySeq
<1>15. Holds(r, R)
    <2>1. r \in Seq(Slots) /\ Len(r) = n /\ n \in Nat
        BY <1>6, <1>7
    <2>2. \A i, j \in 1..n : r[i] = r[j] => i = j
        BY <1>13
    <2>3. \A s \in R : \E i \in 1..n : r[i] = s
        BY <1>12
    <2> HIDE DEF n
    <2> QED
        BY <2>1, <2>2, <2>3, <1>11, FromPlaces
<1> QED
    BY <1>14, <1>15 DEF r

(***************************************************************************)
(* Ticks that wrap.  Away(x, c): how far tick x is ahead of tick c, less   *)
(* than nothing when it is behind.                                         *)
(***************************************************************************)
Away(x, c) == LET d == (x - c) % Wrap IN IF d < Wrap \div 2 THEN d ELSE d - Wrap

\* The sizes, and half a turn of the clock.
LEMMA Turns ==
    /\ Wrap \in Nat \ {0} /\ Period \in Nat \ {0} /\ MaxDelay \in Nat /\ MaxLate \in Nat
    /\ Wrap \div 2 \in Nat /\ Wrap >= 2 * (Wrap \div 2)
    /\ Period + MaxLate < Wrap \div 2 /\ MaxDelay + 1 + MaxLate < Wrap \div 2
BY HalfRangeAssumption

\* The remainder of a difference, and of a sum.
LEMMA Remainders ==
    ASSUME NEW x \in Ticks, NEW c \in Ticks
    PROVE  /\ (x - c) % Wrap = IF c <= x THEN x - c ELSE x - c + Wrap
           /\ (x + c) % Wrap = IF x + c < Wrap THEN x + c ELSE x + c - Wrap
           /\ (x + c) % Wrap \in Ticks
BY Turns DEF Ticks

\* What Away is.
LEMMA AwayFacts ==
    ASSUME NEW x \in Ticks, NEW c \in Ticks
    PROVE  /\ Away(x, c) \in Int
           /\ Away(x, c) < Wrap \div 2 /\ Away(x, c) >= (Wrap \div 2) - Wrap
           /\ x - c \in {Away(x, c), Away(x, c) + Wrap, Away(x, c) - Wrap}
<1>1. (x - c) % Wrap = IF c <= x THEN x - c ELSE x - c + Wrap
    BY Remainders
<1> QED
    BY <1>1, Turns DEF Ticks, Away

\* Nothing else is.
LEMMA AwayIs ==
    ASSUME NEW x \in Ticks, NEW c \in Ticks, NEW d \in Int,
           d < Wrap \div 2, d >= (Wrap \div 2) - Wrap, x - c \in {d, d + Wrap, d - Wrap}
    PROVE  Away(x, c) = d
<1>1. (x - c) % Wrap = IF c <= x THEN x - c ELSE x - c + Wrap
    BY Remainders
<1> QED
    BY <1>1, Turns DEF Ticks, Away

\* The ticks the switcher keeps are all of these.
Near(x, c) ==
    /\ x \in Ticks
    /\ -MaxLate <= Away(x, c) /\ (Away(x, c) <= Period \/ Away(x, c) <= MaxDelay + 1)

\* Of two such ticks TIME_BEFORE tells which comes first.
LEMMA BeforeIs ==
    ASSUME NEW x, NEW y, NEW c \in Ticks, Near(x, c), Near(y, c)
    PROVE  Before(x, y) <=> Away(x, c) < Away(y, c)
<1> DEFINE h == Wrap \div 2
           a == Away(x, c)
           b == Away(y, c)
<1>1. x \in Ticks /\ y \in Ticks
    BY DEF Near
<1>2. /\ a \in Int /\ b \in Int
      /\ x - c \in {a, a + Wrap, a - Wrap} /\ y - c \in {b, b + Wrap, b - Wrap}
    BY <1>1, AwayFacts
<1>3. /\ -MaxLate <= a /\ (a <= Period \/ a <= MaxDelay + 1)
      /\ -MaxLate <= b /\ (b <= Period \/ b <= MaxDelay + 1)
    BY DEF Near
<1>4. (x - y) % Wrap = IF y <= x THEN x - y ELSE x - y + Wrap
    BY <1>1, Remainders
<1> HIDE DEF a, b, h
<1>5. a - b < h /\ b - a < h
    BY <1>2, <1>3, Turns DEF h
<1>6. h \in Nat /\ Wrap \in Nat /\ Wrap >= 2 * h
    BY Turns DEF h
<1>7. (x - y) % Wrap >= h <=> a < b
    BY <1>1, <1>2, <1>4, <1>5, <1>6 DEF Ticks
<1> QED
    BY <1>7 DEF Before, a, b, h

\* Now is near, and k ticks after a tick is k ticks further.
LEMMA NowIsNear ==
    ASSUME NEW c \in Ticks
    PROVE  Near(c, c) /\ Away(c, c) = 0
<1>1. Away(c, c) = 0
    BY AwayIs, Turns DEF Ticks
<1> QED
    BY <1>1, Turns DEF Near

\* k ticks after a tick is k ticks further away.
LEMMA LaterIs ==
    ASSUME NEW x \in Ticks, NEW c \in Ticks, NEW k \in Nat,
           k < Wrap \div 2, Away(x, c) + k < Wrap \div 2
    PROVE  (x + k) % Wrap \in Ticks /\ Away((x + k) % Wrap, c) = Away(x, c) + k
<1> DEFINE y == (x + k) % Wrap
           a == Away(x, c)
<1>1. k \in Ticks
    BY Turns DEF Ticks
<1>2. y = (IF x + k < Wrap THEN x + k ELSE x + k - Wrap) /\ y \in Ticks
    BY <1>1, Remainders
<1>3. a \in Int /\ a >= (Wrap \div 2) - Wrap /\ x - c \in {a, a + Wrap, a - Wrap}
    BY AwayFacts
<1> HIDE DEF y, a
<1>4. y - c \in {a + k, a + k + Wrap, a + k - Wrap}
    BY <1>2, <1>3, Turns DEF Ticks, a
<1>5. a + k \in Int /\ a + k < Wrap \div 2 /\ a + k >= (Wrap \div 2) - Wrap
    BY <1>3, Turns DEF a
<1> DEFINE e == a + k
<1> HIDE DEF e
<1>6. Away(y, c) = e
    <2>1. /\ e \in Int /\ e < Wrap \div 2 /\ e >= (Wrap \div 2) - Wrap
          /\ y - c \in {e, e + Wrap, e - Wrap}
        <3>1. e \in Int /\ e < Wrap \div 2 /\ e >= (Wrap \div 2) - Wrap
            BY <1>5 DEF e
        <3>2. y - c \in {e, e + Wrap, e - Wrap}
            BY <1>3, <1>4, Turns DEF e
        <3> QED
            BY <3>1, <3>2
    <2> QED
        BY <1>2, <2>1, AwayIs
<1> QED
    BY <1>2, <1>6 DEF y, a, e

\* With a tick of the clock everything is one tick nearer.
LEMMA TickOn ==
    ASSUME NEW x, NEW c \in Ticks, Near(x, c)
    PROVE  (c + 1) % Wrap \in Ticks /\ Away(x, (c + 1) % Wrap) = Away(x, c) - 1
<1> DEFINE y == (c + 1) % Wrap
           a == Away(x, c)
<1>1. 1 \in Ticks /\ x \in Ticks
    BY Turns DEF Ticks, Near
<1>2. y = (IF c + 1 < Wrap THEN c + 1 ELSE c + 1 - Wrap) /\ y \in Ticks
    BY <1>1, Remainders
<1>3. a \in Int /\ a < Wrap \div 2 /\ -MaxLate <= a /\ x - c \in {a, a + Wrap, a - Wrap}
    BY <1>1, AwayFacts DEF Near
<1> HIDE DEF y, a
<1>4. a - 1 \in Int /\ a - 1 < Wrap \div 2 /\ a - 1 >= (Wrap \div 2) - Wrap
    BY <1>3, Turns
<1>5. x - y \in {a - 1, a - 1 + Wrap, a - 1 - Wrap}
    BY <1>1, <1>2, <1>3, <1>4, Turns DEF Ticks
<1>6. Away(x, y) = a - 1
    BY <1>1, <1>2, <1>4, <1>5, AwayIs
<1> QED
    BY <1>2, <1>6 DEF y, a

(***************************************************************************)
(* The invariant, first the lists: what each holds, and what the states of *)
(* a thread have to do with where it waits.                                *)
(***************************************************************************)
Runners == {s \in Slots : state[s] = "running"}
Waiters(q) == {s \in Slots : wqp[s] = q}

FieldsOK ==
    /\ state \in [Slots -> States]
    /\ wqp \in [Slots -> Queues \cup {None}]
    /\ avail = {s \in Slots : state[s] = "killed"}
    /\ queue \in [Queues -> Seq(Slots)]
    /\ running \in Slots \cup {None}
    /\ cpu \in {"thread", "switch", "walk", "idle", "awake"}
RunHeld == Holds(rtr, Runners)
TmoHeld ==
    /\ Holds(tmo, Range(tmo))
    /\ \A s \in Slots : /\ state[s] \in Timed => s \in Range(tmo)
                        /\ state[s] = "killed" => s \notin Range(tmo)
QueuesHeld == \A q \in Queues : Holds(queue[q], Waiters(q))
StatesKnown ==
    /\ cpu = "thread" => running \in Slots /\ state[running] = "running"
    /\ \A s \in Slots :
        /\ wqp[s] \in Slots => state[s] = "blocked"
        /\ state[s] \in {"killed", "frozen", "sleeping"} => wqp[s] = None
ListsInv ==
    FieldsOK /\ RunHeld /\ TmoHeld /\ QueuesHeld /\ StatesKnown /\ NobodyWaitsForDead

\* None is no queue.
LEMMA NotQueues ==
    /\ Queues = Slots \cup {Object} /\ Object \notin Slots
    /\ None \notin Queues /\ None \notin Slots
BY NamesAssumption DEF Queues

\* A thread that stops running leaves the run list.
LEMMA LeavesRun ==
    ASSUME FieldsOK, RunHeld, NEW t \in Slots, NEW st \in States, st # "running",
           rtr' = Without(rtr, t), state' = [state EXCEPT ![t] = st]
    PROVE  RunHeld'
<1>1. Holds(Without(rtr, t), Runners \ {t})
    BY WithoutHolds DEF RunHeld
<1>2. Runners' = Runners \ {t}
    BY DEF FieldsOK, Runners
<1> QED
    BY <1>1, <1>2 DEF RunHeld

\* One that is woken joins it.
LEMMA JoinsRun ==
    ASSUME FieldsOK, RunHeld, NEW s \in Slots, state[s] # "running", Schedule(<<s>>)
    PROVE  RunHeld' /\ state' = [state EXCEPT ![s] = "running"]
<1>1. s \notin Runners
    BY DEF Runners
<1>2. Holds(rtr \o <<s>>, Runners \cup {s}) /\ Range(<<s>>) = {s}
    BY <1>1, AppendHolds DEF RunHeld
<1>3. state' = [state EXCEPT ![s] = "running"]
    BY <1>2 DEF Schedule, FieldsOK
<1>4. Runners' = Runners \cup {s}
    BY <1>3 DEF FieldsOK, Runners
<1>5. rtr' = rtr \o <<s>>
    BY DEF Schedule
<1> QED
    BY <1>2, <1>3, <1>4, <1>5 DEF RunHeld

\* A thread that waits joins the queue, and only that.
LEMMA JoinsQueue ==
    ASSUME FieldsOK, QueuesHeld, NEW t \in Slots, NEW q \in Queues, wqp[t] = None, Register(t, q)
    PROVE  /\ QueuesHeld'
           /\ queue' \in [Queues -> Seq(Slots)] /\ \A p \in Queues \ {q} : queue'[p] = queue[p]
           /\ wqp' \in [Slots -> Queues \cup {None}] /\ wqp'[t] = q
           /\ \A u \in Slots \ {t} : wqp'[u] = wqp[u]
<1>1. wqp' \in [Slots -> Queues \cup {None}] /\ wqp'[t] = q /\ \A u \in Slots \ {t} : wqp'[u] = wqp[u]
    BY DEF FieldsOK, Register
<1>2. queue'[q] = Append(queue[q], t) /\ \A p \in Queues \ {q} : queue'[p] = queue[p]
    BY DEF FieldsOK, Register
<1>3. ASSUME NEW p \in Queues PROVE Holds(queue'[p], Waiters(p)')
    <2>1. Holds(queue[p], Waiters(p))
        BY DEF QueuesHeld
    <2>2. CASE p = q
        <3>1. t \notin Waiters(p)
            BY <2>2, NotQueues DEF Waiters
        <3>2. Holds(Append(queue[p], t), Waiters(p) \cup {t})
            BY <2>1, <3>1, AppendHolds
        <3>3. Waiters(p)' = Waiters(p) \cup {t}
            BY <1>1, <2>2 DEF Waiters
        <3> QED
            BY <1>2, <2>2, <3>2, <3>3
    <2>3. CASE p # q
        <3>1. Waiters(p)' = Waiters(p)
            BY <1>1, <2>3, NotQueues DEF Waiters
        <3> QED
            BY <1>2, <2>1, <2>3, <3>1
    <2> QED
        BY <2>2, <2>3
<1>4. queue' \in [Queues -> Seq(Slots)]
    <2>1. queue[q] \in Seq(Slots)
        BY DEF FieldsOK
    <2>2. Append(queue[q], t) \in Seq(Slots)
        BY <2>1, AppendProperties
    <2> QED
        BY <2>2 DEF FieldsOK, Register
<1> QED
    BY <1>1, <1>2, <1>3, <1>4 DEF QueuesHeld

\* One with a timeout is on the timeout list, once, whether it was or not.
LEMMA JoinsTmo ==
    ASSUME Holds(tmo, Range(tmo)), NEW t \in Slots, tmo' = Registered(t)
    PROVE  Holds(tmo', Range(tmo)') /\ Range(tmo)' = Range(tmo) \cup {t}
<1>1. CASE t \in Range(tmo)
    BY <1>1 DEF Registered
<1>2. CASE t \notin Range(tmo)
    <2>1. Holds(Append(tmo, t), Range(tmo) \cup {t})
        BY <1>2, AppendHolds
    <2>2. tmo' = Append(tmo, t)
        BY <1>2 DEF Registered
    <2>3. Range(Append(tmo, t)) = Range(tmo) \cup {t}
        BY <2>1 DEF Holds
    <2> QED
        BY <2>1, <2>2, <2>3
<1> QED
    BY <1>1, <1>2

\* Nothing changes in the queues.
LEMMA QueuesStay ==
    ASSUME QueuesHeld, UNCHANGED <<queue, wqp>>
    PROVE  QueuesHeld'
BY DEF QueuesHeld, Waiters

\* What a thread that gives the processor up in a wait of any kind does.
Waits(t, st, q) ==
    /\ rtr' = Without(rtr, t) /\ state' = [state EXCEPT ![t] = st] /\ cpu' = "switch"
    /\ UNCHANGED <<avail, running>>
    /\ \/ st = "sleeping" /\ UNCHANGED <<queue, wqp>>
       \/ st = "blocked_w_tmo" /\ q = Object /\ Register(t, q)
       \/ st = "blocked" /\ (q \in Slots => state[q] # "killed") /\ Register(t, q)
    /\ \/ st \in Timed /\ tmo' = Registered(t)
       \/ st = "blocked" /\ tmo' = tmo

\* The lists are kept by it.
LEMMA WaitsKeep ==
    ASSUME ListsInv, NEW t \in Slots, Calls(t), NEW st \in {"sleeping", "blocked", "blocked_w_tmo"},
           NEW q \in Queues, Waits(t, st, q)
    PROVE  ListsInv'
<1>1. /\ FieldsOK /\ state[t] = "running" /\ wqp[t] = None /\ st \in States /\ st # "running"
      /\ st # "killed"
      /\ state' = [state EXCEPT ![t] = st]
    BY DEF ListsInv, StatesKnown, Calls, Waits, States
<1>2. /\ state' \in [Slots -> States] /\ state'[t] = st
      /\ \A u \in Slots \ {t} : state'[u] = state[u]
    BY <1>1 DEF FieldsOK
<1>3. RunHeld'
    BY <1>1, LeavesRun DEF ListsInv, Waits
<1>4. /\ QueuesHeld'
      /\ queue' \in [Queues -> Seq(Slots)] /\ \A p \in Queues \ {q} : queue'[p] = queue[p]
      /\ wqp' \in [Slots -> Queues \cup {None}] /\ \A u \in Slots \ {t} : wqp'[u] = wqp[u]
      /\ wqp'[t] = IF st = "sleeping" THEN None ELSE q
    <2>1. CASE UNCHANGED <<queue, wqp>> /\ st = "sleeping"
        BY <1>1, <2>1, QueuesStay DEF ListsInv, FieldsOK
    <2>2. CASE Register(t, q) /\ st # "sleeping"
        BY <1>1, <2>2, JoinsQueue DEF ListsInv
    <2> QED
        BY <2>1, <2>2 DEF Waits
<1>5. TmoHeld'
    <2>1. CASE st \in Timed /\ tmo' = Registered(t)
        <3>1. Holds(tmo', Range(tmo)') /\ Range(tmo)' = Range(tmo) \cup {t}
            BY <2>1, JoinsTmo DEF ListsInv, TmoHeld
        <3> QED
            BY <1>1, <1>2, <2>1, <3>1 DEF ListsInv, TmoHeld, Timed
    <2>2. CASE st = "blocked" /\ tmo' = tmo
        BY <1>2, <2>2 DEF ListsInv, TmoHeld, Timed
    <2> QED
        BY <2>1, <2>2 DEF Waits
<1>6. NobodyWaitsForDead'
    <2> SUFFICES ASSUME NEW s \in Slots, state'[s] = "killed" PROVE queue'[s] = <<>>
        BY DEF NobodyWaitsForDead
    <2>1. s # t /\ state[s] = "killed" /\ queue[s] = <<>> /\ s \in Queues
        BY <1>1, <1>2, NotQueues DEF ListsInv, NobodyWaitsForDead
    <2>2. s # q \/ UNCHANGED queue
        BY <2>1, NotQueues DEF Waits
    <2> QED
        BY <1>4, <2>1, <2>2
<1>7. FieldsOK' /\ StatesKnown'
    <2>1. avail' = {s \in Slots : state'[s] = "killed"}
        BY <1>1, <1>2 DEF FieldsOK, Waits
    <2>2. FieldsOK'
        BY <1>2, <1>4, <2>1 DEF ListsInv, FieldsOK, Waits
    <2>3. cpu' # "thread"
        BY DEF Waits
    <2>4. wqp'[t] \in Slots => st = "blocked"
        BY <1>4, NotQueues DEF Waits
    <2>5. st \in {"killed", "frozen", "sleeping"} => wqp'[t] = None
        BY <1>4, NotQueues
    <2> QED
        BY <1>2, <1>4, <2>2, <2>3, <2>4, <2>5 DEF ListsInv, StatesKnown
<1> QED
    BY <1>3, <1>4, <1>5, <1>6, <1>7 DEF ListsInv

\* The calls that are such waits.
LEMMA CallsWait ==
    ASSUME NEW t \in Slots
    PROVE  /\ \A ticks \in 0..MaxDelay : Sleep(t, ticks) => Calls(t) /\ Waits(t, "sleeping", Object)
           /\ \A ticks \in 1..MaxDelay :
                BlockWithTimeout(t, ticks) => Calls(t) /\ Waits(t, "blocked_w_tmo", Object)
           /\ Block(t) => Calls(t) /\ Waits(t, "blocked", Object)
           /\ \A s \in Slots : ThreadWait(t, s) => Calls(t) /\ Waits(t, "blocked", s)
<1>1. \A ticks \in 0..MaxDelay : Sleep(t, ticks) => Calls(t) /\ Waits(t, "sleeping", Object)
    BY DEF Sleep, PrepareBlock, Waits, Timed
<1>2. \A ticks \in 1..MaxDelay :
        BlockWithTimeout(t, ticks) => Calls(t) /\ Waits(t, "blocked_w_tmo", Object)
    BY DEF BlockWithTimeout, PrepareBlock, Waits, Timed
<1>3. Block(t) => Calls(t) /\ Waits(t, "blocked", Object)
    BY NotQueues DEF Block, PrepareBlockForever, Waits
<1>4. \A s \in Slots : ThreadWait(t, s) => Calls(t) /\ Waits(t, "blocked", s)
    BY DEF ThreadWait, PrepareBlockForever, Waits
<1> QED
    BY <1>1, <1>2, <1>3, <1>4

\* A thread that is neither running nor in a queue may be woken by anybody.
Wakes(s) == Schedule(<<s>>) /\ UNCHANGED <<queue, running>>

\* The states after that, and that the rest of the lists is kept.
LEMMA WakesKeep ==
    ASSUME ListsInv, NEW s \in Slots, state[s] # "running", Wakes(s),
           wqp' = [wqp EXCEPT ![s] = None], wqp[s] = None,
           avail' = avail \ {s}, state[s] # "killed" => avail' = avail,
           cpu' = cpu,
           Holds(tmo', Range(tmo)'),
           \A u \in Slots \ {s} : u \in Range(tmo)' <=> u \in Range(tmo)
    PROVE  ListsInv'
<1>1. RunHeld' /\ state' = [state EXCEPT ![s] = "running"]
    BY JoinsRun DEF ListsInv, Wakes
<1>2. /\ state' \in [Slots -> States] /\ state'[s] = "running"
      /\ \A u \in Slots \ {s} : state'[u] = state[u]
    BY <1>1 DEF ListsInv, FieldsOK, States
<1>3. UNCHANGED <<queue, wqp>>
    BY DEF ListsInv, FieldsOK, Wakes
<1>4. QueuesHeld'
    BY <1>3, QueuesStay DEF ListsInv
<1>5. TmoHeld'
    BY <1>2 DEF ListsInv, TmoHeld, Timed
<1>6. NobodyWaitsForDead'
    BY <1>2, <1>3 DEF ListsInv, NobodyWaitsForDead
<1>7. FieldsOK'
    <2>1. avail' = {u \in Slots : state'[u] = "killed"}
        BY <1>2 DEF ListsInv, FieldsOK
    <2> QED
        BY <1>2, <1>3, <2>1 DEF ListsInv, FieldsOK, Wakes
<1>8. StatesKnown'
    BY <1>2, <1>3, NotQueues DEF ListsInv, StatesKnown, Wakes
<1> QED
    BY <1>1, <1>4, <1>5, <1>6, <1>7, <1>8 DEF ListsInv

\* create_thread and thread_thaw
LEMMA CreateKeeps ==
    ASSUME ListsInv, NEW t \in Slots, NEW frozen \in BOOLEAN, Create(t, frozen)
    PROVE  ListsInv'
<1>1. PICK s \in avail :
        /\ avail' = avail \ {s} /\ queue' = [queue EXCEPT ![s] = <<>>] /\ wqp' = [wqp EXCEPT ![s] = None]
        /\ IF frozen THEN state' = [state EXCEPT ![s] = "frozen"] /\ UNCHANGED <<rtr, tmo_tick>>
           ELSE Schedule(<<s>>)
    BY DEF Create
<1>2. s \in Slots /\ state[s] = "killed" /\ wqp[s] = None /\ queue[s] = <<>> /\ s \in Queues
    BY NotQueues DEF ListsInv, FieldsOK, StatesKnown, NobodyWaitsForDead
<1>3. UNCHANGED <<tmo, running, cpu>>
    BY DEF Create
<1>4. UNCHANGED <<queue, wqp>>
    BY <1>1, <1>2 DEF ListsInv, FieldsOK
<1>5. CASE ~frozen
    <2>1. Wakes(s) /\ state[s] # "running" /\ Holds(tmo', Range(tmo)')
        BY <1>1, <1>2, <1>3, <1>4, <1>5 DEF Wakes, ListsInv, TmoHeld
    <2> QED
        BY <1>1, <1>2, <1>3, <2>1, WakesKeep
<1>6. CASE frozen
    <2>1. /\ state' = [state EXCEPT ![s] = "frozen"] /\ rtr' = rtr
          /\ state' \in [Slots -> States] /\ state'[s] = "frozen"
          /\ \A u \in Slots \ {s} : state'[u] = state[u]
        BY <1>1, <1>2, <1>6 DEF ListsInv, FieldsOK, States
    <2>2. RunHeld'
        <3>1. Runners' = Runners
            BY <1>2, <2>1 DEF Runners
        <3> QED
            BY <2>1, <3>1 DEF ListsInv, RunHeld
    <2>3. QueuesHeld'
        BY <1>4, QueuesStay DEF ListsInv
    <2>4. TmoHeld'
        BY <1>2, <1>3, <2>1 DEF ListsInv, TmoHeld, Timed
    <2>5. NobodyWaitsForDead'
        BY <1>4, <2>1 DEF ListsInv, NobodyWaitsForDead
    <2>6. FieldsOK'
        <3>1. avail' = {u \in Slots : state'[u] = "killed"}
            BY <1>1, <1>2, <2>1 DEF ListsInv, FieldsOK
        <3> QED
            BY <1>3, <1>4, <2>1, <3>1 DEF ListsInv, FieldsOK
    <2>7. StatesKnown'
        BY <1>2, <1>3, <1>4, <2>1, NotQueues DEF ListsInv, StatesKnown
    <2> QED
        BY <2>2, <2>3, <2>4, <2>5, <2>6, <2>7 DEF ListsInv
<1> QED
    BY <1>5, <1>6

\* thread_thaw
LEMMA ThawKeeps ==
    ASSUME ListsInv, NEW t \in Slots, NEW s \in Slots, ThreadThaw(t, s)
    PROVE  ListsInv'
<1>1. state[s] = "frozen" /\ wqp[s] = None /\ s \notin avail
    BY DEF ThreadThaw, ListsInv, FieldsOK, StatesKnown
<1>2. UNCHANGED <<wqp, avail, queue, tmo, running, cpu>> /\ Schedule(<<s>>)
    BY DEF ThreadThaw
<1>3. Wakes(s) /\ wqp' = [wqp EXCEPT ![s] = None] /\ avail' = avail \ {s} /\ Holds(tmo', Range(tmo)')
    BY <1>1, <1>2 DEF ListsInv, FieldsOK, TmoHeld, Wakes
<1> QED
    BY <1>1, <1>2, <1>3, WakesKeep

\* An entry of the timeout list that is due: its thread runs again; one that is
\* garbage only leaves the list.
LEMMA WalkRemoveKeeps ==
    ASSUME ListsInv, WalkRemove, walk.at \in 1..Len(tmo)
    PROVE  ListsInv'
<1>1. Holds(tmo, Range(tmo)) /\ tmo[walk.at] \in Slots
    <2>1. Holds(tmo, Range(tmo))
        BY DEF ListsInv, TmoHeld
    <2> QED
        BY <2>1, HeldPlaces
<1>2. PICK s \in Slots : s = tmo[walk.at]
    BY <1>1
<1>3. /\ tmo' = RemoveAt(tmo, walk.at) /\ UNCHANGED <<wqp, avail, queue, running, cpu>>
      /\ IF state[s] \in Timed THEN Schedule(<<s>>) ELSE UNCHANGED <<state, tmo_tick, rtr>>
    BY <1>2 DEF WalkRemove, Looked
<1>4. Holds(tmo', Range(tmo)') /\ Range(tmo)' = Range(tmo) \ {s}
    <2>1. Holds(RemoveAt(tmo, walk.at), Range(tmo) \ {s})
        BY <1>1, <1>2, RemoveHolds
    <2>2. Range(RemoveAt(tmo, walk.at)) = Range(tmo) \ {s}
        BY <2>1 DEF Holds
    <2> QED
        BY <1>3, <2>1, <2>2
<1>5. CASE state[s] \in Timed
    <2>1. state[s] \notin {"running", "killed"}
        BY <1>5 DEF Timed
    <2>2. RunHeld' /\ state' = [state EXCEPT ![s] = "running"]
        BY <1>3, <1>5, <2>1, JoinsRun DEF ListsInv
    <2>3. /\ state' \in [Slots -> States] /\ state'[s] = "running"
          /\ \A u \in Slots \ {s} : state'[u] = state[u]
        BY <2>2 DEF ListsInv, FieldsOK, States
    <2>4. QueuesHeld'
        BY <1>3, QueuesStay DEF ListsInv
    <2>5. TmoHeld'
        BY <1>4, <2>3 DEF ListsInv, TmoHeld, Timed
    <2>6. NobodyWaitsForDead'
        BY <1>3, <2>3 DEF ListsInv, NobodyWaitsForDead
    <2>7. FieldsOK'
        <3>1. avail' = {u \in Slots : state'[u] = "killed"}
            BY <1>3, <2>1, <2>3 DEF ListsInv, FieldsOK
        <3> QED
            BY <1>3, <2>3, <3>1 DEF ListsInv, FieldsOK
    <2>8. wqp[s] \notin Slots
        BY <1>5 DEF ListsInv, StatesKnown, Timed
    <2>9. StatesKnown'
        BY <1>3, <2>3, <2>8 DEF ListsInv, StatesKnown
    <2> QED
        BY <2>2, <2>4, <2>5, <2>6, <2>7, <2>9 DEF ListsInv
<1>6. CASE state[s] \notin Timed
    <2>1. UNCHANGED <<state, rtr>>
        BY <1>3, <1>6
    <2>2. RunHeld' /\ NobodyWaitsForDead' /\ FieldsOK' /\ StatesKnown'
        BY <1>3, <2>1 DEF ListsInv, RunHeld, Runners, NobodyWaitsForDead, FieldsOK, StatesKnown
    <2>3. QueuesHeld'
        BY <1>3, QueuesStay DEF ListsInv
    <2>4. TmoHeld'
        BY <1>4, <1>6, <2>1 DEF ListsInv, TmoHeld
    <2> QED
        BY <2>2, <2>3, <2>4 DEF ListsInv
<1> QED
    BY <1>5, <1>6

\* A waiter that is woken leaves the queue at its head.
LEMMA WakeFirstKeeps ==
    ASSUME ListsInv, WakeFirst
    PROVE  ListsInv' /\ Head(queue[Object]) \in Slots /\ wqp[Head(queue[Object])] = Object
<1>1. Holds(queue[Object], Waiters(Object)) /\ queue[Object] # <<>> /\ Object \in Queues
    BY NotQueues DEF ListsInv, QueuesHeld, WakeFirst
<1>2. PICK s : s = Head(queue[Object])
    OBVIOUS
<1>3. s \in Waiters(Object) /\ Holds(Tail(queue[Object]), Waiters(Object) \ {s})
    BY <1>1, <1>2, TailHolds
<1>4. /\ s \in Slots /\ wqp[s] = Object
      /\ state[s] \notin {"killed", "frozen", "sleeping"}
    BY <1>3, NotQueues DEF Waiters, ListsInv, StatesKnown
<1>5. /\ queue' = [queue EXCEPT ![Object] = Tail(queue[Object])]
      /\ wqp' = [wqp EXCEPT ![s] = None]
      /\ IF state[s] = "running" THEN UNCHANGED <<state, tmo_tick, rtr>> ELSE Schedule(<<s>>)
      /\ cpu' = (IF cpu = "idle" THEN "awake" ELSE cpu) /\ UNCHANGED <<avail, tmo, running>>
    BY <1>2 DEF WakeFirst, Interrupted
<1>6. /\ wqp' \in [Slots -> Queues \cup {None}] /\ wqp'[s] = None
      /\ \A u \in Slots \ {s} : wqp'[u] = wqp[u]
      /\ queue'[Object] = Tail(queue[Object]) /\ \A q \in Slots : queue'[q] = queue[q]
    BY <1>4, <1>5, NotQueues DEF ListsInv, FieldsOK
<1>7. queue' \in [Queues -> Seq(Slots)]
    <2>1. Tail(queue[Object]) \in Seq(Slots)
        BY <1>3 DEF Holds
    <2> QED
        BY <1>5, <2>1 DEF ListsInv, FieldsOK
<1>8. QueuesHeld'
    <2> SUFFICES ASSUME NEW q \in Queues PROVE Holds(queue'[q], Waiters(q)')
        BY DEF QueuesHeld
    <2>1. CASE q = Object
        <3>1. Waiters(q)' = Waiters(Object) \ {s}
            BY <1>6, <2>1, NotQueues DEF Waiters
        <3> QED
            BY <1>3, <1>6, <2>1, <3>1
    <2>2. CASE q # Object
        <3>1. Waiters(q)' = Waiters(q) /\ queue'[q] = queue[q]
            BY <1>4, <1>6, <2>2, NotQueues DEF Waiters
        <3> QED
            BY <3>1 DEF ListsInv, QueuesHeld
    <2> QED
        BY <2>1, <2>2
<1>9. RunHeld' /\ state' = [state EXCEPT ![s] = "running"]
    <2>1. CASE state[s] = "running"
        <3>1. UNCHANGED <<state, rtr>>
            BY <1>5, <2>1
        <3> QED
            BY <2>1, <3>1 DEF ListsInv, FieldsOK, RunHeld, Runners
    <2>2. CASE state[s] # "running"
        BY <1>4, <1>5, <2>2, JoinsRun DEF ListsInv
    <2> QED
        BY <2>1, <2>2
<1>10. /\ state' \in [Slots -> States] /\ state'[s] = "running"
       /\ \A u \in Slots \ {s} : state'[u] = state[u]
    BY <1>4, <1>9 DEF ListsInv, FieldsOK, States
<1>11. TmoHeld' /\ NobodyWaitsForDead'
    BY <1>5, <1>6, <1>10 DEF ListsInv, TmoHeld, Timed, NobodyWaitsForDead
<1>12. FieldsOK'
    <2>1. avail' = {u \in Slots : state'[u] = "killed"}
        BY <1>4, <1>5, <1>10 DEF ListsInv, FieldsOK
    <2>2. cpu' \in {"thread", "switch", "walk", "idle", "awake"}
        BY <1>5 DEF ListsInv, FieldsOK
    <2> QED
        BY <1>5, <1>6, <1>7, <1>10, <2>1, <2>2 DEF ListsInv, FieldsOK
<1>13. StatesKnown'
    BY <1>5, <1>6, <1>10, NotQueues DEF ListsInv, StatesKnown
<1> QED
    BY <1>2, <1>4, <1>8, <1>9, <1>11, <1>12, <1>13 DEF ListsInv

\* A thread whose wait is over leaves the queue from where it is.
LEMMA TryRemoveKeeps ==
    ASSUME ListsInv, NEW t \in Slots, TryRemove(t)
    PROVE  ListsInv'
<1>1. PICK q : q = wqp[t]
    OBVIOUS
<1>2. q \in Queues /\ t \in Waiters(q) /\ UNCHANGED <<state, rtr, tmo, avail, running, cpu>>
    BY <1>1 DEF ListsInv, FieldsOK, TryRemove, Waiters
<1>3. queue' = [queue EXCEPT ![q] = Without(queue[q], t)] /\ wqp' = [wqp EXCEPT ![t] = None]
    BY <1>1 DEF TryRemove
<1>4. /\ wqp' \in [Slots -> Queues \cup {None}] /\ wqp'[t] = None
      /\ \A u \in Slots \ {t} : wqp'[u] = wqp[u]
      /\ queue'[q] = Without(queue[q], t) /\ \A p \in Queues \ {q} : queue'[p] = queue[p]
    BY <1>2, <1>3 DEF ListsInv, FieldsOK
<1>5. Holds(Without(queue[q], t), Waiters(q) \ {t})
    BY <1>2, WithoutHolds DEF ListsInv, QueuesHeld
<1>6. queue' \in [Queues -> Seq(Slots)]
    <2>1. Without(queue[q], t) \in Seq(Slots)
        BY <1>5 DEF Holds
    <2> QED
        BY <1>3, <2>1 DEF ListsInv, FieldsOK
<1>7. QueuesHeld'
    <2> SUFFICES ASSUME NEW p \in Queues PROVE Holds(queue'[p], Waiters(p)')
        BY DEF QueuesHeld
    <2>1. CASE p = q
        <3>1. Waiters(p)' = Waiters(q) \ {t}
            BY <1>4, <2>1, NotQueues DEF Waiters
        <3> QED
            BY <1>4, <1>5, <2>1, <3>1
    <2>2. CASE p # q
        <3>1. Waiters(p)' = Waiters(p) /\ queue'[p] = queue[p]
            BY <1>1, <1>4, <2>2, NotQueues DEF Waiters
        <3> QED
            BY <3>1 DEF ListsInv, QueuesHeld
    <2> QED
        BY <2>1, <2>2
<1>8. NobodyWaitsForDead'
    <2> SUFFICES ASSUME NEW s \in Slots, state[s] = "killed" PROVE queue'[s] = <<>>
        BY <1>2 DEF NobodyWaitsForDead
    <2>1. queue[s] = <<>> /\ s \in Queues
        BY NotQueues DEF ListsInv, NobodyWaitsForDead
    <2>2. Waiters(s) = {}
        BY <2>1, NobodyHeld DEF ListsInv, QueuesHeld
    <2>3. s # q
        BY <1>2, <2>2
    <2> QED
        BY <1>4, <2>1, <2>3
<1>9. RunHeld' /\ TmoHeld' /\ FieldsOK' /\ StatesKnown'
    <2>1. RunHeld' /\ TmoHeld'
        BY <1>2 DEF ListsInv, RunHeld, Runners, TmoHeld
    <2>2. FieldsOK'
        BY <1>2, <1>4, <1>6 DEF ListsInv, FieldsOK
    <2>3. StatesKnown'
        BY <1>2, <1>4, NotQueues DEF ListsInv, StatesKnown
    <2> QED
        BY <2>1, <2>2, <2>3
<1> QED
    BY <1>7, <1>8, <1>9 DEF ListsInv

\* A thread that exits leaves everything, and its waiters run again.
LEMMA ExitKeeps ==
    ASSUME ListsInv, NEW t \in Slots, ThreadExit(t)
    PROVE  ListsInv' /\ \A s \in Waiters(t) : state[s] = "blocked" /\ wqp'[s] = None
<1>1. state[t] = "running" /\ wqp[t] = None /\ t \in Queues
    BY NotQueues DEF ListsInv, StatesKnown, ThreadExit, Calls
<1>2. Holds(queue[t], Waiters(t)) /\ Range(queue[t]) = Waiters(t)
    BY <1>1 DEF ListsInv, QueuesHeld, Holds
<1>3. /\ tmo' = Without(tmo, t) /\ rtr' = Without(rtr, t) \o queue[t]
      /\ state' = [s \in Slots |-> IF s = t THEN "killed"
                                   ELSE IF s \in Waiters(t) THEN "running" ELSE state[s]]
      /\ wqp' = [s \in Slots |-> IF s \in Waiters(t) THEN None ELSE wqp[s]]
      /\ queue' = [queue EXCEPT ![t] = <<>>] /\ avail' = avail \cup {t}
      /\ running' = None /\ cpu' = "switch"
    BY <1>2 DEF ThreadExit
<1>4. /\ Waiters(t) \subseteq Slots /\ t \notin Waiters(t)
      /\ \A s \in Waiters(t) : state[s] = "blocked" /\ wqp[s] = t
    BY <1>1, NotQueues DEF Waiters, ListsInv, StatesKnown
<1>5. /\ state' \in [Slots -> States] /\ state'[t] = "killed"
      /\ \A s \in Waiters(t) : state'[s] = "running"
      /\ \A s \in Slots \ (Waiters(t) \cup {t}) : state'[s] = state[s]
    BY <1>3, <1>4 DEF ListsInv, FieldsOK, States
<1>6. /\ wqp' \in [Slots -> Queues \cup {None}] /\ wqp'[t] = None
      /\ \A s \in Waiters(t) : wqp'[s] = None
      /\ \A s \in Slots \ Waiters(t) : wqp'[s] = wqp[s]
    BY <1>1, <1>3, <1>4 DEF ListsInv, FieldsOK
<1>7. /\ queue' \in [Queues -> Seq(Slots)] /\ queue'[t] = <<>>
      /\ \A q \in Queues \ {t} : queue'[q] = queue[q]
    BY <1>1, <1>3, EmptySeq DEF ListsInv, FieldsOK
<1>8. RunHeld'
    <2>1. Holds(Without(rtr, t), Runners \ {t})
        BY WithoutHolds DEF ListsInv, RunHeld
    <2>2. (Runners \ {t}) \cap Waiters(t) = {}
        BY <1>4 DEF Runners
    <2>3. Holds(Without(rtr, t) \o queue[t], (Runners \ {t}) \cup Waiters(t))
        BY <1>2, <2>1, <2>2, JoinHolds
    <2>4. Runners' = (Runners \ {t}) \cup Waiters(t)
        BY <1>4, <1>5 DEF Runners
    <2> QED
        BY <1>3, <2>3, <2>4 DEF RunHeld
<1>9. TmoHeld'
    <2>1. Holds(Without(tmo, t), Range(tmo) \ {t})
        BY WithoutHolds DEF ListsInv, TmoHeld
    <2>2. Holds(tmo', Range(tmo)') /\ Range(tmo)' = Range(tmo) \ {t}
        BY <1>3, <2>1 DEF Holds
    <2> QED
        BY <1>4, <1>5, <2>2 DEF ListsInv, TmoHeld, Timed
<1>10. QueuesHeld'
    <2> SUFFICES ASSUME NEW q \in Queues PROVE Holds(queue'[q], Waiters(q)')
        BY DEF QueuesHeld
    <2>1. CASE q = t
        <3>1. Waiters(q)' = {}
            BY <1>4, <1>6, <2>1, NotQueues DEF Waiters
        <3> QED
            BY <1>7, <2>1, <3>1, EmptyHolds
    <2>2. CASE q # t
        <3>1. Waiters(q)' = Waiters(q) /\ queue'[q] = queue[q]
            BY <1>4, <1>6, <1>7, <2>2, NotQueues DEF Waiters
        <3> QED
            BY <3>1 DEF ListsInv, QueuesHeld
    <2> QED
        BY <2>1, <2>2
<1>11. NobodyWaitsForDead'
    <2> SUFFICES ASSUME NEW s \in Slots, state'[s] = "killed" PROVE queue'[s] = <<>>
        BY DEF NobodyWaitsForDead
    <2>1. s = t \/ (state[s] = "killed" /\ s \in Queues \ {t})
        BY <1>4, <1>5, NotQueues
    <2> QED
        BY <1>7, <2>1 DEF ListsInv, NobodyWaitsForDead
<1>12. FieldsOK'
    <2>1. avail' = {s \in Slots : state'[s] = "killed"}
        BY <1>3, <1>4, <1>5 DEF ListsInv, FieldsOK
    <2> QED
        BY <1>3, <1>5, <1>6, <1>7, <2>1 DEF FieldsOK
<1>13. StatesKnown'
    <2>1. cpu' # "thread"
        BY <1>3
    <2>2. ASSUME NEW s \in Slots
          PROVE  /\ wqp'[s] \in Slots => state'[s] = "blocked"
                 /\ state'[s] \in {"killed", "frozen", "sleeping"} => wqp'[s] = None
        <3>1. CASE s = t \/ s \in Waiters(t)
            BY <1>5, <1>6, <3>1, NotQueues
        <3>2. CASE s \notin Waiters(t) \cup {t}
            BY <1>5, <1>6, <3>2 DEF ListsInv, StatesKnown
        <3> QED
            BY <3>1, <3>2
    <2> QED
        BY <2>1, <2>2 DEF StatesKnown
<1> QED
    BY <1>4, <1>6, <1>8, <1>9, <1>10, <1>11, <1>12, <1>13 DEF ListsInv

\* switch_thread takes a thread from the run list, or finds nobody.
LEMMA ElectKeeps ==
    ASSUME ListsInv, Elect \/ Idle, UNCHANGED <<state, wqp, avail, queue, tmo>>
    PROVE  ListsInv'
<1>1. Holds(rtr, Runners)
    BY DEF ListsInv, RunHeld
<1>2. Runners' = Runners /\ Runners \subseteq Slots
    BY DEF Runners
<1>3. CASE Elect
    <2>1. Holds(rtr', Runners) /\ rtr' # <<>>
        <3>1. CASE rtr' = rtr
            BY <1>1, <1>3, <3>1 DEF Elect
        <3>2. CASE rtr' # rtr
            <4>1. PICK i \in DOMAIN rtr : rtr' = After(rtr, i)
                BY <1>3, <3>2 DEF Elect
            <4>2. i \in 1..Len(rtr)
                BY <1>1, <4>1, HeldPlaces
            <4> QED
                BY <1>1, <4>1, <4>2, AfterHolds
        <3> QED
            BY <3>1, <3>2
    <2>2. Head(rtr') \in Runners
        BY <2>1, TailHolds
    <2>3. running' \in Runners /\ cpu' = "thread"
        BY <1>3, <2>2 DEF Elect
    <2>4. RunHeld' /\ running' \in Slots /\ state'[running'] = "running"
        BY <1>2, <2>1, <2>3 DEF RunHeld, Runners
    <2>5. QueuesHeld'
        BY QueuesStay DEF ListsInv
    <2> QED
        BY <2>3, <2>4, <2>5 DEF ListsInv, FieldsOK, TmoHeld, StatesKnown, NobodyWaitsForDead
<1>4. CASE Idle
    <2>1. UNCHANGED rtr /\ running' = None /\ cpu' = "idle"
        BY <1>4 DEF Idle
    <2>2. QueuesHeld' /\ RunHeld'
        BY <1>2, <2>1, QueuesStay DEF ListsInv, RunHeld
    <2> QED
        BY <2>1, <2>2 DEF ListsInv, FieldsOK, TmoHeld, StatesKnown, NobodyWaitsForDead
<1> QED
    BY <1>3, <1>4

\* Steps that only move the processor, the clock or the walk.
LEMMA OthersKeep ==
    ASSUME ListsInv, UNCHANGED <<state, wqp, avail, queue, rtr, tmo, running>>,
           cpu' \in {"thread", "switch", "walk", "idle", "awake"}, cpu' = "thread" => cpu = "thread"
    PROVE  ListsInv'
<1>1. QueuesHeld' /\ RunHeld'
    BY QueuesStay DEF ListsInv, RunHeld, Runners
<1> QED
    BY <1>1 DEF ListsInv, FieldsOK, TmoHeld, StatesKnown, NobodyWaitsForDead

(***************************************************************************)
(* The invariant, then the times.  Seen from now the next check is within  *)
(* a period, and late by no more than a thread is; a timeout comes neither *)
(* before the check nor later than the longest delay.  A walk looks from a *)
(* tick between the check and now, and what it would set the check to is   *)
(* behind that tick and not behind any timeout it has passed.              *)
(***************************************************************************)
TimesTyped ==
    /\ tmo_tick \in [Slots -> Ticks] /\ next_tmo_check \in Ticks /\ current_tick \in Ticks
    /\ walk \in [tick : Ticks, check : Ticks, at : Nat]
    /\ cpu = "walk" => walk.at >= 1
NextKnown == Near(next_tmo_check, current_tick) /\ Away(next_tmo_check, current_tick) <= Period
DuesKnown ==
    \A s \in Slots : state[s] \in Timed =>
        /\ Away(next_tmo_check, current_tick) <= Away(tmo_tick[s], current_tick)
        /\ Away(tmo_tick[s], current_tick) <= MaxDelay + 1
WalkPlaced ==
    cpu = "walk" =>
        /\ Away(next_tmo_check, current_tick) <= Away(walk.tick, current_tick)
        /\ Away(walk.tick, current_tick) <= 0
        /\ Away(walk.tick, current_tick) < Away(walk.check, current_tick)
        /\ Away(walk.check, current_tick) <= Away(walk.tick, current_tick) + Period
WalkCovers ==
    cpu = "walk" =>
        \A i \in DOMAIN tmo : i < walk.at /\ state[tmo[i]] \in Timed =>
            Away(walk.check, current_tick) <= Away(tmo_tick[tmo[i]], current_tick)
TimesInv == TimesTyped /\ NextKnown /\ DuesKnown /\ WalkPlaced /\ WalkCovers

\* All of these ticks are near, so that they can be compared.
LEMMA NearFacts ==
    ASSUME TimesInv
    PROVE  /\ Away(next_tmo_check, current_tick) \in Int
           /\ -MaxLate <= Away(next_tmo_check, current_tick)
           /\ \A s \in Slots : /\ Away(tmo_tick[s], current_tick) \in Int
                               /\ state[s] \in Timed => Near(tmo_tick[s], current_tick)
           /\ Away(walk.tick, current_tick) \in Int /\ Away(walk.check, current_tick) \in Int
           /\ cpu = "walk" => Near(walk.tick, current_tick) /\ Near(walk.check, current_tick)
<1>1. /\ next_tmo_check \in Ticks /\ current_tick \in Ticks /\ walk.tick \in Ticks /\ walk.check \in Ticks
      /\ \A s \in Slots : tmo_tick[s] \in Ticks
    BY DEF TimesInv, TimesTyped
<1>2. /\ Away(next_tmo_check, current_tick) \in Int
      /\ Away(walk.tick, current_tick) \in Int /\ Away(walk.check, current_tick) \in Int
      /\ \A s \in Slots : Away(tmo_tick[s], current_tick) \in Int
    BY <1>1, AwayFacts
<1>3. -MaxLate <= Away(next_tmo_check, current_tick)
    BY DEF TimesInv, NextKnown, Near
<1>4. ASSUME NEW s \in Slots, state[s] \in Timed PROVE Near(tmo_tick[s], current_tick)
    BY <1>1, <1>2, <1>3, <1>4, Turns DEF TimesInv, DuesKnown, Near
<1>5. ASSUME cpu = "walk" PROVE Near(walk.tick, current_tick) /\ Near(walk.check, current_tick)
    BY <1>1, <1>2, <1>3, <1>5, Turns DEF TimesInv, WalkPlaced, Near
<1> QED
    BY <1>2, <1>3, <1>4, <1>5

\* A step without a new timeout, a tick or a step of the walk.
LEMMA TimesStay ==
    ASSUME TimesInv, UNCHANGED <<current_tick, next_tmo_check, walk>>,
           tmo_tick' \in [Slots -> Ticks], ListsInv,
           \A s \in Slots : state'[s] \in Timed => state[s] \in Timed /\ tmo_tick'[s] = tmo_tick[s],
           cpu' = "walk" => cpu = "walk" /\ tmo' = tmo
    PROVE  TimesInv'
<1>1. TimesTyped' /\ NextKnown' /\ DuesKnown' /\ WalkPlaced'
    BY DEF TimesInv, TimesTyped, NextKnown, DuesKnown, WalkPlaced
<1>2. \A i \in DOMAIN tmo : tmo[i] \in Slots
    <2>1. Holds(tmo, Range(tmo))
        BY DEF ListsInv, TmoHeld
    <2> QED
        BY <2>1, HeldPlaces
<1>3. WalkCovers'
    BY <1>2 DEF TimesInv, WalkCovers
<1> QED
    BY <1>1, <1>3 DEF TimesInv

\* A wait with a timeout moves the check to its end, if that comes first.
LEMMA DelayKeeps ==
    ASSUME TimesInv, ListsInv, NEW t \in Slots, NEW st \in Timed, NEW k \in 0..(MaxDelay + 1),
           PrepareBlock(t, st, k), UNCHANGED <<current_tick, walk>>
    PROVE  TimesInv'
<1> DEFINE due == (current_tick + k) % Wrap
<1>1. current_tick \in Ticks /\ next_tmo_check \in Ticks /\ Near(next_tmo_check, current_tick)
    BY DEF TimesInv, TimesTyped, NextKnown
<1>2. k \in Nat /\ k <= MaxDelay + 1 /\ k < Wrap \div 2
    BY Turns
<1>3. due \in Ticks /\ Away(due, current_tick) = k
    <2>1. Away(current_tick, current_tick) = 0
        BY <1>1, NowIsNear
    <2>2. Away(current_tick, current_tick) + k < Wrap \div 2
        BY <1>2, <2>1
    <2>3. due \in Ticks /\ Away(due, current_tick) = Away(current_tick, current_tick) + k
        BY <1>1, <1>2, <2>2, LaterIs
    <2> QED
        BY <1>2, <2>1, <2>3
<1>4. /\ tmo_tick' = [tmo_tick EXCEPT ![t] = due] /\ state' = [state EXCEPT ![t] = st]
      /\ next_tmo_check' = (IF Before(due, next_tmo_check) THEN due ELSE next_tmo_check)
      /\ cpu' = "switch" /\ current_tick' = current_tick /\ walk' = walk
    BY DEF PrepareBlock
<1> HIDE DEF due
<1>5. Near(due, current_tick)
    BY <1>2, <1>3, Turns DEF Near
<1>6. Before(due, next_tmo_check) <=> k < Away(next_tmo_check, current_tick)
    BY <1>1, <1>3, <1>5, BeforeIs
<1>7. /\ Near(next_tmo_check', current_tick) /\ next_tmo_check' \in Ticks
      /\ Away(next_tmo_check', current_tick) \in Int
      /\ Away(next_tmo_check', current_tick) <= Away(next_tmo_check, current_tick)
      /\ Away(next_tmo_check', current_tick) <= k
    <2>1. Away(next_tmo_check, current_tick) \in Int
        BY NearFacts
    <2>2. CASE Before(due, next_tmo_check)
        BY <1>2, <1>3, <1>4, <1>5, <1>6, <2>1, <2>2
    <2>3. CASE ~Before(due, next_tmo_check)
        BY <1>1, <1>2, <1>4, <1>6, <2>1, <2>3
    <2> QED
        BY <2>2, <2>3
<1>8. TimesTyped' /\ WalkPlaced' /\ WalkCovers'
    BY <1>3, <1>4, <1>7 DEF TimesInv, TimesTyped, WalkPlaced, WalkCovers
<1>9. NextKnown'
    <2>1. Away(next_tmo_check, current_tick) \in Int /\ Away(next_tmo_check, current_tick) <= Period
        BY NearFacts DEF TimesInv, NextKnown
    <2>2. Away(next_tmo_check', current_tick) <= Period
        BY <1>7, <2>1, Turns
    <2> QED
        BY <1>4, <1>7, <2>2 DEF NextKnown
<1>10. DuesKnown'
    <2> SUFFICES ASSUME NEW s \in Slots, state'[s] \in Timed
                 PROVE  /\ Away(next_tmo_check', current_tick) <= Away(tmo_tick'[s], current_tick)
                        /\ Away(tmo_tick'[s], current_tick) <= MaxDelay + 1
        BY <1>4 DEF DuesKnown
    <2>1. CASE s = t
        <3>1. tmo_tick'[s] = due
            BY <1>4, <2>1 DEF TimesInv, TimesTyped
        <3> QED
            BY <1>2, <1>3, <1>7, <3>1
    <2>2. CASE s # t
        <3>1. tmo_tick'[s] = tmo_tick[s] /\ state[s] \in Timed
            BY <1>4, <2>2 DEF TimesInv, TimesTyped, ListsInv, FieldsOK
        <3>2. /\ Away(next_tmo_check, current_tick) <= Away(tmo_tick[s], current_tick)
              /\ Away(tmo_tick[s], current_tick) <= MaxDelay + 1
            BY <3>1 DEF TimesInv, DuesKnown
        <3>3. Away(next_tmo_check, current_tick) \in Int /\ Away(tmo_tick[s], current_tick) \in Int
            BY NearFacts
        <3>4. Away(next_tmo_check', current_tick) <= Away(tmo_tick[s], current_tick)
            BY <1>7, <3>2, <3>3
        <3> QED
            BY <3>1, <3>2, <3>4
    <2> QED
        BY <2>1, <2>2
<1> QED
    BY <1>8, <1>9, <1>10 DEF TimesInv

\* The clock moves on while a walk is not too late.
LEMMA ClockKeeps ==
    ASSUME TimesInv, ListsInv, Tick
    PROVE  TimesInv'
<1> DEFINE now == (current_tick + 1) % Wrap
           n == Away(next_tmo_check, current_tick)
<1>1. current_tick \in Ticks /\ next_tmo_check \in Ticks /\ Near(next_tmo_check, current_tick) /\ n <= Period
    BY DEF TimesInv, TimesTyped, NextKnown
<1>2. n \in Int /\ -MaxLate <= n
    BY NearFacts
<1>3. -MaxLate < n
    <2> DEFINE late == (next_tmo_check + MaxLate) % Wrap
    <2>1. MaxLate \in Nat /\ MaxLate < Wrap \div 2 /\ n + MaxLate < Wrap \div 2
        BY <1>1, <1>2, Turns
    <2>2. late \in Ticks /\ Away(late, current_tick) = n + MaxLate
        BY <1>1, <2>1, LaterIs
    <2>3. Before(current_tick, late)
        BY DEF Tick
    <2> HIDE DEF late
    <2>4. CASE n + MaxLate <= Period
        <3>1. Near(late, current_tick)
            BY <1>2, <2>1, <2>2, <2>4 DEF Near
        <3>2. Away(current_tick, current_tick) < Away(late, current_tick)
            BY <1>1, <2>3, <3>1, NowIsNear, BeforeIs
        <3> QED
            BY <1>1, <1>2, <2>1, <2>2, <3>2, NowIsNear
    <2>5. CASE ~(n + MaxLate <= Period)
        BY <1>2, <2>1, <2>5, Turns
    <2> QED
        BY <2>4, <2>5
<1>4. /\ current_tick' = now /\ cpu' = (IF cpu = "idle" THEN "awake" ELSE cpu)
      /\ UNCHANGED <<slotVars, tmo, next_tmo_check, walk>>
    BY DEF Tick, Interrupted
<1>5. now \in Ticks /\ \A x : Near(x, current_tick) => Away(x, now) = Away(x, current_tick) - 1
    BY <1>1, TickOn
<1> HIDE DEF now, n
<1>6. /\ Near(next_tmo_check, current_tick) /\ Away(next_tmo_check, now) = n - 1
      /\ \A s \in Slots : state[s] \in Timed =>
            Away(tmo_tick[s], now) = Away(tmo_tick[s], current_tick) - 1
      /\ cpu = "walk" => /\ Away(walk.tick, now) = Away(walk.tick, current_tick) - 1
                         /\ Away(walk.check, now) = Away(walk.check, current_tick) - 1
    BY <1>1, <1>5, NearFacts DEF n
<1>7. cpu' = "walk" <=> cpu = "walk"
    BY <1>4
<1>8. TimesTyped'
    BY <1>4, <1>5, <1>7 DEF TimesInv, TimesTyped, slotVars
<1>9. NextKnown'
    <2>1. -MaxLate <= n - 1 /\ n - 1 <= Period
        BY <1>1, <1>2, <1>3, Turns DEF n
    <2>2. Near(next_tmo_check, now) /\ Away(next_tmo_check, now) <= Period
        BY <1>1, <1>6, <2>1 DEF Near
    <2> QED
        BY <1>4, <2>2 DEF NextKnown
<1>10. DuesKnown'
    <2> SUFFICES ASSUME NEW s \in Slots, state[s] \in Timed
                 PROVE  /\ Away(next_tmo_check, now) <= Away(tmo_tick[s], now)
                        /\ Away(tmo_tick[s], now) <= MaxDelay + 1
        BY <1>4 DEF DuesKnown, slotVars
    <2>1. n <= Away(tmo_tick[s], current_tick) /\ Away(tmo_tick[s], current_tick) <= MaxDelay + 1
        BY DEF TimesInv, DuesKnown, n
    <2>2. Away(tmo_tick[s], current_tick) \in Int
        BY NearFacts
    <2> QED
        BY <1>2, <1>6, <2>1, <2>2, Turns DEF n
<1>11. WalkPlaced' /\ WalkCovers'
    <2> SUFFICES ASSUME cpu = "walk" PROVE WalkPlaced' /\ WalkCovers'
        BY <1>7 DEF WalkPlaced, WalkCovers
    <2>1. Away(walk.tick, current_tick) \in Int /\ Away(walk.check, current_tick) \in Int
        BY NearFacts
    <2>2. /\ Away(walk.tick, now) = Away(walk.tick, current_tick) - 1
          /\ Away(walk.check, now) = Away(walk.check, current_tick) - 1
        BY <1>6
    <2>3. /\ n <= Away(walk.tick, current_tick) /\ Away(walk.tick, current_tick) <= 0
          /\ Away(walk.tick, current_tick) < Away(walk.check, current_tick)
          /\ Away(walk.check, current_tick) <= Away(walk.tick, current_tick) + Period
        BY DEF TimesInv, WalkPlaced, n
    <2>4. /\ Away(next_tmo_check, now) <= Away(walk.tick, now) /\ Away(walk.tick, now) <= 0
          /\ Away(walk.tick, now) < Away(walk.check, now)
          /\ Away(walk.check, now) <= Away(walk.tick, now) + Period
        BY <1>2, <1>6, <2>1, <2>2, <2>3, Turns DEF n
    <2>5. WalkPlaced'
        BY <1>4, <2>4 DEF WalkPlaced
    <2>6. ASSUME NEW i \in DOMAIN tmo, i < walk.at, state[tmo[i]] \in Timed
          PROVE  Away(walk.check, now) <= Away(tmo_tick[tmo[i]], now)
        <3>1. tmo[i] \in Slots
            <4>1. Holds(tmo, Range(tmo))
                BY DEF ListsInv, TmoHeld
            <4> QED
                BY <4>1, HeldPlaces
        <3>2. Away(walk.check, current_tick) <= Away(tmo_tick[tmo[i]], current_tick)
            BY <2>6 DEF TimesInv, WalkCovers
        <3>3. /\ Away(tmo_tick[tmo[i]], current_tick) \in Int
              /\ Away(tmo_tick[tmo[i]], now) = Away(tmo_tick[tmo[i]], current_tick) - 1
            BY <1>6, <2>6, <3>1, NearFacts
        <3> QED
            BY <2>1, <2>2, <3>2, <3>3
    <2>7. WalkCovers'
        BY <1>4, <2>6 DEF WalkCovers, slotVars
    <2> QED
        BY <2>5, <2>7
<1> QED
    BY <1>8, <1>9, <1>10, <1>11 DEF TimesInv

\* A walk begins when the check is due.
LEMMA BeginKeeps ==
    ASSUME ListsInv, TimesInv, BeginWalk
    PROVE  TimesInv'
<1> DEFINE c == (current_tick + Period) % Wrap
<1>1. current_tick \in Ticks /\ Near(next_tmo_check, current_tick)
    BY DEF TimesInv, TimesTyped, NextKnown
<1>2. Near(current_tick, current_tick) /\ Away(current_tick, current_tick) = 0
    BY <1>1, NowIsNear
<1>3. c \in Ticks /\ Away(c, current_tick) = Period
    <2>1. Period \in Nat /\ Period < Wrap \div 2 /\ Away(current_tick, current_tick) + Period < Wrap \div 2
        BY <1>2, Turns
    <2>2. c \in Ticks /\ Away(c, current_tick) = Away(current_tick, current_tick) + Period
        BY <1>1, <2>1, LaterIs
    <2> QED
        BY <1>2, <2>1, <2>2
<1>4. /\ walk' = [tick |-> current_tick, check |-> c, at |-> 1] /\ cpu' = "walk"
      /\ UNCHANGED <<slotVars, tmo, next_tmo_check, current_tick>>
    BY DEF BeginWalk
<1> HIDE DEF c
<1>5. Away(next_tmo_check, current_tick) <= 0
    <2>1. ~Before(current_tick, next_tmo_check)
        BY DEF BeginWalk
    <2>2. ~(0 < Away(next_tmo_check, current_tick))
        BY <1>1, <1>2, <2>1, BeforeIs
    <2> QED
        BY <2>2, NearFacts
<1>6. walk'.tick = current_tick /\ walk'.check = c /\ walk'.at = 1
    BY <1>4
<1>7. walk' \in [tick : Ticks, check : Ticks, at : Nat]
    BY <1>1, <1>3, <1>4
<1>8. TimesTyped' /\ NextKnown' /\ DuesKnown'
    BY <1>4, <1>6, <1>7 DEF TimesInv, TimesTyped, NextKnown, DuesKnown, slotVars
<1>9. WalkPlaced'
    BY <1>2, <1>3, <1>4, <1>5, <1>6, Turns DEF WalkPlaced
<1>10. WalkCovers'
    <2>1. Holds(tmo, Range(tmo))
        BY DEF ListsInv, TmoHeld
    <2>2. DOMAIN tmo = 1..Len(tmo) /\ Len(tmo) \in Nat
        BY <2>1, HeldPlaces
    <2>3. \A i \in DOMAIN tmo' : ~(i < walk'.at)
        BY <1>4, <1>6, <2>2
    <2> QED
        BY <2>3 DEF WalkCovers
<1> QED
    BY <1>8, <1>9, <1>10 DEF TimesInv

\* The thread of the entry a walk looks at.
LEMMA LookedIs ==
    ASSUME ListsInv, TimesInv, cpu = "walk", walk.at <= Len(tmo)
    PROVE  /\ walk.at \in 1..Len(tmo) /\ Looked \in Slots /\ tmo \in Seq(Slots) /\ Len(tmo) \in Nat
           /\ DOMAIN tmo = 1..Len(tmo) /\ \A i \in 1..Len(tmo) : tmo[i] \in Slots
<1>1. Holds(tmo, Range(tmo))
    BY DEF ListsInv, TmoHeld
<1>2. /\ tmo \in Seq(Slots) /\ Len(tmo) \in Nat /\ DOMAIN tmo = 1..Len(tmo)
      /\ \A i \in 1..Len(tmo) : tmo[i] \in Slots
    BY <1>1, HeldPlaces
<1>3. walk.at \in Nat /\ walk.at >= 1
    BY DEF TimesInv, TimesTyped
<1> QED
    BY <1>2, <1>3 DEF Looked

\* An entry still to come bounds the check.
LEMMA PastKeeps ==
    ASSUME ListsInv, TimesInv, WalkPast
    PROVE  TimesInv'
<1> DEFINE w == Away(walk.tick, current_tick)
           c == Away(walk.check, current_tick)
           d == Away(tmo_tick[Looked], current_tick)
<1>1. /\ cpu = "walk" /\ state[Looked] \in Timed /\ Before(walk.tick, tmo_tick[Looked])
      /\ walk.at \in 1..Len(tmo) /\ Looked \in Slots /\ Looked = tmo[walk.at]
      /\ DOMAIN tmo = 1..Len(tmo) /\ Len(tmo) \in Nat
      /\ \A i \in 1..Len(tmo) : tmo[i] \in Slots
    BY LookedIs DEF WalkPast, Looked
<1>2. /\ Near(walk.tick, current_tick) /\ Near(walk.check, current_tick)
      /\ Near(tmo_tick[Looked], current_tick) /\ current_tick \in Ticks
      /\ w \in Int /\ c \in Int /\ d \in Int
    BY <1>1, NearFacts DEF TimesInv, TimesTyped
<1>3. w < d /\ (Before(tmo_tick[Looked], walk.check) <=> d < c)
    BY <1>1, <1>2, BeforeIs
<1>4. /\ walk' = [walk EXCEPT !.at = walk.at + 1,
                              !.check = IF Before(tmo_tick[Looked], walk.check)
                                        THEN tmo_tick[Looked] ELSE walk.check]
      /\ UNCHANGED <<slotVars, tmo, next_tmo_check, current_tick, cpu>>
    BY DEF WalkPast
<1>5. tmo_tick[Looked] \in Ticks /\ walk \in [tick : Ticks, check : Ticks, at : Nat]
    BY <1>1 DEF TimesInv, TimesTyped
<1>6. /\ walk' \in [tick : Ticks, check : Ticks, at : Nat]
      /\ walk'.tick = walk.tick /\ walk'.at = walk.at + 1
      /\ walk'.check = IF Before(tmo_tick[Looked], walk.check) THEN tmo_tick[Looked] ELSE walk.check
    <2>1. PICK e \in Ticks :
            e = IF Before(tmo_tick[Looked], walk.check) THEN tmo_tick[Looked] ELSE walk.check
        BY <1>5
    <2>2. walk' = [walk EXCEPT !.at = walk.at + 1, !.check = e]
        BY <1>4, <2>1
    <2>3. walk' = [tick |-> walk.tick, check |-> e, at |-> walk.at + 1]
        BY <1>5, <2>2
    <2> QED
        BY <1>5, <2>1, <2>3
<1>7. /\ Away(walk'.check, current_tick) \in Int
      /\ Away(walk'.check, current_tick) <= d /\ Away(walk'.check, current_tick) <= c
      /\ w < Away(walk'.check, current_tick)
    <2>1. w < c
        BY <1>1 DEF TimesInv, WalkPlaced
    <2> QED
        BY <1>2, <1>3, <1>6, <2>1
<1>8. TimesTyped' /\ NextKnown' /\ DuesKnown'
    BY <1>1, <1>4, <1>6 DEF TimesInv, TimesTyped, NextKnown, DuesKnown, slotVars
<1>9. WalkPlaced'
    <2>1. /\ Away(next_tmo_check, current_tick) <= w /\ w <= 0 /\ c <= w + Period
        BY <1>1 DEF TimesInv, WalkPlaced
    <2>2. Away(walk'.check, current_tick) <= w + Period
        BY <1>2, <1>7, <2>1, Turns
    <2> QED
        BY <1>4, <1>6, <1>7, <2>1, <2>2 DEF WalkPlaced
<1>10. WalkCovers'
    <2> SUFFICES ASSUME NEW i \in 1..Len(tmo), i < walk.at + 1, state[tmo[i]] \in Timed
                 PROVE  Away(walk'.check, current_tick) <= Away(tmo_tick[tmo[i]], current_tick)
        BY <1>1, <1>4, <1>6 DEF WalkCovers, slotVars
    <2>1. CASE i = walk.at
        BY <1>1, <1>7, <2>1
    <2>2. CASE i # walk.at
        <3>1. i < walk.at
            BY <1>1, <2>2
        <3>2. c <= Away(tmo_tick[tmo[i]], current_tick)
            BY <1>1, <3>1 DEF TimesInv, WalkCovers
        <3>3. Away(tmo_tick[tmo[i]], current_tick) \in Int
            BY <1>1, NearFacts
        <3> HIDE DEF c
        <3> QED
            BY <1>2, <1>7, <3>2, <3>3
    <2> QED
        BY <2>1, <2>2
<1> QED
    BY <1>8, <1>9, <1>10 DEF TimesInv

\* One that is due leaves; what the walk has passed stays where it is.
LEMMA DueKeeps ==
    ASSUME ListsInv, TimesInv, WalkRemove
    PROVE  /\ TimesInv'
           /\ \A s \in Slots : state[s] \in Timed /\ state'[s] \notin Timed =>
                Away(tmo_tick[s], current_tick) <= 0
<1>1. /\ cpu = "walk" /\ walk.at \in 1..Len(tmo) /\ Looked \in Slots /\ Looked = tmo[walk.at]
      /\ DOMAIN tmo = 1..Len(tmo) /\ Len(tmo) \in Nat
      /\ \A i \in 1..Len(tmo) : tmo[i] \in Slots
    BY LookedIs DEF WalkRemove, Looked
<1>2. PICK s \in Slots : s = Looked
    BY <1>1
<1>3. /\ ~(state[s] \in Timed /\ Before(walk.tick, tmo_tick[s]))
      /\ tmo' = RemoveAt(tmo, walk.at)
      /\ IF state[s] \in Timed THEN Schedule(<<s>>) ELSE UNCHANGED <<state, tmo_tick, rtr>>
      /\ UNCHANGED <<next_tmo_check, current_tick, cpu, walk>>
    BY <1>2 DEF WalkRemove
<1>4. \A u \in Slots : state'[u] \in Timed => state[u] \in Timed /\ tmo_tick'[u] = tmo_tick[u]
    <2>1. CASE state[s] \in Timed
        <3>1. Range(<<s>>) = {s}
            BY DEF Range
        <3>2. \A u \in Slots : /\ state'[u] = (IF u = s THEN "running" ELSE state[u])
                               /\ tmo_tick'[u] = (IF u = s THEN 0 ELSE tmo_tick[u])
            BY <1>3, <2>1, <3>1 DEF Schedule
        <3> QED
            BY <3>2 DEF Timed
    <2>2. CASE state[s] \notin Timed
        BY <1>3, <2>2
    <2> QED
        BY <2>1, <2>2
<1>5. \A u \in Slots : state[u] \in Timed /\ state'[u] \notin Timed => u = s /\ state[s] \in Timed
    <2>1. CASE state[s] \in Timed
        <3>1. Range(<<s>>) = {s}
            BY DEF Range
        <3>2. \A u \in Slots : state'[u] = (IF u = s THEN "running" ELSE state[u])
            BY <1>3, <2>1, <3>1 DEF Schedule
        <3> QED
            BY <2>1, <3>2
    <2>2. CASE state[s] \notin Timed
        BY <1>3, <2>2
    <2> QED
        BY <2>1, <2>2
<1>6. tmo_tick' \in [Slots -> Ticks]
    <2>1. tmo_tick \in [Slots -> Ticks] /\ 0 \in Ticks
        BY Turns DEF TimesInv, TimesTyped, Ticks
    <2> QED
        BY <1>3, <2>1 DEF Schedule
<1>7. /\ Len(tmo') = Len(tmo) - 1 /\ DOMAIN tmo' = 1..(Len(tmo) - 1)
      /\ \A i \in 1..(Len(tmo) - 1) : i < walk.at => tmo'[i] = tmo[i]
    <2>1. Holds(tmo, Range(tmo))
        BY DEF ListsInv, TmoHeld
    <2>2. /\ Holds(tmo', Range(tmo) \ {tmo[walk.at]}) /\ Len(tmo') = Len(tmo) - 1
          /\ \A i \in 1..(Len(tmo) - 1) : tmo'[i] = IF i < walk.at THEN tmo[i] ELSE tmo[i + 1]
        BY <1>1, <1>3, <2>1, RemoveHolds
    <2>3. DOMAIN tmo' = 1..Len(tmo')
        BY <2>2, HeldPlaces
    <2> QED
        BY <2>2, <2>3
<1>8. TimesTyped' /\ NextKnown' /\ DuesKnown' /\ WalkPlaced'
    BY <1>3, <1>4, <1>6 DEF TimesInv, TimesTyped, NextKnown, DuesKnown, WalkPlaced
<1>9. WalkCovers'
    <2> SUFFICES ASSUME NEW i \in 1..(Len(tmo) - 1), i < walk.at, state'[tmo'[i]] \in Timed
                 PROVE  Away(walk.check, current_tick) <= Away(tmo_tick'[tmo'[i]], current_tick)
        BY <1>3, <1>7 DEF WalkCovers
    <2>1. tmo'[i] = tmo[i] /\ i \in DOMAIN tmo /\ tmo[i] \in Slots
        BY <1>1, <1>7
    <2>2. state[tmo[i]] \in Timed /\ tmo_tick'[tmo[i]] = tmo_tick[tmo[i]]
        BY <1>4, <2>1
    <2> QED
        BY <1>1, <2>1, <2>2 DEF TimesInv, WalkCovers
<1>10. ASSUME state[s] \in Timed PROVE Away(tmo_tick[s], current_tick) <= 0
    <2>1. /\ Near(walk.tick, current_tick) /\ Near(tmo_tick[s], current_tick) /\ current_tick \in Ticks
          /\ Away(walk.tick, current_tick) \in Int /\ Away(tmo_tick[s], current_tick) \in Int
        BY <1>1, <1>10, NearFacts DEF TimesInv, TimesTyped
    <2>2. ~(Away(walk.tick, current_tick) < Away(tmo_tick[s], current_tick))
        BY <1>3, <1>10, <2>1, BeforeIs
    <2>3. Away(walk.tick, current_tick) <= 0
        BY <1>1 DEF TimesInv, WalkPlaced
    <2> QED
        BY <2>1, <2>2, <2>3
<1> QED
    BY <1>5, <1>8, <1>9, <1>10 DEF TimesInv

\* What a walk has found out is the next check.
LEMMA EndKeeps ==
    ASSUME ListsInv, TimesInv, EndWalk
    PROVE  TimesInv'
<1>1. /\ cpu = "walk" /\ walk.at > Len(tmo) /\ next_tmo_check' = walk.check /\ walk' = NoWalk
      /\ UNCHANGED <<slotVars, tmo, current_tick>> /\ cpu' # "walk"
    BY DEF EndWalk, Elect, Idle
<1>2. /\ Away(next_tmo_check, current_tick) \in Int /\ -MaxLate <= Away(next_tmo_check, current_tick)
      /\ Away(walk.tick, current_tick) \in Int /\ Away(walk.check, current_tick) \in Int
      /\ Near(walk.check, current_tick) /\ walk.check \in Ticks
    BY <1>1, NearFacts DEF TimesInv, TimesTyped
<1>3. Away(walk.check, current_tick) <= Period
    <2>1. /\ Away(walk.tick, current_tick) <= 0
          /\ Away(walk.check, current_tick) <= Away(walk.tick, current_tick) + Period
        BY <1>1 DEF TimesInv, WalkPlaced
    <2> QED
        BY <1>2, <2>1, Turns
<1>4. ASSUME NEW s \in Slots, state[s] \in Timed
      PROVE  /\ Away(walk.check, current_tick) <= Away(tmo_tick[s], current_tick)
             /\ Away(tmo_tick[s], current_tick) <= MaxDelay + 1
    <2>1. Holds(tmo, Range(tmo)) /\ s \in Range(tmo)
        BY <1>4 DEF ListsInv, TmoHeld
    <2>2. PICK i \in 1..Len(tmo) : tmo[i] = s
        BY <2>1, HeldPlaces
    <2>3. DOMAIN tmo = 1..Len(tmo) /\ Len(tmo) \in Nat
        BY <2>1, HeldPlaces
    <2>4. i < walk.at
        <3>1. walk.at \in Nat
            BY DEF TimesInv, TimesTyped
        <3> QED
            BY <1>1, <2>3, <3>1
    <2>5. Away(walk.check, current_tick) <= Away(tmo_tick[s], current_tick)
        BY <1>1, <1>4, <2>2, <2>3, <2>4 DEF TimesInv, WalkCovers
    <2>6. Away(tmo_tick[s], current_tick) <= MaxDelay + 1
        BY <1>4 DEF TimesInv, DuesKnown
    <2> QED
        BY <2>5, <2>6
<1>5. NoWalk \in [tick : Ticks, check : Ticks, at : Nat]
    BY Turns DEF NoWalk, Ticks
<1>6. TimesTyped'
    BY <1>1, <1>2, <1>5 DEF TimesInv, TimesTyped, slotVars
<1>7. NextKnown' /\ WalkPlaced' /\ WalkCovers'
    BY <1>1, <1>2, <1>3 DEF NextKnown, WalkPlaced, WalkCovers
<1>8. DuesKnown'
    BY <1>1, <1>4 DEF DuesKnown, slotVars
<1> QED
    BY <1>6, <1>7, <1>8 DEF TimesInv

(***************************************************************************)
(* The switcher.                                                           *)
(***************************************************************************)
SchedInv == ListsInv /\ TimesInv

\* The initial state: one thread, which runs.
LEMMA InitSched == SchedInit => SchedInv
<1> SUFFICES ASSUME SchedInit PROVE SchedInv
    OBVIOUS
<1>1. Main \in Slots /\ 0 \in Ticks /\ current_tick = 0 /\ next_tmo_check = 0
    BY SizesAssumption, Turns DEF SchedInit, Main, Slots, Ticks
<1>2. /\ state = [s \in Slots |-> IF s = Main THEN "running" ELSE "killed"]
      /\ wqp = [s \in Slots |-> None] /\ avail = Slots \ {Main} /\ queue = [q \in Queues |-> <<>>]
      /\ rtr = <<Main>> /\ tmo = <<>> /\ running = Main /\ cpu = "thread"
      /\ tmo_tick = [s \in Slots |-> 0] /\ walk = NoWalk
    BY DEF SchedInit
<1>3. Holds(<<>>, {}) /\ Range(tmo) = {}
    BY <1>2, EmptyHolds DEF Holds
<1>4. RunHeld
    <2>1. Holds(<<>> \o <<Main>>, {} \cup {Main})
        BY <1>1, <1>3, AppendHolds
    <2>2. <<>> \o <<Main>> = <<Main>> /\ Runners = {Main}
        BY <1>1, <1>2 DEF Runners
    <2> QED
        BY <1>2, <2>1, <2>2 DEF RunHeld
<1>5. TmoHeld /\ NobodyWaitsForDead
    BY <1>2, <1>3, NotQueues DEF TmoHeld, NobodyWaitsForDead, Timed
<1>6. QueuesHeld
    <2>1. \A q \in Queues : Waiters(q) = {} /\ queue[q] = <<>>
        BY <1>2, NotQueues DEF Waiters
    <2> QED
        BY <1>3, <2>1 DEF QueuesHeld
<1>7. FieldsOK
    <2>1. queue \in [Queues -> Seq(Slots)]
        BY <1>2, EmptySeq
    <2>2. avail = {s \in Slots : state[s] = "killed"} /\ state \in [Slots -> States]
        BY <1>2 DEF States
    <2> QED
        BY <1>1, <1>2, <2>1, <2>2 DEF FieldsOK
<1>8. StatesKnown
    BY <1>1, <1>2, NotQueues DEF StatesKnown
<1>9. TimesInv
    <2>1. NextKnown
        BY <1>1, NowIsNear, Turns DEF NextKnown
    <2>2. TimesTyped
        BY <1>1, <1>2 DEF TimesTyped, NoWalk
    <2> QED
        BY <1>2, <2>1, <2>2 DEF TimesInv, DuesKnown, WalkPlaced, WalkCovers, Timed
<1> QED
    BY <1>4, <1>5, <1>6, <1>7, <1>8, <1>9 DEF SchedInv, ListsInv

\* Waking a thread gives nobody a timeout.
LEMMA NoneTimed ==
    ASSUME TimesInv, NEW s \in Slots, Schedule(<<s>>)
    PROVE  /\ tmo_tick' \in [Slots -> Ticks]
           /\ \A u \in Slots : state'[u] \in Timed => state[u] \in Timed /\ tmo_tick'[u] = tmo_tick[u]
           /\ \A u \in Slots \ {s} : state'[u] = state[u]
<1>1. Range(<<s>>) = {s}
    BY DEF Range
<1>2. /\ state' = [u \in Slots |-> IF u = s THEN "running" ELSE state[u]]
      /\ tmo_tick' = [u \in Slots |-> IF u = s THEN 0 ELSE tmo_tick[u]]
    BY <1>1 DEF Schedule
<1>3. 0 \in Ticks
    BY Turns DEF Ticks
<1> QED
    BY <1>2, <1>3 DEF TimesInv, TimesTyped, Timed

\* The calls of the thread that runs; none of them wakes a thread that has a
\* timeout.
LEMMA ThreadKeeps ==
    ASSUME SchedInv, NEW t \in Slots, ThreadNext(t)
    PROVE  SchedInv' /\ \A s \in Slots : state[s] \in Timed => state'[s] # "running"
<1>0. ListsInv /\ TimesInv /\ tmo_tick \in [Slots -> Ticks] /\ state \in [Slots -> States]
    BY DEF SchedInv, TimesInv, TimesTyped, ListsInv, FieldsOK
<1>1. ASSUME NEW st \in Timed, NEW k \in 0..(MaxDelay + 1), NEW q \in Queues, Calls(t),
             PrepareBlock(t, st, k), Waits(t, st, q), UNCHANGED <<current_tick, walk>>
      PROVE  SchedInv' /\ \A s \in Slots : state[s] \in Timed => state'[s] # "running"
    <2>1. ListsInv'
        BY <1>0, <1>1, WaitsKeep DEF Timed
    <2>2. TimesInv'
        BY <1>0, <1>1, DelayKeeps
    <2>3. state' = [state EXCEPT ![t] = st] /\ st # "running"
        BY <1>1 DEF Waits, Timed
    <2> QED
        BY <1>0, <2>1, <2>2, <2>3 DEF SchedInv, Timed
<1>2. ASSUME NEW q \in Queues, Calls(t), Waits(t, "blocked", q),
             UNCHANGED <<tmo_tick, next_tmo_check, current_tick, walk>>
      PROVE  SchedInv' /\ \A s \in Slots : state[s] \in Timed => state'[s] # "running"
    <2>1. ListsInv'
        BY <1>0, <1>2, WaitsKeep
    <2>2. state' = [state EXCEPT ![t] = "blocked"] /\ cpu' = "switch"
        BY <1>2 DEF Waits
    <2>3. \A s \in Slots : state'[s] \in Timed => state[s] \in Timed
        BY <1>0, <2>2 DEF Timed
    <2>4. TimesInv'
        BY <1>0, <1>2, <2>2, <2>3, TimesStay
    <2> QED
        BY <1>0, <2>1, <2>2, <2>4 DEF SchedInv, Timed
<1>3. ASSUME ListsInv', UNCHANGED <<current_tick, next_tmo_check, walk>>,
             tmo_tick' \in [Slots -> Ticks], cpu' # "walk",
             \A s \in Slots : state'[s] \in Timed => state[s] \in Timed /\ tmo_tick'[s] = tmo_tick[s],
             \A s \in Slots : state[s] \in Timed => state'[s] # "running"
      PROVE  SchedInv' /\ \A s \in Slots : state[s] \in Timed => state'[s] # "running"
    BY <1>0, <1>3, TimesStay DEF SchedInv
<1>4. ASSUME NEW ticks \in 0..MaxDelay, Sleep(t, ticks)
      PROVE  SchedInv' /\ \A s \in Slots : state[s] \in Timed => state'[s] # "running"
    <2>1. ticks + 1 \in 0..(MaxDelay + 1) /\ "sleeping" \in Timed /\ Object \in Queues
        BY NotQueues, Turns DEF Timed
    <2>2. /\ Calls(t) /\ Waits(t, "sleeping", Object) /\ PrepareBlock(t, "sleeping", ticks + 1)
          /\ UNCHANGED <<current_tick, walk>>
        BY <1>4, CallsWait DEF Sleep
    <2> QED
        BY <1>1, <2>1, <2>2
<1>5. ASSUME NEW ticks \in 1..MaxDelay, BlockWithTimeout(t, ticks)
      PROVE  SchedInv' /\ \A s \in Slots : state[s] \in Timed => state'[s] # "running"
    <2>1. ticks \in 0..(MaxDelay + 1) /\ "blocked_w_tmo" \in Timed /\ Object \in Queues
        BY NotQueues, Turns DEF Timed
    <2>2. /\ Calls(t) /\ Waits(t, "blocked_w_tmo", Object) /\ PrepareBlock(t, "blocked_w_tmo", ticks)
          /\ UNCHANGED <<current_tick, walk>>
        BY <1>5, CallsWait DEF BlockWithTimeout
    <2> QED
        BY <1>1, <2>1, <2>2
<1>6. CASE Block(t)
    <2>1. Object \in Queues /\ Calls(t) /\ Waits(t, "blocked", Object)
        BY <1>6, CallsWait, NotQueues
    <2> QED
        BY <1>2, <1>6, <2>1 DEF Block, PrepareBlockForever
<1>7. ASSUME NEW s \in Slots, ThreadWait(t, s)
      PROVE  SchedInv' /\ \A u \in Slots : state[u] \in Timed => state'[u] # "running"
    <2>1. s \in Queues /\ Calls(t) /\ Waits(t, "blocked", s)
        BY <1>7, CallsWait, NotQueues
    <2> QED
        BY <1>2, <1>7, <2>1 DEF ThreadWait, PrepareBlockForever
<1>8. CASE TryRemove(t)
    <2>1. ListsInv'
        BY <1>0, <1>8, TryRemoveKeeps
    <2>2. UNCHANGED <<state, tmo_tick, next_tmo_check, current_tick, walk>> /\ cpu' # "walk"
        BY <1>8 DEF TryRemove
    <2> QED
        BY <1>0, <1>3, <2>1, <2>2 DEF Timed
<1>9. CASE Yield(t)
    <2>1. /\ UNCHANGED <<state, wqp, tmo_tick, avail, queue, rtr, tmo, running>> /\ cpu' = "switch"
          /\ UNCHANGED <<next_tmo_check, current_tick, walk>>
        BY <1>9 DEF Yield, slotVars
    <2>2. ListsInv'
        BY <1>0, <2>1, OthersKeep
    <2> QED
        BY <1>0, <1>3, <2>1, <2>2 DEF Timed
<1>10. CASE ThreadExit(t)
    <2>1. ListsInv' /\ \A s \in Waiters(t) : state[s] = "blocked"
        BY <1>0, <1>10, ExitKeeps
    <2>2. t \in Queues /\ Range(queue[t]) = Waiters(t)
        BY <1>0, NotQueues DEF ListsInv, QueuesHeld, Holds
    <2>3. /\ state' = [s \in Slots |-> IF s = t THEN "killed"
                                       ELSE IF s \in Waiters(t) THEN "running" ELSE state[s]]
          /\ UNCHANGED <<tmo_tick, next_tmo_check, current_tick, walk>> /\ cpu' = "switch"
        BY <1>10, <2>2 DEF ThreadExit
    <2>4. /\ \A s \in Slots : state'[s] \in Timed => state[s] \in Timed
          /\ \A s \in Slots : state[s] \in Timed => state'[s] # "running"
        BY <2>1, <2>3 DEF Timed
    <2> QED
        BY <1>0, <1>3, <2>1, <2>3, <2>4
<1>11. ASSUME NEW s \in Slots, ThreadThaw(t, s)
       PROVE  SchedInv' /\ \A u \in Slots : state[u] \in Timed => state'[u] # "running"
    <2>1. ListsInv'
        BY <1>0, <1>11, ThawKeeps
    <2>2. /\ state[s] = "frozen" /\ Schedule(<<s>>) /\ cpu = "thread"
          /\ UNCHANGED <<next_tmo_check, current_tick, cpu, walk>>
        BY <1>11 DEF ThreadThaw, Calls
    <2>3. /\ tmo_tick' \in [Slots -> Ticks]
          /\ \A u \in Slots : state'[u] \in Timed => state[u] \in Timed /\ tmo_tick'[u] = tmo_tick[u]
          /\ \A u \in Slots \ {s} : state'[u] = state[u]
        BY <1>0, <2>2, NoneTimed
    <2>4. \A u \in Slots : state[u] \in Timed => state'[u] # "running"
        BY <2>2, <2>3 DEF Timed
    <2> QED
        BY <1>3, <2>1, <2>2, <2>3, <2>4
<1>12. ASSUME NEW frozen \in BOOLEAN, Create(t, frozen)
       PROVE  SchedInv' /\ \A u \in Slots : state[u] \in Timed => state'[u] # "running"
    <2>1. ListsInv'
        BY <1>0, <1>12, CreateKeeps
    <2>2. PICK s \in avail :
            IF frozen THEN state' = [state EXCEPT ![s] = "frozen"] /\ UNCHANGED <<rtr, tmo_tick>>
            ELSE Schedule(<<s>>)
        BY <1>12 DEF Create
    <2>3. s \in Slots /\ state[s] = "killed"
        BY <1>0 DEF ListsInv, FieldsOK
    <2>4. cpu' # "walk" /\ UNCHANGED <<next_tmo_check, current_tick, walk>>
        BY <1>12 DEF Create, Calls
    <2>5. /\ tmo_tick' \in [Slots -> Ticks]
          /\ \A u \in Slots : state'[u] \in Timed => state[u] \in Timed /\ tmo_tick'[u] = tmo_tick[u]
          /\ \A u \in Slots \ {s} : state'[u] = state[u]
        <3>1. CASE frozen
            BY <1>0, <2>2, <2>3, <3>1 DEF Timed
        <3>2. CASE ~frozen
            BY <1>0, <2>2, <2>3, <3>2, NoneTimed
        <3> QED
            BY <3>1, <3>2
    <2>6. \A u \in Slots : state[u] \in Timed => state'[u] # "running"
        BY <2>3, <2>5 DEF Timed
    <2> QED
        BY <1>3, <2>1, <2>4, <2>5, <2>6
<1> QED
    BY <1>4, <1>5, <1>6, <1>7, <1>8, <1>9, <1>10, <1>11, <1>12 DEF ThreadNext

\* A wakeup takes the thread off its queue, whether it had a timeout or not.
LEMMA WakeKeeps ==
    ASSUME SchedInv, WakeFirst
    PROVE  /\ SchedInv'
           /\ \A s \in Slots : state[s] \in Timed /\ state'[s] = "running" => wqp'[s] # wqp[s]
<1>0. ListsInv /\ TimesInv /\ tmo_tick \in [Slots -> Ticks] /\ wqp \in [Slots -> Queues \cup {None}]
    BY DEF SchedInv, TimesInv, TimesTyped, ListsInv, FieldsOK
<1>1. PICK s : s = Head(queue[Object])
    OBVIOUS
<1>2. ListsInv' /\ s \in Slots /\ wqp[s] = Object
    BY <1>0, <1>1, WakeFirstKeeps
<1>3. /\ wqp' = [wqp EXCEPT ![s] = None]
      /\ IF state[s] = "running" THEN UNCHANGED <<state, tmo_tick, rtr>> ELSE Schedule(<<s>>)
      /\ cpu' = (IF cpu = "idle" THEN "awake" ELSE cpu)
      /\ UNCHANGED <<tmo, next_tmo_check, current_tick, walk>>
    BY <1>1 DEF WakeFirst, Interrupted
<1>4. /\ tmo_tick' \in [Slots -> Ticks]
      /\ \A u \in Slots : state'[u] \in Timed => state[u] \in Timed /\ tmo_tick'[u] = tmo_tick[u]
      /\ \A u \in Slots \ {s} : state'[u] = state[u]
    <2>1. CASE state[s] = "running"
        BY <1>0, <1>3, <2>1
    <2>2. CASE state[s] # "running"
        BY <1>0, <1>2, <1>3, <2>2, NoneTimed
    <2> QED
        BY <2>1, <2>2
<1>5. TimesInv'
    BY <1>0, <1>3, <1>4, TimesStay
<1>6. wqp'[s] # wqp[s]
    BY <1>0, <1>2, <1>3, NotQueues
<1> QED
    BY <1>2, <1>4, <1>5, <1>6 DEF SchedInv, Timed

\* The clock and the switcher: they wake those whose time has come.
LEMMA SwitcherKeeps ==
    ASSUME SchedInv, Tick \/ Switcher
    PROVE  /\ SchedInv'
           /\ \A s \in Slots : state[s] \in Timed /\ state'[s] = "running" =>
                Away(tmo_tick[s], current_tick) <= 0
<1>0. /\ ListsInv /\ TimesInv /\ tmo_tick \in [Slots -> Ticks]
      /\ cpu \in {"thread", "switch", "walk", "idle", "awake"}
    BY DEF SchedInv, TimesInv, TimesTyped, ListsInv, FieldsOK
<1>1. CASE Tick
    <2>1. /\ UNCHANGED <<state, wqp, avail, queue, rtr, tmo, running>>
          /\ cpu' = (IF cpu = "idle" THEN "awake" ELSE cpu)
        BY <1>1 DEF Tick, slotVars, Interrupted
    <2>2. ListsInv'
        BY <1>0, <2>1, OthersKeep
    <2>3. TimesInv'
        BY <1>0, <1>1, ClockKeeps
    <2> QED
        BY <2>1, <2>2, <2>3 DEF SchedInv, Timed
<1>2. CASE SwitchThread
    <2>1. /\ UNCHANGED <<state, wqp, tmo_tick, avail, queue, tmo, next_tmo_check, current_tick, walk>>
          /\ Elect \/ Idle
        BY <1>2 DEF SwitchThread, slotVars
    <2>2. ListsInv'
        BY <1>0, <2>1, ElectKeeps
    <2>3. cpu' # "walk"
        BY <2>1 DEF Elect, Idle
    <2>4. TimesInv'
        BY <1>0, <2>1, <2>3, TimesStay
    <2> QED
        BY <2>1, <2>2, <2>4 DEF SchedInv, Timed
<1>3. CASE BeginWalk
    <2>1. UNCHANGED <<state, wqp, avail, queue, rtr, tmo, running>> /\ cpu' = "walk"
        BY <1>3 DEF BeginWalk, slotVars
    <2>2. ListsInv'
        BY <1>0, <2>1, OthersKeep
    <2>3. TimesInv'
        BY <1>0, <1>3, BeginKeeps
    <2> QED
        BY <2>1, <2>2, <2>3 DEF SchedInv, Timed
<1>4. CASE WalkPast
    <2>1. UNCHANGED <<state, wqp, avail, queue, rtr, tmo, running, cpu>>
        BY <1>4 DEF WalkPast, slotVars
    <2>2. ListsInv'
        BY <1>0, <2>1, OthersKeep
    <2>3. TimesInv'
        BY <1>0, <1>4, PastKeeps
    <2> QED
        BY <2>1, <2>2, <2>3 DEF SchedInv, Timed
<1>5. CASE WalkRemove
    <2>1. walk.at \in 1..Len(tmo)
        BY <1>0, <1>5, LookedIs DEF WalkRemove
    <2>2. ListsInv'
        BY <1>0, <1>5, <2>1, WalkRemoveKeeps
    <2>3. /\ TimesInv'
          /\ \A s \in Slots : state[s] \in Timed /\ state'[s] \notin Timed =>
                Away(tmo_tick[s], current_tick) <= 0
        BY <1>0, <1>5, DueKeeps
    <2> QED
        BY <2>2, <2>3 DEF SchedInv, Timed
<1>6. CASE EndWalk
    <2>1. UNCHANGED <<state, wqp, avail, queue, tmo>> /\ (Elect \/ Idle)
        BY <1>6 DEF EndWalk, slotVars
    <2>2. ListsInv'
        BY <1>0, <2>1, ElectKeeps
    <2>3. TimesInv'
        BY <1>0, <1>6, EndKeeps
    <2> QED
        BY <2>1, <2>2, <2>3 DEF SchedInv, Timed
<1> QED
    BY <1>1, <1>2, <1>3, <1>4, <1>5, <1>6 DEF Switcher

\* The invariant is inductive, and no step wakes a thread early.
LEMMA NextSched ==
    ASSUME SchedInv, [SchedNext]_schedVars
    PROVE  /\ SchedInv'
           /\ \A s \in Slots :
                state[s] \in Timed /\ state'[s] = "running" /\ wqp'[s] = wqp[s] =>
                    ~Before(current_tick, tmo_tick[s])
<1>1. CASE UNCHANGED schedVars
    <2>1. /\ UNCHANGED <<state, wqp, avail, queue, rtr, tmo, running, cpu>>
          /\ UNCHANGED <<tmo_tick, next_tmo_check, current_tick, walk>>
        BY <1>1 DEF schedVars, slotVars
    <2>2. ListsInv'
        BY <2>1, OthersKeep DEF SchedInv, ListsInv, FieldsOK
    <2>3. TimesInv'
        BY <2>1, TimesStay DEF SchedInv, TimesInv, TimesTyped
    <2> QED
        BY <2>1, <2>2, <2>3 DEF SchedInv, Timed
<1>2. ASSUME NEW t \in Slots, ThreadNext(t)
      PROVE  SchedInv' /\ \A s \in Slots : state[s] \in Timed => state'[s] # "running"
    BY <1>2, ThreadKeeps
<1>3. CASE WakeFirst
    BY <1>3, WakeKeeps
<1>4. CASE Tick \/ Switcher
    <2>1. /\ SchedInv'
          /\ \A s \in Slots : state[s] \in Timed /\ state'[s] = "running" =>
                Away(tmo_tick[s], current_tick) <= 0
        BY <1>4, SwitcherKeeps
    <2>2. ASSUME NEW s \in Slots, state[s] \in Timed, Away(tmo_tick[s], current_tick) <= 0
          PROVE  ~Before(current_tick, tmo_tick[s])
        <3>1. /\ Near(tmo_tick[s], current_tick) /\ current_tick \in Ticks
              /\ Away(tmo_tick[s], current_tick) \in Int
            BY <2>2, NearFacts DEF SchedInv, TimesInv, TimesTyped
        <3>2. Near(current_tick, current_tick) /\ Away(current_tick, current_tick) = 0
            BY <3>1, NowIsNear
        <3>3. Before(current_tick, tmo_tick[s]) <=>
                Away(current_tick, current_tick) < Away(tmo_tick[s], current_tick)
            BY <3>1, <3>2, BeforeIs
        <3> QED
            BY <2>2, <3>1, <3>2, <3>3
    <2> QED
        BY <2>1, <2>2
<1> QED
    BY <1>1, <1>2, <1>3, <1>4 DEF SchedNext

\* It holds throughout.
LEMMA SchedInvariance == SchedSpec => []SchedInv
<1>1. SchedInv /\ [SchedNext]_schedVars => SchedInv'
    BY NextSched
<1> QED
    BY <1>1, InitSched, PTL DEF SchedSpec

\* The switcher's lists agree with the threads' states at every step, for any
\* number of threads, and nobody waits for a thread that has exited (thread.c).
THEOREM SwitcherListsKept == SchedSpec => []ListsKept
<1>1. ASSUME SchedInv PROVE ListsKept
    <2>1. /\ ListsInv /\ TimesTyped
        BY <1>1 DEF SchedInv, TimesInv
    <2>2. SchedTypeOK
        <3>1. rtr \in Seq(Slots) /\ tmo \in Seq(Slots)
            BY <2>1 DEF ListsInv, RunHeld, TmoHeld, Holds
        <3>2. avail \subseteq Slots
            BY <2>1 DEF ListsInv, FieldsOK
        <3> QED
            BY <2>1, <3>1, <3>2 DEF ListsInv, FieldsOK, TimesTyped, SchedTypeOK
    <2>3. Once(rtr) /\ \A s \in Slots : s \in Range(rtr) <=> state[s] = "running"
        <3>1. Once(rtr) /\ Range(rtr) = Runners
            BY <2>1 DEF ListsInv, RunHeld, Holds
        <3> QED
            BY <3>1 DEF Runners
    <2>4. Once(tmo) /\ \A s \in Slots : state[s] \in Timed => s \in Range(tmo)
        BY <2>1 DEF ListsInv, TmoHeld, Holds
    <2>5. ASSUME NEW q \in Queues
          PROVE  Once(queue[q]) /\ \A s \in Slots : s \in Range(queue[q]) <=> wqp[s] = q
        <3>1. Once(queue[q]) /\ Range(queue[q]) = Waiters(q)
            BY <2>1 DEF ListsInv, QueuesHeld, Holds
        <3> QED
            BY <3>1 DEF Waiters
    <2>6. avail = {s \in Slots : state[s] = "killed"} /\ avail \cap Range(tmo) = {}
        BY <2>1 DEF ListsInv, FieldsOK, TmoHeld
    <2>7. ListsAgree
        BY <2>3, <2>4, <2>5, <2>6 DEF ListsAgree
    <2> QED
        BY <2>1, <2>2, <2>7 DEF ListsInv, ListsKept
<1> QED
    BY <1>1, SchedInvariance, PTL

\* The next look at the timeouts is never later than the first of them,
\* however the clock wraps (prepare_block, check_tmo_expired_inner).
THEOREM CheckNeverTooLate == SchedSpec => []CheckCovers
<1>1. ASSUME SchedInv PROVE CheckCovers
    <2> SUFFICES ASSUME NEW i \in DOMAIN tmo, state[tmo[i]] \in Timed
                 PROVE  IF cpu = "walk"
                        THEN i < walk.at => ~Before(tmo_tick[tmo[i]], walk.check)
                        ELSE ~Before(tmo_tick[tmo[i]], next_tmo_check)
        BY DEF CheckCovers
    <2>1. Holds(tmo, Range(tmo)) /\ current_tick \in Ticks /\ TimesInv
        BY <1>1 DEF SchedInv, ListsInv, TmoHeld, TimesInv, TimesTyped
    <2>2. tmo[i] \in Slots
        BY <2>1, HeldPlaces
    <2>3. /\ Near(tmo_tick[tmo[i]], current_tick) /\ Near(next_tmo_check, current_tick)
          /\ cpu = "walk" => Near(walk.check, current_tick)
          /\ Away(tmo_tick[tmo[i]], current_tick) \in Int
          /\ Away(next_tmo_check, current_tick) \in Int /\ Away(walk.check, current_tick) \in Int
        BY <2>1, <2>2, NearFacts DEF TimesInv, NextKnown
    <2>4. CASE cpu = "walk"
        <3>1. ASSUME i < walk.at PROVE ~Before(tmo_tick[tmo[i]], walk.check)
            <4>1. Away(walk.check, current_tick) <= Away(tmo_tick[tmo[i]], current_tick)
                BY <2>1, <2>4, <3>1 DEF TimesInv, WalkCovers
            <4>2. ~(Away(tmo_tick[tmo[i]], current_tick) < Away(walk.check, current_tick))
                BY <2>3, <4>1
            <4> QED
                BY <2>1, <2>3, <2>4, <4>2, BeforeIs
        <3> QED
            BY <2>4, <3>1
    <2>5. CASE cpu # "walk"
        <3>1. Away(next_tmo_check, current_tick) <= Away(tmo_tick[tmo[i]], current_tick)
            BY <2>1, <2>2 DEF TimesInv, DuesKnown
        <3>2. ~(Away(tmo_tick[tmo[i]], current_tick) < Away(next_tmo_check, current_tick))
            BY <2>3, <3>1
        <3>3. ~Before(tmo_tick[tmo[i]], next_tmo_check)
            BY <2>1, <2>3, <3>2, BeforeIs
        <3> QED
            BY <2>5, <3>3
    <2> QED
        BY <2>4, <2>5
<1> QED
    BY <1>1, SchedInvariance, PTL

\* Time alone wakes no thread before its time (sleep, check_tmo_expired_inner).
THEOREM WokenInTime == SchedSpec => NeverEarly
<1>1. ASSUME SchedInv, [SchedNext]_schedVars
      PROVE  [\A s \in Slots :
                state[s] \in Timed /\ state'[s] = "running" /\ wqp'[s] = wqp[s]
                    => ~Before(current_tick, tmo_tick[s])]_schedVars
    BY <1>1, NextSched
<1> QED
    BY <1>1, SchedInvariance, PTL DEF SchedSpec, NeverEarly
=============================================================================
