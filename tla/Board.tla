------------------------------- MODULE Board --------------------------------
(***************************************************************************)
(* The firmware of the Bluetooth board (board-firmware.ino): setup()'s     *)
(* loops, which share device_name_buffer and nameidx, and the task that    *)
(* listens for "reset" afterwards.  A line is read in two steps, its       *)
(* characters and its newline, because everything can happen in between.   *)
(***************************************************************************)
EXTENDS SerialLink

VARIABLES
    bpc,                  \* where setup() is: "boot", "search", "connecting", "tasks"
    device_name_buffer,   \* text held in the buffer up to its first NUL
    nameidx,              \* 0, or 1 for any index past the first character
    device_name           \* the name the board connects to

boardVars == <<bpc, device_name_buffer, nameidx, device_name>>

BoardTypeOK ==
    /\ bpc \in {"boot", "search", "connecting", "tasks"}
    /\ device_name_buffer \in Texts
    /\ nameidx \in 0..1
    /\ device_name \in Texts

BoardInit ==
    /\ bpc = "boot"
    /\ device_name_buffer = "short"
    /\ nameidx = 0
    /\ device_name = "short"

\* The characters of text written over what the buffer holds, without a NUL
\* after them: a longer old text shows its tail.  The result is only compared
\* with "reset": any other mixture is "junk".
Overlay(text, old) ==
    IF old = "short" \/ (text = "reset" /\ old \notin LongNames \cup {"junk"})
    THEN text ELSE "junk"

\* ESP.restart(): RAM is initialised again and what was received is lost.
Restart ==
    /\ bpc' = "boot"
    /\ device_name_buffer' = "short"
    /\ nameidx' = 0
    /\ device_name' = "short"
    /\ toBoard' = <<>>

\* Serial.begin() at an arbitrary moment of the iPod's writes, the banner
\* (its two empty lines have the effect of one).
Start ==
    /\ bpc = "boot"
    /\ toBoard' \in Heard(toBoard, {"short", "junk"})
    /\ Say(<<Line("blank", "short"), Line("starting", "short")>>)
    /\ bpc' = "search"
    /\ device_name_buffer' = "short"
    /\ UNCHANGED <<nameidx, device_name>>

\* A scan result.  last_dev_buffer only decides which results are printed, and
\* the cycle counter lets any result through: whatever is printed is a result.
ScanResult(name) ==
    /\ bpc = "search"
    /\ Say(<<Line("device", name)>>)
    /\ UNCHANGED <<boardVars, toBoard>>

\* The characters of the next line, put in the buffer one by one.
CharsPending == toBoard # <<>> /\ nameidx = 0 /\ Head(toBoard) # "short"
NewlinePending == toBoard # <<>> /\ (nameidx = 1 \/ Head(toBoard) = "short")

BufferChars ==
    /\ CharsPending
    /\ device_name_buffer' = Overlay(Head(toBoard), device_name_buffer)
    /\ nameidx' = 1
    /\ UNCHANGED <<bpc, device_name, toBoard>>

\* step 2: listen for a name (or "reset") while reporting scan results
SearchChars == bpc = "search" /\ BufferChars /\ UNCHANGED toIpod

SearchNewline ==
    /\ bpc = "search"
    /\ NewlinePending
    /\ IF StartsWithReset(device_name_buffer)
       THEN Restart
       ELSE /\ device_name' = device_name_buffer
            /\ nameidx' = 0
            /\ bpc' = "connecting"
            /\ toBoard' = Tail(toBoard)
            /\ UNCHANGED device_name_buffer
    /\ UNCHANGED toIpod

\* step 3: once a second, print "connecting to" and read one character
PrintConnecting == Say(<<Line("connecting", device_name)>>)

ConnectingIdle ==
    /\ bpc = "connecting"
    /\ toBoard = <<>>
    /\ PrintConnecting
    /\ UNCHANGED <<boardVars, toBoard>>

ConnectingChars == bpc = "connecting" /\ PrintConnecting /\ BufferChars

\* Mutant of ConnectingNewline: the buffer is not cleared after a refused line.
ConnectingNewlineKeeps ==
    /\ bpc = "connecting"
    /\ NewlinePending
    /\ PrintConnecting
    /\ IF device_name_buffer = "reset"
       THEN Restart
       ELSE /\ nameidx' = 0
            /\ toBoard' = Tail(toBoard)
            /\ UNCHANGED <<bpc, device_name_buffer, device_name>>

\* Mutant of ConnectingNewline: the index stays behind the refused line.
ConnectingNewlineIndex ==
    /\ bpc = "connecting"
    /\ NewlinePending
    /\ PrintConnecting
    /\ IF device_name_buffer = "reset"
       THEN Restart
       ELSE /\ device_name_buffer' = "short"
            /\ toBoard' = Tail(toBoard)
            /\ UNCHANGED <<bpc, nameidx, device_name>>

ConnectingNewline ==
    /\ bpc = "connecting"
    /\ NewlinePending
    /\ PrintConnecting
    /\ IF device_name_buffer = "reset"
       THEN Restart
       ELSE /\ nameidx' = 0
            /\ device_name_buffer' = "short"
            /\ toBoard' = Tail(toBoard)
            /\ UNCHANGED <<bpc, device_name>>

\* steps 4 and 5: is_connected() is true and the three tasks are created
Connected ==
    /\ bpc = "connecting"
    /\ device_name \in Names
    /\ Say(<<Line("connected", device_name), Line("ready", "short"), Line("done", "short")>>)
    /\ bpc' = "tasks"
    /\ UNCHANGED <<device_name_buffer, nameidx, device_name, toBoard>>

\* the same, but a task cannot be created
TaskFailure ==
    /\ bpc = "connecting"
    /\ device_name \in Names
    /\ Say(<<Line("connected", device_name), Line("ready", "short"), Line("error", "short")>>)
    /\ Restart

\* reset_command_task stores every character at serial_buf[nameidx]; its own
\* index serialidx only counts.  With nameidx left at 0 the buffer ends as the
\* last character alone, otherwise its first character stays NUL.
\* Either way the text is at most one character long.
TaskBuffer(text) == "short"

TaskLine ==
    /\ bpc = "tasks"
    /\ toBoard # <<>>
    /\ IF TaskBuffer(Head(toBoard)) = "reset"
       THEN Restart
       ELSE toBoard' = Tail(toBoard) /\ UNCHANGED boardVars
    /\ UNCHANGED toIpod

\* What the firmware does of itself, and what the radio makes it do.
BoardRuns ==
    \/ Start
    \/ SearchChars
    \/ SearchNewline
    \/ ConnectingIdle
    \/ ConnectingChars
    \/ ConnectingNewline
    \/ TaskLine

BoardNext ==
    \/ BoardRuns
    \/ \E name \in Names : ScanResult(name)
    \/ Connected
    \/ TaskFailure
=============================================================================
