----------------------------- MODULE SerialLink -----------------------------
(***************************************************************************)
(* The 9600 baud serial line between the iPod and the Bluetooth board,     *)
(* seen a line of text at a time.  A text is one of the advertised device  *)
(* names or the class of every other text the two programs tell apart.     *)
(***************************************************************************)
EXTENDS Naturals, Sequences

CONSTANTS
    Names,        \* the names remote devices advertise (two characters or more)
    LongNames,    \* those longer than the five characters of "reset"
    ResetNames,   \* those that begin with "reset"
    MaxToBoard,   \* lines the board's receive ring holds
    MaxToIpod     \* bound on the lines in flight to the iPod

\* "reset" stands for itself, "short" for a text of at most one character
\* (strlen <= 1) and "junk" for every longer text that is neither a name nor
\* "reset".
OtherTexts == {"short", "reset", "junk"}
Texts == Names \cup OtherTexts

ASSUME TextsAssumption ==
    /\ Names \cap OtherTexts = {}
    /\ LongNames \subseteq Names
    /\ ResetNames \subseteq LongNames
ASSUME RingAssumption ==
    /\ MaxToBoard \in Nat \ {0}
    /\ MaxToIpod \in Nat \ {0}

\* The most lines the board prints at once (steps 4 and 5 of setup).
LongestBurst == 3
MaxInFlight == MaxToIpod + LongestBurst

VARIABLES
    toBoard,      \* texts of the lines written by the iPod, oldest first
    toIpod,       \* lines written by the board, oldest first
    portOpen,     \* the iPod's UART is set up, see serial_setup and serial_stop
    ipc           \* where the iPod's main() is: "step1" .. "step6", "menu", "of"

\* What the board prints, with the text it puts in the line.  "connected" is
\* printed without a name: name records the device the board is connected to.
\* "part" is a line that has lost characters.
LineKinds == {"blank", "starting", "device", "connecting", "connected",
              "ready", "done", "error", "part"}
Lines == [kind : LineKinds, name : Texts]
Line(kind, name) == [kind |-> kind, name |-> name]

\* strncmp(text, "reset", 5) == 0
StartsWithReset(text) == text = "reset" \/ text \in ResetNames

\* The text the iPod finds eight characters into a line: it strips the
\* prefix "device: " without looking at it.
\* "connecti|ng to x", "connecte|d", "I2S read|y", "Done", "error ma|king..."
Chop(line) ==
    CASE line.kind = "device" -> line.name
      [] line.kind \in {"connecting", "error"} -> "junk"
      [] line.kind = "part" -> line.name
      [] OTHER -> "short"

\* A line some of whose characters were lost.
Parts == {Line("part", t) : t \in {"short", "junk"}}

\* The iPod sits in a loop that empties its FIFO faster than the line fills it.
Listening == portOpen /\ ipc \in {"step2", "step3", "step5"}

\* The port has no flow control: what does not fit in the FIFO is lost.  An
\* iPod that listens loses nothing: it reads faster than the line brings, and
\* MaxToIpod only bounds what is in flight (a longer burst finds the line empty).
Say(lines) ==
    LET room == MaxToIpod - Len(toIpod) IN
    IF ~portOpen THEN UNCHANGED toIpod
    ELSE IF Listening
    THEN /\ toIpod = <<>> \/ Len(lines) <= room
         /\ toIpod' = toIpod \o lines
    ELSE toIpod' = toIpod \o (IF Len(lines) <= room THEN lines ELSE SubSeq(lines, 1, room))

\* What is left of the queue when the receiver starts listening at an
\* arbitrary moment: a suffix, whose first line may have lost its head.
Heard(queue, remains) ==
    LET suffixes == {SubSeq(queue, i, Len(queue)) : i \in 1..(Len(queue) + 1)}
    IN  suffixes \cup
        {[s EXCEPT ![1] = r] : s \in suffixes \ {<<>>}, r \in remains}

LinkTypeOK ==
    /\ toBoard \in Seq(Texts) /\ Len(toBoard) <= MaxToBoard
    /\ toIpod \in Seq(Lines) /\ Len(toIpod) <= MaxInFlight
    /\ portOpen \in BOOLEAN
    /\ ipc \in {"step1", "step2", "step3", "menu", "step4", "step5", "step6", "of"}
=============================================================================
