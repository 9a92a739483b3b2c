------------------------------- MODULE BtLink -------------------------------
(***************************************************************************)
(* The iPod and the board joined by the serial line, with what happens to  *)
(* them from outside: lost characters, power cycles of either side.        *)
(***************************************************************************)
EXTENDS Board, IpodBoot

CONSTANT MaxFaults      \* bound on what happens from outside
ASSUME FaultsAssumption == MaxFaults \in Nat

VARIABLES
    faults,     \* power cycles, reboots and damaged lines so far
    rebooted    \* the iPod has been started again

counters == <<faults, rebooted>>
link == <<toBoard, toIpod>>
vars == <<link, boardVars, ipodVars, counters>>

TypeOK ==
    /\ LinkTypeOK
    /\ BoardTypeOK
    /\ IpodTypeOK
    /\ faults \in 0..MaxFaults
    /\ rebooted \in BOOLEAN

Init ==
    /\ toBoard = <<>>
    /\ toIpod = <<>>
    /\ BoardInit
    /\ IpodInit
    /\ faults = 0 /\ rebooted = FALSE

Fault == faults < MaxFaults /\ faults' = faults + 1

BoardStep == BoardNext /\ UNCHANGED <<ipodVars, counters>>

IpodStep == IpodNext /\ UNCHANGED <<boardVars, counters>>

\* The display or the dev menu keeps the iPod away from its FIFO too long.
Overrun ==
    /\ Fault
    /\ ipc \in {"step3", "menu"}
    /\ \E i \in DOMAIN toIpod, p \in Parts : toIpod' = [toIpod EXCEPT ![i] = p]
    /\ UNCHANGED <<toBoard, boardVars, ipodVars, rebooted>>

\* The board's reset button, a brownout, an exception in its firmware.
PowerCycle ==
    /\ Fault
    /\ bpc # "boot"
    /\ Restart
    /\ UNCHANGED <<toIpod, ipodVars, rebooted>>

\* The iPod starts again: serial_setup() empties its FIFO.
Reboot ==
    /\ Fault
    /\ ipc # "step1"
    /\ ipc' = "step1"
    /\ devices' = {}
    /\ selected_dev' = NoDevice
    /\ portOpen' = TRUE
    /\ toIpod' \in {<<>>} \cup {<<p>> : p \in Parts}
    /\ rebooted' = TRUE
    /\ UNCHANGED <<toBoard, boardVars>>

Next == BoardStep \/ IpodStep \/ Overrun \/ PowerCycle \/ Reboot

Spec == Init /\ [][Next]_vars

\* Both processors keep running their loops.  Nothing is assumed of the user,
\* of the radio (scan results, connections) or of the environment.
Fairness ==
    /\ WF_vars(BoardRuns /\ UNCHANGED <<ipodVars, counters>>)
    /\ WF_vars(IpodRuns /\ UNCHANGED <<boardVars, counters>>)

FairSpec == Spec /\ Fairness

-----------------------------------------------------------------------------
\* As long as the iPod does not start over, the only device name that ever
\* reaches the board, in a line, in its buffer, as the name it connects to and
\* as the device of a "connected" line, is the one the user has chosen (main,
\* steps 1 to 5; setup, steps 2 and 3).
Chosen == {t \in Names : t = selected_dev /\ ipc \in {"step5", "step6", "of"}}
Expected == OtherTexts \cup Chosen
ExpectedLines == {l \in Lines : l.kind = "connected" => l.name \in Chosen}
OnlyChosenSent ==
    ~rebooted =>
        /\ toBoard \in Seq(Expected)
        /\ device_name_buffer \in Expected
        /\ device_name \in Expected
        /\ toIpod \in Seq(ExpectedLines)

\* An iPod that takes "connected" for its answer has the board connected to
\* the very device the user chose: no line of an earlier exchange, of a board
\* that restarted or of a damaged name is taken for it, unless the iPod has been
\* started again meanwhile (main, steps 4 and 5).
ConnectedToSelected ==
    [][ipc = "step5" /\ ipc' = "step6" /\ ~rebooted
        => NextLine.name = selected_dev]_vars

\* Once the iPod waits for the board it gets its list of devices, whatever the
\* board was doing, unless the board is past setup() (main, step 2; setup).
AwaitEnds == ipc = "step2" ~> ipc # "step2" \/ bpc = "tasks"

\* A user who keeps sending "reset" from the dev menu, each time the board has
\* read what was sent before, gets the board out of a hopeless connection attempt, stale buffer or not (setup, step 3).
ResetRecovers ==
    []<><<MenuReset /\ portOpen /\ toBoard = <<>>>>_vars =>
        (bpc = "connecting" ~> bpc # "connecting")

\* README.md of ipod-software, Protocol: "the ESP32 should always respond to
\* `reset`".  A whole "reset" line read by the board restarts it.
AlwaysResponds ==
    [][bpc = "tasks" /\ TaskLine /\ Head(toBoard) = "reset" => bpc' = "boot"]_vars
=============================================================================
