------------------------------ MODULE IpodBoot ------------------------------
(***************************************************************************)
(* The serial protocol of the iPod's boot loader (ipods5l-devel.c, main    *)
(* from step 1): reset the board, collect device names, send the chosen    *)
(* one, wait for "connected", boot the iPod's own firmware.  The list and  *)
(* the buttons of step 3 are modelled in DeviceList; here the user may     *)
(* choose whatever has been listed.                                        *)
(***************************************************************************)
EXTENDS SerialLink

CONSTANT NoDevice     \* selected_dev == NULL
ASSUME NoDeviceAssumption == NoDevice \notin Texts

VARIABLES
    devices,          \* the listed texts of two characters or more
    selected_dev      \* the chosen one

ipodVars == <<ipc, devices, selected_dev, portOpen>>

IpodTypeOK ==
    /\ devices \subseteq Texts
    /\ selected_dev \in IF ipc \in {"step4", "step5", "step6", "of"}
                        THEN Texts ELSE {NoDevice}

IpodInit ==
    /\ ipc = "step1"
    /\ devices = {}
    /\ selected_dev = NoDevice
    /\ portOpen = TRUE

\* serial_write(text "\n"): a closed port shifts nothing out, and a line the
\* board's receive ring has no room for is lost.
WriteLine(text) ==
    toBoard' = IF portOpen /\ Len(toBoard) < MaxToBoard
               THEN Append(toBoard, text) ELSE toBoard

NextLine == Head(toIpod)
TakeLine == portOpen /\ toIpod # <<>> /\ toIpod' = Tail(toIpod)

\* step 1
SendReset ==
    /\ ipc = "step1"
    /\ WriteLine("reset")
    /\ devices' = {}
    /\ ipc' = "step2"
    /\ UNCHANGED <<selected_dev, portOpen, toIpod>>

\* step 2: block until a line arrives; anything but "starting" or a line of at
\* most one character is answered by another reset
AwaitStarting ==
    /\ ipc = "step2"
    /\ TakeLine
    /\ IF NextLine.kind = "starting"
       THEN ipc' = "step3" /\ devices' = {} /\ UNCHANGED toBoard
       ELSE /\ IF NextLine.kind = "blank" \/ NextLine = Line("part", "short")
               THEN UNCHANGED toBoard
               ELSE WriteLine("reset")
            /\ UNCHANGED <<ipc, devices>>
    /\ UNCHANGED <<selected_dev, portOpen>>

\* step 3: a line lists what follows its eighth character.  SELECT refuses an
\* entry of at most one character (strlen > 1): devices leaves those out.
ListDevice ==
    /\ ipc = "step3"
    /\ TakeLine
    /\ devices' = devices \cup ({Chop(NextLine)} \ {"short"})
    /\ UNCHANGED <<ipc, selected_dev, portOpen, toBoard>>

SelectDevice(dev) ==
    /\ ipc = "step3"
    /\ dev \in devices
    /\ selected_dev' = dev
    /\ ipc' = "step4"
    /\ UNCHANGED <<devices, portOpen, toBoard, toIpod>>

OpenMenu ==
    /\ ipc = "step3"
    /\ ipc' = "menu"
    /\ UNCHANGED <<devices, selected_dev, portOpen, toBoard, toIpod>>

LeaveMenu ==
    /\ ipc = "menu"
    /\ ipc' = "step3"
    /\ UNCHANGED <<devices, selected_dev>>

MenuBack == LeaveMenu /\ UNCHANGED <<portOpen, toBoard, toIpod>>
MenuReset == LeaveMenu /\ WriteLine("reset") /\ UNCHANGED <<portOpen, toIpod>>
MenuStop == LeaveMenu /\ portOpen' = FALSE /\ toIpod' = <<>> /\ UNCHANGED toBoard

\* serial_setup() resets the FIFOs, of an open port too
MenuSetup ==
    /\ LeaveMenu
    /\ portOpen' = TRUE
    /\ toIpod' \in {<<>>} \cup {<<p>> : p \in Parts}
    /\ UNCHANGED toBoard

\* Mutant of SendSelected: whatever is highlighted by now is sent.
SendHighlighted ==
    /\ ipc = "step4"
    /\ \E dev \in devices : WriteLine(dev)
    /\ ipc' = "step5"
    /\ UNCHANGED <<devices, selected_dev, portOpen, toIpod>>

\* step 4: serial_buf and the part of a line it holds are forgotten
SendSelected ==
    /\ ipc = "step4"
    /\ WriteLine(selected_dev)
    /\ toIpod' \in {toIpod} \cup
                   {[toIpod EXCEPT ![1] = p] : p \in IF toIpod = <<>> THEN {} ELSE Parts}
    /\ ipc' = "step5"
    /\ UNCHANGED <<devices, selected_dev, portOpen>>

\* step 5: block until "connected"
AwaitConnected ==
    /\ ipc = "step5"
    /\ TakeLine
    /\ ipc' = IF NextLine.kind = "connected" THEN "step6" ELSE "step5"
    /\ UNCHANGED <<devices, selected_dev, portOpen, toBoard>>

\* step 6: run_of(); the iPod's own firmware takes the port over
RunOf ==
    /\ ipc = "step6"
    /\ ipc' = "of"
    /\ portOpen' = FALSE
    /\ toIpod' = <<>>
    /\ UNCHANGED <<devices, selected_dev, toBoard>>

\* What the program does of itself, and what the user makes it do.
IpodRuns ==
    \/ SendReset
    \/ AwaitStarting
    \/ ListDevice
    \/ SendSelected
    \/ AwaitConnected
    \/ RunOf

IpodNext ==
    \/ IpodRuns
    \/ \E dev \in devices : SelectDevice(dev)
    \/ OpenMenu
    \/ MenuBack
    \/ MenuReset
    \/ MenuStop
    \/ MenuSetup
=============================================================================
