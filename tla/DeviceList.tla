----------------------------- MODULE DeviceList -----------------------------
(***************************************************************************)
(* Step 3 of the boot loader: the list of devices the board reports, the   *)
(* buttons that move the highlight and choose, and the menu behind the     *)
(* MENU button.  One turn of the loop takes the lines that have arrived,   *)
(* looks at the buttons once and draws; buttons change at any time.        *)
(* What BtLink has under the same name is called List... here: one module, *)
(* BootProofs, extends the two.                                            *)
(***************************************************************************)
EXTENDS Naturals, Sequences, SequencesExt, FiniteSetsExt

CONSTANTS
    Chars,
    Reports,        \* what lines hold behind their eighth character
    MaxDevices,     \* MAX_DEVICES
    NameSize        \* MAX_DEVICE_NAME
ASSUME ReportsAssumption == Reports \subseteq Seq(Chars)
ASSUME SizeAssumption == MaxDevices \in Nat \ {0} /\ NameSize \in Nat \ {0}

VARIABLES
    pc,             \* "rx", "draw", in dev_menu "menu", or "step4"
    rows,           \* devices[0..ndevices-1]: the bytes before the first NUL
    focus,          \* the highlighted entry, from 0
    update,         \* update_devices
    selected,       \* entries selected: {} or one
    last,           \* last_button
    menuFocus,      \* dev_menu's own focus
    open,           \* the UART is set up
    button,         \* button_status()
    used,           \* the button that is held has had its effect
    screen,         \* what the display shows: the list, the menu or nothing
    drawn           \* the entry highlighted when the list was drawn last

loopVars == <<rows, focus, update, selected, open>>
userVars == <<button, used>>
listVars == <<pc, loopVars, last, menuFocus, userVars, screen, drawn>>

Buttons == {"none", "left", "right", "select", "menu"}

\* A row takes NameSize bytes of a name, and what is behind them is lost.
Stored(dev) == SubSeq(dev, 1, Min({NameSize, Len(dev)}))

ListTypeOK ==
    /\ pc \in {"rx", "draw", "menu", "step4"}
    /\ rows \in Seq({Stored(r) : r \in Reports})
    /\ Len(rows) <= MaxDevices
    /\ focus \in 0..(MaxDevices - 1) /\ drawn \in 0..(MaxDevices - 1)
    /\ update \in BOOLEAN /\ open \in BOOLEAN /\ used \in BOOLEAN
    /\ selected \subseteq 0..(MaxDevices - 1)
    /\ last \in Buttons /\ button \in Buttons
    /\ menuFocus \in 0..3
    /\ screen \in {"list", "menu", "blank"}

ListInit ==
    /\ pc = "rx"
    /\ rows = <<>>
    /\ focus = 0 /\ drawn = 0 /\ menuFocus = 0
    /\ update = TRUE
    /\ selected = {}
    /\ last = "none" /\ button = "none"
    /\ open = TRUE
    /\ used = FALSE
    /\ screen = "blank"

\* The C string at devices[i - 1]: a row without room for its NUL runs on into
\* the next one.  What lies behind the array is taken to be zero.
RunsOn[i \in 1..(MaxDevices + 1)] ==
    IF i > Len(rows) THEN <<>>
    ELSE rows[i] \o (IF Len(rows[i]) < NameSize THEN <<>> ELSE RunsOn[i + 1])
Text(i) == IF i <= Len(rows) /\ Len(rows[i]) < NameSize THEN rows[i] ELSE RunsOn[i]

\* Mutant of Receive: rows are compared by their address.
ReceiveAgain(dev) ==
    /\ pc = "rx" /\ open
    /\ Len(rows) # MaxDevices
    /\ rows' = Append(rows, Stored(dev))
    /\ update' = TRUE
    /\ UNCHANGED <<pc, focus, selected, open, last, menuFocus, userVars, screen, drawn>>

\* A line ends.  It is listed unless it is there already or the list is full.
Receive(dev) ==
    /\ pc = "rx" /\ open
    /\ \A i \in 1..Len(rows) : Text(i) # dev
    /\ Len(rows) # MaxDevices
    /\ rows' = Append(rows, Stored(dev))
    /\ update' = TRUE
    /\ UNCHANGED <<pc, focus, selected, open, last, menuFocus, userVars, screen, drawn>>

\* What is held when the loop looks at the buttons.
Looks(b) ==
    /\ pc = "rx" /\ button = b
    /\ last' = b
    /\ UNCHANGED <<rows, open, menuFocus, button, screen, drawn>>

\* Mutant of Moves: the list is not drawn again.
MovesUnseen(f) ==
    /\ focus' = f
    /\ used' = (used \/ f # focus)
    /\ pc' = "draw"
    /\ UNCHANGED <<selected, update>>

Moves(f) ==
    /\ focus' = f
    /\ used' = (used \/ f # focus)
    /\ update' = TRUE
    /\ pc' = "draw"
    /\ UNCHANGED selected

Left == Looks("left") /\ Moves(IF focus > 0 /\ last # "left" THEN focus - 1 ELSE focus)

\* Mutant of Right: every turn of the loop moves.
RightRuns == Looks("right") /\ Moves(IF focus + 1 < Len(rows) THEN focus + 1 ELSE focus)

Right ==
    Looks("right") /\ Moves(IF focus + 1 < Len(rows) /\ last # "right" THEN focus + 1 ELSE focus)

Select ==
    /\ Looks("select")
    /\ IF last # "select" /\ Len(Text(focus + 1)) > 1
       THEN selected' = {focus} /\ pc' = "step4" /\ used' = TRUE
       ELSE pc' = "draw" /\ UNCHANGED <<selected, used>>
    /\ UNCHANGED <<focus, update>>

NoButton ==
    /\ Looks("none")
    /\ pc' = "draw"
    /\ UNCHANGED <<focus, update, selected, used>>

\* The list is drawn when something has changed.
Draw ==
    /\ pc = "draw"
    /\ pc' = "rx"
    /\ IF update
       THEN screen' = "list" /\ drawn' = focus /\ update' = FALSE
       ELSE UNCHANGED <<screen, drawn, update>>
    /\ UNCHANGED <<rows, focus, selected, open, last, menuFocus, userVars>>
-----------------------------------------------------------------------------
EnterMenu ==
    /\ pc = "rx" /\ button = "menu"
    /\ pc' = "menu"
    /\ menuFocus' = 0
    /\ screen' = "menu"
    /\ UNCHANGED <<loopVars, last, userVars, drawn>>

InMenu(b) == pc = "menu" /\ button = b /\ UNCHANGED <<rows, focus, update, selected, drawn>>

MenuMoves(b, f) ==
    /\ InMenu(b)
    /\ menuFocus' = f
    /\ used' = (used \/ f # menuFocus)
    /\ last' = b
    /\ UNCHANGED <<pc, open, button, screen>>

MenuLeft ==
    MenuMoves("left", IF menuFocus > 0 /\ last # "left" THEN menuFocus - 1 ELSE menuFocus)
MenuRight ==
    MenuMoves("right", IF menuFocus < 3 /\ last # "right" THEN menuFocus + 1 ELSE menuFocus)
MenuNoButton == MenuMoves("none", menuFocus)
MenuSelectHeld == last = "select" /\ MenuMoves("select", menuFocus)

\* dev_menu returns, and the switch of the loop falls through to its default.
MenuReturns ==
    /\ screen' = "blank"
    /\ last' = "none"
    /\ pc' = "draw"
    /\ UNCHANGED <<menuFocus, button>>

\* "Back", "Send Reset Command", "Turn Off Serial", "Turn On Serial"
MenuSelect ==
    /\ InMenu("select") /\ last # "select"
    /\ open' = CASE menuFocus = 2 -> FALSE
                 [] menuFocus = 3 -> TRUE
                 [] OTHER -> open
    /\ used' = TRUE
    /\ MenuReturns

MenuExit == InMenu("menu") /\ MenuReturns /\ UNCHANGED <<open, used>>

\* The user presses a button or lets it go.
ChangeButton(b) ==
    /\ b # button
    /\ button' = b
    /\ used' = FALSE
    /\ UNCHANGED <<pc, loopVars, last, menuFocus, screen, drawn>>

ListNext ==
    \/ \E dev \in Reports : Receive(dev)
    \/ Left \/ Right \/ Select \/ NoButton \/ EnterMenu \/ Draw
    \/ MenuLeft \/ MenuRight \/ MenuNoButton \/ MenuSelectHeld \/ MenuSelect \/ MenuExit
    \/ \E b \in Buttons : ChangeButton(b)

ListSpec == ListInit /\ [][ListNext]_listVars
-----------------------------------------------------------------------------
\* The highlight is on an entry as soon as there is one.
FocusInRange == focus = 0 \/ focus < Len(rows)

\* What is chosen is what was highlighted when the list was drawn last, whatever
\* arrived or moved since.
ChoosesHighlighted == selected \subseteq {drawn}

\* One press of LEFT or RIGHT moves a highlight by one entry, however long it is
\* held, in the list and in the menu.  SELECT is left out: one that leaves the
\* menu and is still held chooses as well (default, line 447).
PressMovesOnce ==
    [][used /\ button \in {"left", "right"} => UNCHANGED <<focus, menuFocus>>]_listVars

\* "We add them to the set": no device is listed twice, names that fill their row
\* excepted (they lack the end that strcmp looks for).
ListIsASet ==
    \A i, j \in 1..Len(rows) : rows[i] = rows[j] /\ Len(rows[i]) < NameSize => i = j

\* The list is well formed whatever the board reports and the user presses: its
\* rows are a set and the highlight is on one of them (ipods5l-devel.c, step 3).
ListKept == ListTypeOK /\ FocusInRange /\ ListIsASet
=============================================================================
