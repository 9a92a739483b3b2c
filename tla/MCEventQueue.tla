---------------------------- MODULE MCEventQueue ----------------------------
(***************************************************************************)
(* EventQueue with two kinds of messages and two threads that send.        *)
(***************************************************************************)
EXTENDS EventQueue

CONSTANTS on, off, s1, s2

\* The player's kernel with threads that send; without, removing messages behind
\* the head; the boot loader's kernel.
WithSenders == [length |-> 2, wrap |-> 4, pending |-> 2,
                extended |-> TRUE, sends |-> TRUE, deep |-> FALSE]
Unanswered == [length |-> 4, wrap |-> 8, pending |-> 4,
               extended |-> TRUE, sends |-> FALSE, deep |-> TRUE]
BootLoader == [length |-> 4, wrap |-> 8, pending |-> 4,
               extended |-> FALSE, sends |-> FALSE, deep |-> FALSE]
\* More is posted than the ring holds.
Overflowing == [WithSenders EXCEPT !.pending = 3]
AllBuilds == {WithSenders, Unanswered, BootLoader, Overflowing}
=============================================================================
