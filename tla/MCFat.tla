-------------------------------- MODULE MCFat --------------------------------
\* The file system on a volume of four clusters whose table has two sectors.
EXTENDS Fat

CONSTANTS x, y, thread1, thread2

Symmetry == Permutations({thread1, thread2})
MCBindings == 1..2
MCBreakable == {Info, Dir} \cup FatSectors
Slot(n, first, size) == [name |-> n, first |-> first, size |-> size]
MCImages ==
    {[table |-> (2 :> 4) @@ (3 :> EndMark) @@ (4 :> EndMark) @@ (5 :> None),
      slots |-> (0 :> Slot(x, 2, 2)) @@ (1 :> Slot(y, 3, 1)) @@ (2 :> FreeSlot)]}
Budget(calls, loans, faults) == [calls |-> calls, loans |-> loans, faults |-> faults]
MCBudgets == {Budget(3, 0, 1), Budget(2, 1, 0), Budget(1, 0, 2)}
==============================================================================
