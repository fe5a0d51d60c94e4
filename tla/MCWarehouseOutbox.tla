-------------------------- MODULE MCWarehouseOutbox --------------------------
(***************************************************************************)
(* A storeman with a delivery to receive, goods to put away and one to      *)
(* write off, and a server that can be at work on two copies at once.       *)
(***************************************************************************)
EXTENDS WarehouseOutbox

CONSTANTS receipt, putaway, writeOff, s1, s2

Day == {receipt, putaway, writeOff}
TwoSlots == {s1, s2}

DockAndShelf == {"dock", "shelf"}

Source ==
    [c \in Commands |-> CASE c = receipt -> "outside"
                          [] c = putaway -> "dock"
                          [] c = writeOff -> "shelf"]
Target ==
    [c \in Commands |-> CASE c = receipt -> "dock"
                          [] c = putaway -> "shelf"
                          [] c = writeOff -> "outside"]

\* Putaway and write-off read the rows before the transaction, a receipt reads
\* nothing it depends on.
LookFirst == Commands \ {receipt}

EmptyShop == [p \in DockAndShelf |-> 0]
=============================================================================
