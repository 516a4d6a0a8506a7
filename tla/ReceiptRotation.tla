--------------------------- MODULE ReceiptRotation ---------------------------
(***************************************************************************)
(* Which receipts a report carries (receiptBatchLocked in                  *)
(* internal/agent/runtime/receipt_journal.go): at most BatchLimit, in the  *)
(* cyclic order of the identifiers, starting behind a cursor that moves to *)
(* the last one carried.  Identifiers are numbers, ordered as the strings  *)
(* are; the cursor of a new process is below all of them.                  *)
(***************************************************************************)
EXTENDS Naturals, FiniteSets

CONSTANT BatchLimit

ASSUME BatchLimitAssumption == BatchLimit \in Nat \ {0}

\* Behind the cursor c, k comes before i.
Ahead(c, i, k) == IF (i > c) = (k > c) THEN k < i ELSE k > c

BatchFromStart(H, c) ==
    {i \in H : Cardinality({k \in H : k < i}) < BatchLimit}

Batch(H, c) ==
    {i \in H : Cardinality({k \in H : Ahead(c, i, k)}) < BatchLimit}

NextCursor(H, c) ==
    IF H = {} THEN c
    ELSE CHOOSE i \in Batch(H, c) : \A k \in Batch(H, c) \ {i} : Ahead(c, i, k)

=============================================================================
