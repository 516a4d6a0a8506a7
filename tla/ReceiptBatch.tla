---------------------------- MODULE ReceiptBatch ----------------------------
(***************************************************************************)
(* The rotation of receipts at work: jobs are recorded while reports go    *)
(* out, acknowledged ones leave, and a new process starts with a fresh     *)
(* cursor (internal/agent/runtime: handleJob, tick, applyControl, Open).   *)
(***************************************************************************)
EXTENDS ReceiptRotation, SequencesExt

CONSTANTS Ids, MaxRestarts

ASSUME ReceiptBatchConstants ==
    /\ Ids \subseteq Nat \ {0} /\ IsFiniteSet(Ids)
    /\ MaxRestarts \in Nat

VARIABLES
    held,       \* identifiers in the journal
    cursor,     \* receiptCursor
    carried,    \* the receipts of the last report
    watched,    \* the receipt a behaviour is about
    restarts

receiptVars == <<held, cursor, carried, watched, restarts>>

ReceiptInit == held = {} /\ cursor = 0 /\ carried = {} /\ watched \in Ids /\ restarts = 0

Record(i) ==
    /\ held' = held \cup {i}
    /\ UNCHANGED <<cursor, carried, watched, restarts>>

SendBatchUnmoved ==
    /\ held # {}
    /\ carried' = Batch(held, cursor)
    /\ UNCHANGED <<held, cursor, watched, restarts>>

SendBatch ==
    /\ held # {}
    /\ carried' = Batch(held, cursor)
    /\ cursor' = NextCursor(held, cursor)
    /\ UNCHANGED <<held, watched, restarts>>

Acknowledge(i) ==
    /\ i \in carried
    /\ held' = held \ {i} /\ carried' = carried \ {i}
    /\ UNCHANGED <<cursor, watched, restarts>>

ReceiptRestart ==
    /\ restarts < MaxRestarts /\ restarts' = restarts + 1
    /\ cursor' = 0 /\ carried' = {}
    /\ UNCHANGED <<held, watched>>

ReceiptNext ==
    \/ \E i \in Ids \ held : Record(i)
    \/ SendBatch
    \/ \E i \in Ids : Acknowledge(i)
    \/ ReceiptRestart

\* The ticker of Run fires as long as the process lives.
ReceiptSpec == ReceiptInit /\ [][ReceiptNext]_receiptVars /\ WF_receiptVars(SendBatch)

-----------------------------------------------------------------------------
\* receiptBatchLocked as its loop computes it over the sorted identifiers: the
\* receipts it puts out, in order.
Sorted(H) == SetToSortSeq(H, LAMBDA a, b : a < b)
Loop(H, c) ==
    LET ids == Sorted(H)
        start == Cardinality({i \in H : i <= c})
        n == IF Len(ids) < BatchLimit THEN Len(ids) ELSE BatchLimit
    IN  [k \in 1 .. n |-> ids[((start + k - 1) % Len(ids)) + 1]]

\* In every state reached, the loop of receiptBatchLocked puts out exactly the
\* batch and leaves exactly the cursor that Batch and NextCursor describe.
LoopComputesBatch ==
    LET out == Loop(held, cursor)
    IN  /\ {out[k] : k \in DOMAIN out} = Batch(held, cursor)
        /\ held # {} => NextCursor(held, cursor) = out[Len(out)]

\* A receipt in the journal is carried by some later report, however many
\* others stay in the journal or keep coming: "A stable prefix of accepted jobs
\* must not starve a later completed receipt" (receiptBatchLocked).
EveryReceiptCarried == watched \in held ~> (watched \in carried \/ watched \notin held)

\* The loop rotates: it computes the reference batch, and so every receipt gets
\* its turn (receiptBatchLocked).
RotationCarries == []LoopComputesBatch /\ EveryReceiptCarried
=============================================================================
