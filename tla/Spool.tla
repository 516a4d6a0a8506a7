------------------------------- MODULE Spool -------------------------------
(***************************************************************************)
(* The agent's disk spool of unsent reports and its loss ledger            *)
(* (internal/agent/spool/spool.go, loss.go), driven by the report loop     *)
(* (internal/agent/runtime/runtime.go, tick and drain).                    *)
(*                                                                         *)
(* A report is its sequence number: the loop pushes each identity once, so *)
(* number order is the mtime order trimLocked sorts by.  Every record has  *)
(* size one, so MaxItems is SpoolMaxBytes.  A disk call ends "ok",         *)
(* "before" (error, nothing changed) or, for AtomicWrite, "after": the     *)
(* rename happened and the directory sync failed, so the caller sees an    *)
(* error although the new file is visible.  A power failure may undo any   *)
(* directory change that no sync has covered yet (limbo, stable).          *)
(***************************************************************************)
EXTENDS Naturals, FiniteSets

CONSTANTS
  N,           \* number of reports pushed in a behaviour (bound)
  MaxItems,    \* SpoolMaxBytes, in records
  BatchLimit,  \* lossBatchLimit
  ListMax,     \* the limit drain passes to ListLimit
  MaxDropped,  \* the largest value of the int64 loss counter
  MaxFaults,   \* disk errors in a behaviour (bound)
  MaxCrashes   \* power failures in a behaviour (bound)

ASSUME SpoolConstants ==
  /\ N \in Nat /\ MaxItems \in Nat /\ MaxDropped \in Nat
  /\ BatchLimit \in Nat \ {0} /\ ListMax \in Nat \ {0}
  /\ MaxFaults \in Nat /\ MaxCrashes \in Nat

Reports == 1 .. N

VARIABLES
  files,    \* record files visible in the spool directory
  limbo,    \* records whose last directory change is not synced
  ledger,   \* the loss ledger file: [dropped, pending]
  stable,   \* the ledger a power failure may bring back
  mem,      \* the Store's fields dropped and pendingLoss
  pc,       \* where the process is inside the Store's mutex
  todo,     \* finishLossLocked: pending paths not looked at yet
  retiring, \* trimLocked: records still to be retired
  op,       \* the operation the process is in: "open", "push" or "list"
  ret,      \* where finishLossLocked returns to
  items,    \* drain: listed reports not yet sent
  horizon,  \* every record up to it is older than SpoolMaxAge
  next,     \* last sequence number used
  saved,    \* history: reports whose record was written durably
  acked,    \* history: reports the controller has committed
  lost,     \* history: reports retired by retention
  faults, crashes

disk == <<files, limbo, ledger, stable>>
work == <<mem, pc, todo, retiring, op, ret, items>>
hist == <<next, saved, acked, lost>>
vars == <<disk, work, horizon, hist, faults, crashes>>

NoLoss == [dropped |-> 0, pending |-> {}]
Ledgers == [dropped : 0 .. MaxDropped, pending : SUBSET Reports]

\* The k oldest records of S.
Oldest(S, k) == {r \in S : Cardinality({x \in S : x < r}) < k}

Init ==
  /\ files = {} /\ limbo = {} /\ ledger = NoLoss /\ stable = NoLoss
  /\ mem = NoLoss /\ pc = "down" /\ todo = {} /\ retiring = {}
  /\ op = "open" /\ ret = "idle" /\ items = {}
  /\ horizon = 0 /\ next = 0 /\ saved = {} /\ acked = {} /\ lost = {}
  /\ faults = 0 /\ crashes = 0

----------------------------------------------------------------------------
(* Disk outcomes *)

Ok == UNCHANGED faults
Fault == faults < MaxFaults /\ faults' = faults + 1

\* AtomicWrite of the ledger: temporary file, sync, rename, directory sync.
LedgerOk(v)     == Ok    /\ ledger' = v /\ stable' = v
LedgerBefore    == Fault /\ UNCHANGED <<ledger, stable>>
LedgerAfter(v)  == Fault /\ ledger' = v /\ UNCHANGED stable

\* A failing call ends the operation; Open's failure ends the process.
Abort ==
  /\ pc' = IF op = "open" THEN "down" ELSE "idle"
  /\ mem' = IF op = "open" THEN NoLoss ELSE mem
  /\ todo' = {} /\ retiring' = {} /\ items' = {}
  /\ UNCHANGED <<op, ret>>

----------------------------------------------------------------------------
(* Open and finishLossLocked *)

\* Enter finishLossLocked: nothing to do when no retirement is pending.
EnterFinish(pending, return) ==
  /\ todo' = pending /\ ret' = return
  /\ pc' = IF pending # {} THEN "remove" ELSE return

Open ==
  /\ pc = "down"
  /\ op' = "open"
  /\ mem' = ledger
  /\ EnterFinish(ledger.pending, "idle")
  /\ UNCHANGED <<disk, retiring, items, horizon, hist, faults, crashes>>

\* One pending path: a missing file is skipped, a present one is removed.
RemovePending(r) ==
  /\ pc = "remove" /\ r \in todo
  /\ \/ /\ Ok
        /\ files' = files \ {r}
        /\ limbo' = IF r \in files THEN limbo \cup {r} ELSE limbo
        /\ lost' = lost \cup {r}
        /\ todo' = todo \ {r}
        /\ UNCHANGED <<mem, pc, retiring, op, ret, items>>
     \/ /\ Fault /\ r \in files
        /\ Abort /\ UNCHANGED <<files, limbo, lost>>
  /\ UNCHANGED <<ledger, stable, horizon, next, saved, acked, crashes>>

\* Mutant of SyncDeletions: the list is cleared without syncing the directory.
SyncDeletionsSkipped ==
  /\ pc = "remove" /\ todo = {}
  /\ pc' = "clear"
  /\ UNCHANGED <<disk, mem, todo, retiring, op, ret, items, horizon, hist, faults,
                 crashes>>

\* syncLossDirectory orders the deletions before the ledger is cleared.
SyncDeletions ==
  /\ pc = "remove" /\ todo = {}
  /\ \/ /\ Ok /\ limbo' = {} /\ pc' = "clear"
        /\ UNCHANGED <<mem, todo, retiring, op, ret, items>>
     \/ Fault /\ Abort /\ UNCHANGED limbo
  /\ UNCHANGED <<files, ledger, stable, horizon, hist, crashes>>

\* The ledger is saved without its pending list.
ClearPending ==
  /\ pc = "clear"
  /\ LET v == [mem EXCEPT !.pending = {}] IN
     \/ /\ LedgerOk(v) /\ mem' = v /\ pc' = ret
        /\ UNCHANGED <<todo, retiring, op, ret, items>>
     \/ (LedgerBefore \/ LedgerAfter(v)) /\ Abort
  /\ UNCHANGED <<files, limbo, horizon, hist, crashes>>

----------------------------------------------------------------------------
(* Push and ListLimit: both run trimLocked *)

\* The live report with the next sequence number was not acknowledged (its
\* commit may still have happened): it is written to the spool.
Push ==
  /\ pc = "idle" /\ next < N
  /\ op' = "push" /\ next' = next + 1
  /\ acked' \in {acked, acked \cup {next + 1}}
  /\ \/ /\ Ok /\ files' = files \cup {next + 1} /\ limbo' = {}
        /\ saved' = saved \cup {next + 1}
        /\ EnterFinish(mem.pending, "trim")
     \/ /\ Fault /\ UNCHANGED <<pc, todo, ret, saved>>
        /\ \/ UNCHANGED <<files, limbo>>
           \/ files' = files \cup {next + 1} /\ limbo' = limbo \cup {next + 1}
  /\ UNCHANGED <<ledger, stable, mem, retiring, items, horizon, lost, crashes>>

\* Mutant of List: the records are listed before retention has run.
ListUntrimmed ==
  /\ pc = "idle"
  /\ op' = "list" /\ pc' = "drain" /\ items' = Oldest(files, ListMax)
  /\ UNCHANGED <<disk, mem, todo, retiring, ret, horizon, hist, faults, crashes>>

\* The live report was acknowledged: drain lists the oldest records.
List ==
  /\ pc = "idle"
  /\ op' = "list"
  /\ EnterFinish(mem.pending, "trim")
  /\ UNCHANGED <<disk, mem, retiring, items, horizon, hist, faults, crashes>>

\* trimLocked: walking from the oldest, a record is retired while the rest
\* exceeds the byte budget or the record is past the age cut.
Retirable ==
  {r \in files : r <= horizon \/ Cardinality({x \in files : x >= r}) > MaxItems}

Trim ==
  /\ pc = "trim"
  /\ pc' = "retire" /\ retiring' = Retirable
  /\ UNCHANGED <<disk, mem, todo, op, ret, items, horizon, hist, faults, crashes>>

\* Mutant of Retire: the counter is not checked for exhaustion.
RetireUnchecked ==
  /\ pc = "retire" /\ retiring # {}
  /\ LET batch == Oldest(retiring, BatchLimit)
         v == [dropped |-> mem.dropped + Cardinality(batch), pending |-> batch]
     IN LedgerOk(v) /\ mem' = v /\ EnterFinish(batch, "retire")
        /\ retiring' = retiring \ batch
  /\ UNCHANGED <<files, limbo, op, items, horizon, hist, crashes>>

\* retireLossLocked: the decision is durable before any file is removed.  The
\* counter never wraps; an exhausted one fails the operation.
Retire ==
  /\ pc = "retire" /\ retiring # {}
  /\ LET batch == Oldest(retiring, BatchLimit)
         v == [dropped |-> mem.dropped + Cardinality(batch), pending |-> batch]
     IN
     \/ /\ v.dropped <= MaxDropped
        /\ LedgerOk(v) /\ mem' = v
        /\ EnterFinish(batch, "retire")
        /\ retiring' = retiring \ batch
        /\ UNCHANGED <<op, items>>
     \/ /\ v.dropped <= MaxDropped
        /\ (LedgerBefore \/ LedgerAfter(v)) /\ Abort
     \/ /\ v.dropped > MaxDropped
        /\ Ok /\ Abort /\ UNCHANGED <<ledger, stable>>
  /\ UNCHANGED <<files, limbo, horizon, hist, crashes>>

\* Everything due is retired: Push returns, ListLimit returns the oldest.
Trimmed ==
  /\ pc = "retire" /\ retiring = {}
  /\ IF op = "list"
     THEN pc' = "drain" /\ items' = Oldest(files, ListMax)
     ELSE pc' = "idle" /\ UNCHANGED items
  /\ UNCHANGED <<disk, mem, todo, retiring, op, ret, horizon, hist, faults,
                 crashes>>

----------------------------------------------------------------------------
(* drain: send the oldest listed record, then drop it *)

First(S) == CHOOSE r \in S : \A x \in S : r <= x

\* Mutant of Send: the record is dropped without waiting for the answer.
SendAndForget ==
  /\ pc = "drain" /\ items # {}
  /\ acked' \in {acked, acked \cup {First(items)}} /\ pc' = "drop"
  /\ UNCHANGED <<disk, mem, todo, retiring, op, ret, items, horizon, next, saved,
                 lost, faults, crashes>>

Send ==
  /\ pc = "drain" /\ items # {}
  /\ \/ acked' = acked \cup {First(items)} /\ pc' = "drop" /\ UNCHANGED items
     \/ \* no acknowledgement arrived; the commit may have happened
        /\ acked' \in {acked, acked \cup {First(items)}}
        /\ pc' = "idle" /\ items' = {}
  /\ UNCHANGED <<disk, mem, todo, retiring, op, ret, horizon, next, saved, lost,
                 faults, crashes>>

\* Mutant of DropReport: a failing removal is taken for a success.
DropReportIgnored ==
  /\ pc = "drop"
  /\ items' = items \ {First(items)} /\ pc' = "drain"
  /\ UNCHANGED <<disk, mem, todo, retiring, op, ret, horizon, hist, faults, crashes>>

DropReport ==
  /\ pc = "drop"
  /\ LET r == First(items) IN
     \/ /\ Ok /\ files' = files \ {r} /\ limbo' = limbo \cup {r}
        /\ items' = items \ {r} /\ pc' = "drain"
        /\ UNCHANGED <<mem, todo, retiring, op, ret>>
     \/ Fault /\ Abort /\ UNCHANGED <<files, limbo>>
  /\ UNCHANGED <<ledger, stable, horizon, hist, crashes>>

Drained ==
  /\ pc = "drain" /\ items = {}
  /\ pc' = "idle"
  /\ UNCHANGED <<disk, mem, todo, retiring, op, ret, items, horizon, hist,
                 faults, crashes>>

----------------------------------------------------------------------------
(* Environment *)

Age ==
  /\ horizon < next
  /\ horizon' = horizon + 1
  /\ UNCHANGED <<disk, work, hist, faults, crashes>>

\* Power failure: unsynced directory changes survive or not.
Crash ==
  /\ pc # "down" /\ crashes < MaxCrashes
  /\ crashes' = crashes + 1
  /\ \E kept \in SUBSET limbo : files' = (files \ limbo) \cup kept
  /\ limbo' = {}
  /\ \E v \in {ledger, stable} : ledger' = v /\ stable' = v
  /\ mem' = NoLoss /\ pc' = "down" /\ op' = "open" /\ ret' = "idle"
  /\ todo' = {} /\ retiring' = {} /\ items' = {}
  /\ UNCHANGED <<horizon, hist, faults>>

Step ==
  \/ Open \/ (\E r \in Reports : RemovePending(r)) \/ SyncDeletions
  \/ ClearPending \/ List \/ Trim \/ Retire \/ Trimmed
  \/ Send \/ DropReport \/ Drained

Next == Step \/ Push \/ Age \/ Crash

Spec == Init /\ [][Next]_vars

\* The report loop never stops while the process is up, the service host
\* restarts it, and some later tick reaches the controller.
Delivered == Send /\ pc' = "drop"
FairSpec == Spec /\ WF_vars(Step) /\ SF_vars(Delivered)

----------------------------------------------------------------------------
(* Properties *)

\* The files, the ledger's versions and the Store's fields have the values the
\* code gives them; the int64 loss counter never passes the end of its range.
TypeOK ==
  /\ files \subseteq Reports /\ limbo \subseteq Reports
  /\ ledger \in Ledgers /\ stable \in Ledgers /\ mem \in Ledgers
  /\ pc \in {"down", "idle", "remove", "clear", "trim", "retire", "drain", "drop"}
  /\ todo \subseteq Reports /\ retiring \subseteq Reports
  /\ op \in {"open", "push", "list"} /\ ret \in {"idle", "trim", "retire"}
  /\ items \subseteq Reports
  /\ horizon \in 0 .. N /\ next \in 0 .. N
  /\ saved \subseteq Reports /\ acked \subseteq Reports
  /\ lost \subseteq Reports
  /\ faults \in 0 .. MaxFaults /\ crashes \in 0 .. MaxCrashes

\* The durable loss counter counts every record retention has removed or has
\* durably decided to remove exactly once, whatever fails or crashes between
\* retireLossLocked's save, the removals and the save that clears the list.
LossCountedOnce ==
  \A v \in {ledger, stable} : v.dropped = Cardinality(lost \cup v.pending)

\* A report whose record was written is still on disk, was committed by the
\* controller, or was removed by retention (and so is counted, by the above).
NoSilentLoss == saved \subseteq files \cup acked \cup lost

\* A record counted as lost is never in a drain's batch: the count would then
\* report as missing an observation the controller is about to receive.
LostNeverSent ==
  pc \in {"drain", "drop"} => items \cap (lost \cup ledger.pending) = {}

\* The next batch of retireLossLocked would overflow the counter.
Exhausted == mem.dropped + Cardinality(Oldest(Retirable, BatchLimit)) > MaxDropped

\* Every written record eventually leaves the spool, delivered or counted:
\* neither a failing disk nor a power failure leaves drain stuck behind a
\* record for ever.  Only an exhausted loss counter, which ListLimit reports as
\* an error, may hold records back.
SpoolDrains == \A r \in Reports : (r \in files) ~> (r \notin files \/ Exhausted)

\* The loss ledger is exact: each retired record is counted once, in memory and
\* on disk, whatever fails or crashes, and nothing counted as lost is sent
\* (retireLossLocked, finishLossLocked, ListLimit).
LedgerExact == TypeOK /\ LossCountedOnce /\ LostNeverSent
=============================================================================
