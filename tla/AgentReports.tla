---------------------------- MODULE AgentReports ----------------------------
(***************************************************************************)
(* What the controller makes of an agent's reports (internal/storage/       *)
(* ingest.go, service_inventory.go, store.go; the agent's side is tick,     *)
(* send and drain of internal/agent/runtime/runtime.go).                    *)
(*                                                                         *)
(* A report is posted live once; if no acknowledgement comes it is spooled  *)
(* and replayed, marked as history, until one does.  The live request may   *)
(* arrive late all the same, so the controller can see one report twice and *)
(* two reports in either order.  The agent's clock may run ahead.  Raw data *)
(* and, later, the receipts that recognise duplicates are retired by age.   *)
(***************************************************************************)
EXTENDS Integers, FiniteSets

CONSTANTS
  Listeners,       \* listening endpoints known as services
  RawRetention,    \* how old an observation may be when it arrives
  ReceiptLife,     \* 2 * RawRetention in retainRaw
  MaxAhead,        \* how far in the future an observation may lie
  AbsenceGrace,    \* serviceAbsenceGrace
  InventoryMaxAge,
  ReportPlans      \* each: does the agent scan, how far is its clock ahead, and
                   \* bounds on reports made, messages lost and the clock

\* retainRaw keeps receipts twice as long as raw data, and the five minutes an
\* observation may lie ahead are far less than that.
ASSUME ReportConstants ==
  /\ {RawRetention, ReceiptLife, MaxAhead, AbsenceGrace, InventoryMaxAge} \subseteq Nat
  /\ ReceiptLife >= RawRetention + MaxAhead
  /\ ReportPlans \subseteq [scans : BOOLEAN, ahead : Nat, reports : Nat, losses : Nat, time : Nat]

VARIABLES
  now,             \* the controller's clock
  plan,            \* the member of ReportPlans in force
  sessionID,       \* a.Session: the agent's present session
  made,            \* reports made so far
  mail,            \* requests under way: a report, and whether it is live
  spooled,         \* reports without an acknowledgement
  losses,
  receipts,        \* ingest_receipts: report and arrival time
  rows,            \* reports whose sample was inserted
  current,         \* agents.session_id and last_seq, as the report they name
  checkpoint,      \* discovery_checkpoints.started_at
  presence,        \* service_presence
  doubled,         \* history: some sample was inserted twice
  newest,          \* history: the latest observation taken for live
  scans            \* history: scans the controller reconciled

agentVars == <<plan, sessionID, made>>
wireVars == <<mail, spooled, losses>>
storeVars == <<receipts, rows, current, checkpoint, presence>>
pastVars == <<doubled, newest, scans>>
reportVars == <<now, agentVars, wireVars, storeVars, pastVars>>

-----------------------------------------------------------------------------

None == 0 - 1
NoScan == [at |-> None, seen |-> {}, complete |-> FALSE]
NoReport == [n |-> 0, session |-> 0, at |-> 0]
Present == [state |-> "present", since |-> None, absent |-> 0]

ReportsInit ==
  /\ now = 0 /\ plan \in ReportPlans /\ sessionID = 1 /\ made = 0
  /\ mail = {} /\ spooled = {} /\ losses = 0 /\ receipts = {} /\ rows = {}
  /\ current = NoReport /\ checkpoint = None
  /\ presence = [s \in Listeners |-> Present]
  /\ doubled = FALSE /\ newest = 0 /\ scans = {}

-----------------------------------------------------------------------------
(* The agent. *)

\* A scan sees all that listens or, cut short, a part of it.
Scans == {NoScan} \cup [at : {now + plan.ahead}, seen : SUBSET Listeners, complete : BOOLEAN]

\* tick: a report, with the scan that has just ended, if one has.  Numbers go
\* through all sessions; within one they are the sequence.
MakeReport(scan) ==
  /\ made < plan.reports /\ \A m \in mail : m.report \in spooled
  /\ made' = made + 1
  /\ mail' = mail \cup {[report |-> [n |-> made + 1, session |-> sessionID,
                                     at |-> now + plan.ahead, scan |-> scan], live |-> TRUE]}
  /\ UNCHANGED <<now, plan, sessionID, spooled, losses, storeVars, pastVars>>

\* No acknowledgement: the report is spooled, and replayed as history.
Lose == losses < plan.losses /\ losses' = losses + 1
SpoolReport ==
  \E m \in mail :
    /\ Lose
    /\ m.live /\ m.report \notin spooled
    /\ spooled' = spooled \cup {m.report}
    /\ UNCHANGED <<now, agentVars, mail, storeVars, pastVars>>
Replay ==
  \E r \in spooled :
    /\ \A m \in mail : m.live /\ m.report \in spooled
    /\ mail' = mail \cup {[report |-> r, live |-> FALSE]}
    /\ UNCHANGED <<now, agentVars, spooled, losses, storeVars, pastVars>>

\* A new process has a new session.
Restart ==
  /\ sessionID = 1 /\ \A m \in mail : m.report \in spooled
  /\ sessionID' = 2
  /\ UNCHANGED <<now, plan, made, wireVars, storeVars, pastVars>>

-----------------------------------------------------------------------------
(* The controller. *)

\* validateInventory: a scan from the future is refused.
ValidInventory(d) == d # NoScan => d.at <= now

\* The clock, retention and inventory checks ahead of the transaction: a
\* report outside them is refused whole.
Acceptable(r) ==
  /\ r.at + RawRetention >= now /\ r.at <= now + MaxAhead
  /\ ValidInventory(r.scan)

\* Mutant of Live: sequence and session alone decide.
LiveBySequence(m) == m.live /\ (current.session # m.report.session \/ m.report.n > current.n)

\* A report is live unless it is history, or older than the current one.
Live(m) ==
  /\ m.live
  /\ current.session # m.report.session \/ m.report.n > current.n
  /\ \A x \in receipts : x.n = current.n => m.report.at >= current.at

\* Mutant of Reconciled: a sighting does not end the absence.
ReconciledKeepsAbsence(p, s, d) ==
  LET since == IF p.since = None THEN d.at ELSE p.since
      count == IF p.absent < 2 THEN p.absent + 1 ELSE p.absent
  IN CASE s \in d.seen -> [p EXCEPT !.state = "present"]
       [] s \notin d.seen /\ ~d.complete -> p
       [] OTHER -> [state |-> IF count >= 2 /\ d.at >= since + AbsenceGrace
                              THEN "missing" ELSE "unconfirmed",
                    since |-> since, absent |-> count]

\* inventoryIsNew, and reconcileInventory of one service.
InventoryIsNew(d) == d # NoScan /\ now <= d.at + InventoryMaxAge /\ d.at > checkpoint

Reconciled(p, s, d) ==
  LET since == IF p.since = None THEN d.at ELSE p.since
      count == IF p.absent < 2 THEN p.absent + 1 ELSE p.absent
  IN CASE s \in d.seen -> Present
       [] s \notin d.seen /\ ~d.complete -> p
       [] OTHER -> [state |-> IF count >= 2 /\ d.at >= since + AbsenceGrace
                              THEN "missing" ELSE "unconfirmed",
                    since |-> since, absent |-> count]

\* TouchAgent, InsertHostSample.
Touched(r) == [n |-> r.n, session |-> r.session, at |-> r.at]
InsertHostSample(r) == rows \cup {r.n}

\* AcceptReport, one transaction: a report already received changes nothing,
\* any other adds its sample, and a live one moves the agent's row.
AcceptReport(m) ==
  LET r == m.report
      known == \E x \in receipts : x.n = r.n
      live == ~known /\ Live(m)
      new == live /\ InventoryIsNew(r.scan)
  IN
  /\ m \in mail /\ Acceptable(r)
  /\ mail' = mail \ {m}
  /\ receipts' = IF known THEN receipts ELSE receipts \cup {[n |-> r.n, received |-> now]}
  /\ rows' = IF known THEN rows ELSE InsertHostSample(r)
  /\ doubled' = (doubled \/ (~known /\ r.n \in rows))
  /\ current' = IF live THEN Touched(r) ELSE current
  /\ newest' = IF live /\ r.at > newest THEN r.at ELSE newest
  /\ checkpoint' = IF new THEN r.scan.at ELSE checkpoint
  /\ presence' = IF new THEN [s \in Listeners |-> Reconciled(presence[s], s, r.scan)]
                 ELSE presence
  /\ scans' = IF new THEN scans \cup {r.scan} ELSE scans
  /\ \/ spooled' = (IF m.live THEN spooled ELSE spooled \ {r}) /\ UNCHANGED losses
     \/ Lose /\ m.report \notin spooled /\ spooled' = spooled \cup {r}
  /\ UNCHANGED <<now, agentVars>>

\* A request that fails on the way, or that the controller refuses.
Fail(m) ==
  /\ m \in mail
  /\ IF Acceptable(m.report) THEN Lose ELSE UNCHANGED losses
  /\ mail' = mail \ {m}
  /\ spooled' = spooled \cup {m.report}
  /\ UNCHANGED <<now, agentVars, storeVars, pastVars>>

\* Mutant of Retired: receipts go together with the raw data.
RetiredEarly(x) == x.received + RawRetention < now

\* retainRaw: receipts outlive what they could let in again.
Retired(x) == x.received + ReceiptLife < now

RetainRaw ==
  /\ \E x \in receipts : Retired(x)
  /\ receipts' = {x \in receipts : ~Retired(x)}
  /\ UNCHANGED <<now, agentVars, wireVars, rows, current, checkpoint, presence, pastVars>>

Pass ==
  /\ now < plan.time
  /\ now' = now + 1
  /\ UNCHANGED <<agentVars, wireVars, storeVars, pastVars>>

-----------------------------------------------------------------------------

Observe == \E d \in Scans : (d # NoScan => plan.scans) /\ MakeReport(d)
Accept == \E m \in mail : AcceptReport(m)
Refuse == \E m \in mail : Fail(m)

ReportsNext ==
  \/ Observe \/ SpoolReport \/ Replay \/ Restart
  \/ Accept \/ Refuse \/ RetainRaw \/ Pass

ReportsSpec == ReportsInit /\ [][ReportsNext]_reportVars

-----------------------------------------------------------------------------
(* Properties. *)

\* However often and however late a report comes, also after its receipt has
\* been retired, its sample enters the history once; and a report the agent no
\* longer keeps has entered it.
StoredOnce ==
  /\ ~doubled
  /\ \A n \in 1 .. made : n \in rows \/ (\E r \in spooled : r.n = n) \/ (\E m \in mail : m.report.n = n)

\* The agent's row never goes back to older evidence: no report that was ever
\* taken for live was observed after the current one, whatever the order in
\* which two sessions' reports, replays and stragglers arrive.
CurrentIsNewest == newest <= current.at

\* A service counts as missing only after two complete scans, the grace period
\* apart, that did not see it, and none newer that did.
MissingIsSustained ==
  \A s \in Listeners : presence[s].state = "missing" =>
    \E a, b \in scans :
      /\ a.complete /\ b.complete /\ s \notin a.seen \cup b.seen
      /\ b.at >= a.at + AbsenceGrace
      /\ \A c \in scans : c.at > a.at => s \notin c.seen

\* The history has each sample once, and the agent's row is never set back
\* (AcceptReport).
HistoryExact == StoredOnce /\ CurrentIsNewest
=============================================================================
