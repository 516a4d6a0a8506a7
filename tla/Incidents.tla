------------------------------ MODULE Incidents ------------------------------
(***************************************************************************)
(* Incidents of one metric of a machine or of one service's check           *)
(* (internal/storage/incident_observations.go, monitoring_policy.go and the *)
(* incident part of ops.go; internal/rules; evalHostIncidents and evalCheck *)
(* of internal/server/ingest.go).                                           *)
(*                                                                         *)
(* An observation is a value and the time it was made.  It may come late,   *)
(* after a newer one, or be unknown.  The owner changes the thresholds,     *)
(* acknowledges incidents and takes that back, and announces maintenance.   *)
(* The constants stand for the durations; one step of the clock is the      *)
(* reporting interval.                                                      *)
(***************************************************************************)
EXTENDS Integers, Sequences

CONSTANTS
  Levels,          \* measured values, small naturals
  Thresholds,      \* the rules the owner may save: recovery, warning, critical
  Policies,        \* what kinds of incident: "host" and "service"
  PersistFor, RecoverFor, MaxGap, \* durations of the host rules
  Staleness,       \* StaleContact, CheckFreshness
  MaxSamples,      \* bounds: observations evaluated,
  MaxActs,         \* the owner's actions (taking one back not counted),
  LastTick         \* and the clock

\* rules.Validate accepts thresholds in rising order only.
ASSUME IncidentConstants ==
  /\ Levels \subseteq Nat /\ Policies \subseteq {"host", "service"}
  /\ {PersistFor, RecoverFor, MaxGap, Staleness} \subseteq Nat
  /\ \A t \in Thresholds : /\ t \in [recovery : Nat, warning : Nat, critical : Nat]
                          /\ t.recovery < t.warning /\ t.warning < t.critical

VARIABLES
  kind,            \* which of Policies this behaviour is about
  clock,           \* the clock
  rule,            \* the newest rule_versions row: thresholds, revision, since
  checkRev,        \* the desired revision the service's check belongs to
  streak,          \* incident_streaks
  incident,        \* the newest incidents row
  window,          \* a maintenance window, with its cancellation
  acts,            \* the owner's actions so far
  evaluated,       \* history: the observations that counted, in order
  ackedFor         \* history: the severity the owner last acknowledged

incidentVars == <<kind, clock, rule, checkRev, streak, incident, window, acts, evaluated,
                  ackedFor>>

-----------------------------------------------------------------------------

Never == 0 - 1
NoStreak == [last |-> Never, badSince |-> Never, goodSince |-> Never, bad |-> 0, good |-> 0]
NoIncident == [status |-> "none", severity |-> "none", acked |-> FALSE, rule |-> 0,
               maintenance |-> FALSE]
NoWindow == [start |-> Never, end |-> Never, cancelled |-> Never]
Opened == {"pending", "confirmed"}
Unmeasured == Never

\* evalHostIncidents takes its policy from the rule, evalCheck has its own.
Failures == IF kind = "host" THEN 1 ELSE 3
Successes == IF kind = "host" THEN 1 ELSE 2
Persist == IF kind = "host" THEN PersistFor ELSE 0
Recover == IF kind = "host" THEN RecoverFor ELSE 0

\* EvaluateHost; a check either fails, as a warning, or does not.
Grade(v) ==
  CASE v = Unmeasured -> "unknown"
    [] v >= rule.critical -> IF kind = "host" THEN "critical" ELSE "warning"
    [] v >= rule.warning /\ v < rule.critical -> "warning"
    [] v > rule.recovery /\ v < rule.warning -> IF kind = "host" THEN "hold" ELSE "ok"
    [] OTHER -> "ok"
Failed(g) == g \in {"warning", "critical"}

IncidentsInit ==
  /\ kind \in Policies /\ clock = 0
  /\ \E t \in Thresholds : rule = [recovery |-> t.recovery, warning |-> t.warning,
                                   critical |-> t.critical, revision |-> 1, since |-> 0]
  /\ checkRev = 1 /\ streak = NoStreak /\ incident = NoIncident /\ window = NoWindow
  /\ acts = 0 /\ evaluated = <<>> /\ ackedFor = "none"

-----------------------------------------------------------------------------
(* ObserveIncident. *)

\* InMaintenance.
InMaintenance(at) ==
  /\ window # NoWindow /\ window.start <= at /\ at < window.end
  /\ window.cancelled = Never \/ at < window.cancelled

\* Mutant of Interrupted: a gap in the observations goes unnoticed.
UnknownOnly(at, g) == g = "unknown"

\* Unknown evidence and a gap reset continuity.
Interrupted(at, g) == g = "unknown" \/ (streak.last # Never /\ at - streak.last > MaxGap)

StreakAfter(at, g) ==
  LET s == IF Interrupted(at, g) THEN NoStreak ELSE streak
      held == incident.status = "confirmed" /\ g = "hold"
  IN CASE g = "unknown" -> [s EXCEPT !.last = at]
       [] Failed(g) -> [last |-> at, bad |-> s.bad + 1, good |-> 0, goodSince |-> Never,
                        badSince |-> IF s.bad = 0 THEN at ELSE s.badSince]
       [] held -> [s EXCEPT !.last = at, !.good = 0, !.goodSince = Never]
       [] OTHER -> [last |-> at, good |-> s.good + 1, bad |-> 0, badSince |-> Never,
                    goodSince |-> IF s.good = 0 THEN at ELSE s.goodSince]

\* Mutant: a rise leaves the acknowledgement.
IncidentStaysAcked(at, g, i) ==
  LET s == StreakAfter(at, g)
      open == i.status \in Opened
      status == IF open THEN i.status ELSE "pending"
  IN [status |-> IF status = "pending" /\ s.bad >= Failures /\ at - s.badSince >= Persist
                 THEN "confirmed" ELSE status,
      severity |-> IF open /\ i.severity = "critical" THEN "critical" ELSE g,
      acked |-> open /\ i.acked,
      rule |-> IF open THEN i.rule ELSE rule.revision,
      maintenance |-> (open /\ i.maintenance) \/ InMaintenance(at)]

\* The open incident after a failed observation: severity only rises, and a
\* rise asks for a new acknowledgement.
IncidentAfterFailure(at, g, i) ==
  LET s == StreakAfter(at, g)
      open == i.status \in Opened
      rises == open /\ i.severity = "warning" /\ g = "critical"
      status == IF open THEN i.status ELSE "pending"
  IN [status |-> IF status = "pending" /\ s.bad >= Failures /\ at - s.badSince >= Persist
                 THEN "confirmed" ELSE status,
      severity |-> IF open /\ i.severity = "critical" THEN "critical" ELSE g,
      acked |-> open /\ i.acked /\ ~rises,
      rule |-> IF open THEN i.rule ELSE rule.revision,
      maintenance |-> (open /\ i.maintenance) \/ InMaintenance(at)]

\* Mutant: recovery need not cross the recovery threshold.
IncidentIgnoresHold(at, g, i) ==
  LET s == StreakAfter(at, g) IN
  IF i.status \in Opened /\ (i.status = "confirmed" => at - s.goodSince >= Recover)
  THEN [i EXCEPT !.status = "resolved"] ELSE i

\* A good one resolves a pending incident at once, a confirmed one when it has
\* lasted.
IncidentAfterSuccess(at, g, i) ==
  LET s == StreakAfter(at, g) IN
  IF \/ i.status = "pending"
     \/ /\ i.status = "confirmed" /\ g # "hold"
        /\ s.good >= Successes /\ at - s.goodSince >= Recover
  THEN [i EXCEPT !.status = "resolved"] ELSE i

ObserveIncident(at, g) ==
  LET i == IF Interrupted(at, g) /\ incident.status = "pending"
           THEN [incident EXCEPT !.status = "interrupted"] ELSE incident
  IN IF streak.last # Never /\ at <= streak.last
     THEN UNCHANGED <<streak, incident, evaluated>>
     ELSE /\ streak' = StreakAfter(at, g)
          /\ incident' = CASE g = "unknown" -> i
                           [] Failed(g) -> IncidentAfterFailure(at, g, i)
                           [] OTHER -> IncidentAfterSuccess(at, g, i)
          /\ evaluated' = Append(evaluated, [at |-> at, grade |-> g])

-----------------------------------------------------------------------------

\* evalHostIncidents and evalCheck: evidence that is stale, or was gathered
\* under rules or a check since replaced, is history and no more.
Evaluate(at, v, rev) ==
  /\ Len(evaluated) < MaxSamples /\ at >= 0
  /\ clock - at <= Staleness
  /\ kind = "host" => at >= rule.since
  /\ kind = "service" => rev = checkRev
  /\ ObserveIncident(at, Grade(v))
  /\ ackedFor' = IF incident'.acked THEN ackedFor ELSE "none"
  /\ UNCHANGED <<kind, clock, rule, checkRev, window, acts>>

Act == acts < MaxActs /\ acts' = acts + 1

\* SaveHostRules: closing under the old rules is not recovery.
SaveHostRules(t) ==
  /\ Act /\ kind = "host"
  /\ rule' = [recovery |-> t.recovery, warning |-> t.warning, critical |-> t.critical,
              revision |-> rule.revision + 1, since |-> clock]
  /\ incident' = IF incident.status \in Opened
                 THEN [incident EXCEPT !.status = "policy_changed"] ELSE incident
  /\ streak' = NoStreak
  /\ evaluated' = <<>>
  /\ UNCHANGED <<kind, clock, checkRev, window, ackedFor>>

\* A new desired revision of the check.
ReplaceCheck ==
  /\ Act /\ kind = "service"
  /\ checkRev' = checkRev + 1
  /\ UNCHANGED <<kind, clock, rule, streak, incident, window, evaluated, ackedFor>>

\* AckIncident and UnackIncident.
AckIncident ==
  /\ Act /\ incident # NoIncident /\ ~incident.acked
  /\ incident' = [incident EXCEPT !.acked = TRUE]
  /\ ackedFor' = incident.severity
  /\ UNCHANGED <<kind, clock, rule, checkRev, streak, window, evaluated>>
UnackIncident ==
  /\ incident.acked /\ UNCHANGED acts
  /\ incident' = [incident EXCEPT !.acked = FALSE]
  /\ ackedFor' = "none"
  /\ UNCHANGED <<kind, clock, rule, checkRev, streak, window, evaluated>>

\* CreateMaintenance starts no earlier than now; CancelMaintenance ends a
\* window from now on.
CreateMaintenance(length) ==
  /\ Act /\ window = NoWindow
  /\ window' = [start |-> clock, end |-> clock + length, cancelled |-> Never]
  /\ UNCHANGED <<kind, clock, rule, checkRev, streak, incident, evaluated, ackedFor>>
CancelMaintenance ==
  /\ window # NoWindow /\ window.cancelled = Never /\ window.end > clock /\ UNCHANGED acts
  /\ window' = [window EXCEPT !.cancelled = clock]
  /\ UNCHANGED <<kind, clock, rule, checkRev, streak, incident, evaluated, ackedFor>>

Tick ==
  /\ clock < LastTick
  /\ clock' = clock + 1
  /\ UNCHANGED <<kind, rule, checkRev, streak, incident, window, acts, evaluated, ackedFor>>

IncidentsNext ==
  \/ \E at \in {clock - 1, clock}, v \in Levels \cup {Unmeasured}, rev \in {checkRev - 1, checkRev} :
       Evaluate(at, v, rev)
  \/ \E t \in Thresholds : SaveHostRules(t)
  \/ ReplaceCheck \/ AckIncident \/ UnackIncident
  \/ CreateMaintenance(2) \/ CancelMaintenance
  \/ Tick

IncidentsSpec == IncidentsInit /\ [][IncidentsNext]_incidentVars

-----------------------------------------------------------------------------
(* Properties. *)

\* An unbroken run of evaluated observations, from the i-th to the j-th.
Unbroken(i, j) == \A k \in i .. (j - 1) : evaluated[k + 1].at - evaluated[k].at <= MaxGap
Run(i, j, grades) ==
  i >= 1 /\ i <= j /\ Unbroken(i, j) /\ \A k \in i .. j : evaluated[k].grade \in grades

\* An incident is confirmed only by failures that followed each other without
\* a gap, an unknown or a good observation, were enough and lasted long
\* enough, all under the rules in force.
ConfirmedIsSustained ==
  incident.status = "confirmed" =>
    \E i, j \in 1 .. Len(evaluated) :
      /\ Run(i, j, {"warning", "critical"})
      /\ j - i + 1 >= Failures /\ evaluated[j].at - evaluated[i].at >= Persist

\* A confirmed incident ends only by a change of policy, or by good
\* observations, beyond the recovery threshold, that were enough, lasted long
\* enough and had no gap: never by silence, unknown or late evidence.
RecoveryIsMeasured ==
  [][ incident.status = "confirmed" /\ incident'.status # "confirmed" =>
        \/ incident'.status = "policy_changed"
        \/ /\ incident'.status = "resolved"
           /\ LET n == Len(evaluated') IN
              \E i \in 1 .. n :
                /\ \A k \in i .. n : evaluated'[k].grade = "ok"
                /\ \A k \in i .. (n - 1) : evaluated'[k + 1].at - evaluated'[k].at <= MaxGap
                /\ n - i + 1 >= Successes /\ evaluated'[n].at - evaluated'[i].at >= Recover
    ]_incidentVars

\* What the owner acknowledged is what the incident still says: one that has
\* become critical since asks again.
AckedAtPeak ==
  incident.status \in Opened /\ incident.acked => ackedFor = incident.severity

\* What an incident says is earned: it was confirmed by sustained failures, and
\* acknowledged at the severity it has (ObserveIncident).
IncidentEarned == ConfirmedIsSustained /\ AckedAtPeak
=============================================================================
