----------------------------- MODULE MCExchange -----------------------------
(***************************************************************************)
(* What agent and controller exchange with every report, for TLC: jobs and  *)
(* their receipts, the samples and scans a report brings, the configuration *)
(* it acknowledges and the incidents it raises.  Each component has its own *)
(* model of the exchange; `part' says which of them a behaviour is about.   *)
(***************************************************************************)
EXTENDS MCJobDelivery, AgentReports, ConfigSync, Incidents

VARIABLE part

ReportPlan(s, a, r, l, t) == [scans |-> s, ahead |-> a, reports |-> r, losses |-> l, time |-> t]
MCReportPlans ==
    {ReportPlan(TRUE, 0, 3, 0, 2), ReportPlan(TRUE, 0, 2, 1, 1),
     ReportPlan(FALSE, 0, 3, 2, 2), ReportPlan(FALSE, 1, 2, 2, 4)}
MCThresholds == {[recovery |-> 0, warning |-> 2, critical |-> 3]}

exchangeVars == <<vars, reportVars, configVars, incidentVars, part>>

MCInit ==
    /\ part \in {"jobs", "reports", "config", "incidents"}
    /\ Init /\ ReportsInit /\ ConfigInit /\ IncidentsInit
    /\ part # "jobs" => scenario = CHOOSE s \in Mixed : TRUE
    /\ part # "reports" => plan = CHOOSE p \in MCReportPlans : TRUE
    /\ part # "config" => worker = "this"
    /\ part # "incidents" => kind = "host"

MCNext ==
    \/ part = "jobs" /\ Next /\ UNCHANGED <<reportVars, configVars, incidentVars, part>>
    \/ part = "reports" /\ ReportsNext /\ UNCHANGED <<vars, configVars, incidentVars, part>>
    \/ part = "config" /\ ConfigNext /\ UNCHANGED <<vars, reportVars, incidentVars, part>>
    \/ part = "incidents" /\ IncidentsNext /\ UNCHANGED <<vars, reportVars, configVars, part>>

MCSpec == MCInit /\ [][MCNext]_exchangeVars
=============================================================================
