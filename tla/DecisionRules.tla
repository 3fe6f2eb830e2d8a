---------------------------- MODULE DecisionRules ----------------------------
(***************************************************************************)
(* What the response to a reading or to a custody incident is made of: the *)
(* operational context (domain/context.js), the risk a deployment without  *)
(* a risk service computes (riskService.js), the decision package          *)
(* (domain/decision.js) and the templates of an incident.                  *)
(*                                                                         *)
(* Temperatures are tenths of a degree and a risk score is in hundredths.  *)
(* Of an action the name is kept, by which a response is told to be open;  *)
(* roles, priorities, deadlines and steps are texts of its own.            *)
(***************************************************************************)
EXTENDS Integers, Sequences

\* A reading with the position and the weather it is judged by.
Observation ==
    [temp : Int, last : Int, moved : Nat, zone : STRING, late : BOOLEAN,
     onTarmac : Nat, delay : Nat, ambient : Int]

\* movementDelta < 0.15 km; a ULD without a last position has not moved.
idle(o) == o.moved < 150

\* The last temperature is taken with ||, so that exactly 0 degrees counts as
\* none and the ULD has not warmed.
temperatureDelta(o) == IF o.last = 0 THEN 0 ELSE o.temp - o.last

handlingGap(o) == idle(o) /\ temperatureDelta(o) > 5
tarmacExposure(o) == (o.zone = "TARMAC" \/ o.ambient >= 30) /\ idle(o) /\ o.temp >= 70
delayDetected(o) == o.late \/ o.onTarmac >= 15 \/ o.delay >= 15
-----------------------------------------------------------------------------
AtLeastZero(n) == IF n < 0 THEN 0 ELSE n
AtMost(bound, n) == IF n > bound THEN bound ELSE n

\* localRiskFallback: seven weighted parts, in units of 0.00001, clamped to
\* 0.99 and rounded.
risk_score(o, used, allowable) ==
    (AtMost(99000,
         AtLeastZero(275 * (o.temp - 50))
         + AtLeastZero(700 * (o.ambient - 20))
         + AtLeastZero(1280 * temperatureDelta(o))
         + (IF allowable = 0 THEN 19800 ELSE AtMost(22000, (22000 * used) \div allowable))
         + (IF tarmacExposure(o) THEN 20000 ELSE 0)
         + (IF delayDetected(o) THEN 15000 ELSE 0)
         + (IF handlingGap(o) THEN 10000 ELSE 0)) + 500) \div 1000

If(condition, names) == IF condition THEN names ELSE <<>>

\* buildDecisionPackage.  Two rules may ask for the same action.
decisionActions(o, status, used, allowable) ==
    If(risk_score(o, used, allowable) >= 80,
       <<"Move ULD to controlled storage", "Apply thermal protection">>)
    \o If(delayDetected(o), <<"Prioritize handling">>)
    \o If(handlingGap(o), <<"Expedite loading">>)
    \o If(status = "BREACH", <<"Require QA inspection", "Escalate shipper disposition">>)
    \o If(status = "AT_RISK" /\ allowable - used <= 1, <<"Expedite loading">>)

decisionWorkflows(o, status, used, allowable) ==
    If(risk_score(o, used, allowable) >= 80, <<"PreventiveCoolingWorkflow">>)
    \o If(delayDetected(o), <<"DelayEscalationWorkflow">>)
    \o If(status = "BREACH", <<"CriticalBreachWorkflow">>)

\* The two templates of orchestrateCargoIncident, and its workflow.
incidentActions(stopLoad, chainBroken) ==
    << IF stopLoad THEN "Stop cargo reload and hold shipment"
       ELSE "Verify cargo custody at current location",
       IF chainBroken THEN "Dispatch security seal inspection"
       ELSE "Confirm manifest and handler chain" >>

incidentWorkflows == <<"CargoCustodyIncidentWorkflow">>

\* Every action and workflow a response may be made of.
ResponseActions ==
    {"Move ULD to controlled storage", "Apply thermal protection", "Prioritize handling",
     "Expedite loading", "Require QA inspection", "Escalate shipper disposition"}
    \cup {incidentActions(s, b)[i] : s \in BOOLEAN, b \in BOOLEAN, i \in {1, 2}}
ResponseWorkflows ==
    {"PreventiveCoolingWorkflow", "DelayEscalationWorkflow", "CriticalBreachWorkflow",
     "CargoCustodyIncidentWorkflow"}
=============================================================================
