--------------------------- MODULE MCActionLedger ---------------------------
(***************************************************************************)
(* Instances of ActionLedger for TLC: one target, a ULD or a cargo;        *)
(* readings that see a breach (two actions and a workflow), or a handling  *)
(* gap shortly before the breach, whose package names an action twice, or  *)
(* incidents of a cargo, of which the second is not so severe and asks for *)
(* other actions; and an operator.                                         *)
(***************************************************************************)
EXTENDS ActionLedger, DecisionRules, TLC

CONSTANTS r1, r2, r3, target

Orchestrate(names, flows) ==
    [kind |-> "orchestrate", target |-> target, actions |-> names, workflows |-> flows]
Operator(kind) == [kind |-> kind, target |-> target, actions |-> <<>>, workflows |-> <<>>]

\* 9 degrees in a warehouse; it was 9, or 8, degrees at the last reading.
Warm == [temp |-> 90, last |-> 90, moved |-> 0, zone |-> "WAREHOUSE", late |-> FALSE,
         onTarmac |-> 0, delay |-> 0, ambient |-> 18]
Warming == [Warm EXCEPT !.last = 80]

\* The packages of a reading that leaves its ULD with this status.
Package(o, status, used, allowable) ==
    Orchestrate(decisionActions(o, status, used, allowable),
                decisionWorkflows(o, status, used, allowable))

Breach == Package(Warm, "BREACH", 31, 30)
AtTheEdge == Package(Warming, "AT_RISK", 29, 30)

Incident(stopLoad, chainBroken) ==
    Orchestrate(incidentActions(stopLoad, chainBroken), incidentWorkflows)

AnyCommand == {Operator(k) : k \in Commands}

\* A response, then any two of responses and operators; in any order.
AnyRequests ==
    r1 :> {Breach, Incident(TRUE, TRUE)}
    @@ r2 :> {Breach, AtTheEdge} \cup AnyCommand
    @@ r3 :> {Incident(TRUE, FALSE), Operator("complete")} \cup AnyCommand
=============================================================================
