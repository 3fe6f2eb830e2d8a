----------------------------- MODULE ReadModels -----------------------------
(***************************************************************************)
(* The dashboard's read models: the pure functions that turn the custody   *)
(* states and the open tasks into what the pages show (routes/api.js,      *)
(* getControlCenter and queryCopilot of CargoService).                     *)
(*                                                                         *)
(* A shipment is the record listCargo returns for a cargo; shipments is    *)
(* the list of them, newest first.  Rows the code counts or collects one   *)
(* after the other are given here as sets; texts, times of generation and  *)
(* configuration flags are left out.                                       *)
(***************************************************************************)
EXTENDS Integers, FiniteSets, SequencesExt

Slice(s, n) == SubSeq(s, 1, IF Len(s) < n THEN Len(s) ELSE n)

\* Array.slice(-n).
SliceEnd(s, n) == SubSeq(s, IF Len(s) < n THEN 1 ELSE Len(s) - n + 1, Len(s))

\* Array.sort by a number, the highest first; no property looks at the order of equals.
sortedBy(rows, key) ==
    CHOOSE list \in SetToSeqs(rows) :
        \A i, j \in DOMAIN list : i < j => key[list[i]] >= key[list[j]]

\* The rows of cargo:index, the most recently updated first.
newestFirst(rows) == sortedBy(rows, [s \in rows |-> s.lastUpdatedAt])

Shipments(shipments) == ToSet(shipments)
CountOf(rows, Holds(_)) == Cardinality({s \in rows : Holds(s)})

riskLevel(score) == IF score >= 75 THEN "HIGH" ELSE IF score >= 45 THEN "MEDIUM" ELSE "LOW"

normalizeCargoStatus(action) ==
    CASE action = "CargoMissing" -> "MISSING"
      [] action = "CargoTamperAlert" -> "TAMPER_ALERT"
      [] action = "CargoDamaged" -> "DAMAGED"
      [] action = "CustodyViolation" -> "CUSTODY_VIOLATION"
      [] action = "CargoReloaded" -> "RELOADED"
      [] action = "CargoScannedIn" -> "IN_CUSTODY"
      [] action \in {"CargoScannedOut", "CargoTransferred", "CargoHeld"} -> "OUT_OF_CUSTODY"
      [] OTHER -> "TRACKED"
-----------------------------------------------------------------------------
\* getControlCenter: the counters, and the shipments at risk, worst first.
Summary(shipments) ==
    LET rows == Shipments(shipments) IN
    [trackedCargo     |-> Len(shipments),
     chainBrokenCount |-> CountOf(rows, LAMBDA s : s.chainBroken),
     stopLoadCount    |-> CountOf(rows, LAMBDA s : s.stopLoad),
     missingCount     |-> CountOf(rows, LAMBDA s : s.currentStatus = "MISSING"),
     tamperCount      |-> CountOf(rows, LAMBDA s : s.currentStatus = "TAMPER_ALERT")]

highRisk(shipments) ==
    LET rows == {s \in Shipments(shipments) : s.riskLevel # "LOW"}
    IN Slice(sortedBy(rows, [s \in rows |-> s.riskScore]), 10)

\* buildControlTowerPayload: one row per flight, with the place of the
\* shipment that moved last.
flights(shipments) ==
    [flight \in {s.flight : s \in Shipments(shipments)} |->
        LET rows == {s \in Shipments(shipments) : s.flight = flight}
            latest == CHOOSE s \in rows : \A t \in rows : s.lastUpdatedAt >= t.lastUpdatedAt
        IN [shipmentCount    |-> Cardinality(rows),
            highRiskCount    |-> CountOf(rows, LAMBDA s : s.riskLevel = "HIGH"),
            chainBrokenCount |-> CountOf(rows, LAMBDA s : s.chainBroken),
            stopLoadCount    |-> CountOf(rows, LAMBDA s : s.stopLoad),
            latestLocation   |-> latest.currentLocation,
            lastUpdatedAt    |-> latest.lastUpdatedAt]]

\* buildCargoGraphPayload: nodes by id, and the edges that leave a cargo.
cargoNode(s) == [id |-> <<"cargo", s.cargoId>>,
                 custodyState |-> IF s.chainBroken THEN "BROKEN" ELSE "INTACT"]

graphEdges(shipments) ==
    UNION {{[type |-> "ASSIGNED_TO_FLIGHT", from |-> cargoNode(s).id, to |-> <<"flight", s.flight>>],
            [type |-> "LOCATED_AT", from |-> cargoNode(s).id, to |-> <<"location", s.currentLocation>>]}
           \cup {[type |-> "HANDLED_BY", from |-> cargoNode(s).id, to |-> <<"actor", actor>>] :
                    actor \in s.touchedBy}
           : s \in Shipments(shipments)}

graphNodes(shipments) ==
    {cargoNode(s).id : s \in Shipments(shipments)} \cup {edge.to : edge \in graphEdges(shipments)}

\* buildStakeholdersPayload: everyone with a task or a cargo.  A custody alert
\* names no target team.
stakeholders(tasks, shipments) ==
    LET rows == Shipments(shipments)
        names == {t.assignedRole : t \in tasks} \cup {s.currentTeam : s \in rows}
                 \cup UNION {s.touchedBy : s \in rows}
    IN [name \in names |->
          LET mine == {s \in rows : name \in s.touchedBy \/ s.currentTeam = name}
              open == {t \in tasks : t.assignedRole = name}
          IN [activeTasks |-> Cardinality(open),
              cargoIds    |-> {s.cargoId : s \in mine},
              roles       |-> (IF open # {} THEN {"intervention-execution"} ELSE {})
                  \cup (IF \E s \in mine : name \in s.touchedBy THEN {"cargo-custody"} ELSE {})
                  \cup (IF \E s \in mine : s.currentTeam = name THEN {"current-owner"} ELSE {})]]

partiesWithCustody(parties) == {p \in DOMAIN parties : parties[p].cargoIds # {}}

\* buildAiOpsPayload: what the assistant is told before it is asked.
aiOpsContext(tasks, shipments) ==
    [pendingInterventions |-> Cardinality(tasks),
     stopLoadCargo        |-> Summary(shipments).stopLoadCount,
     highestRiskCargo     |-> Slice(highRisk(shipments), 1)]

\* queryCopilot on "broken custody chain" and on "highest theft risk", where a
\* missing cargo counts 15 points more than its risk.
brokenChainMatches(shipments) == {s.cargoId : s \in {t \in Shipments(shipments) : t.chainBroken}}

theftRisk(s) ==
    LET score == s.riskScore + (IF s.lastAction = "CargoMissing" THEN 15 ELSE 0)
    IN IF score > 100 THEN 100 ELSE score

highestTheftRisk(shipments) ==
    Slice(sortedBy(Shipments(shipments), [s \in Shipments(shipments) |-> theftRisk(s)]), 1)
=============================================================================
