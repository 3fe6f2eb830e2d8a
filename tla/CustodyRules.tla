---------------------------- MODULE CustodyRules ----------------------------
(***************************************************************************)
(* The custody rules of backend/src/services/cargoService.js: what one     *)
(* custody event, judged against the state the cargo had before it, does   *)
(* to the risk score, the integrity score and the stored custody state.    *)
(* The operators are the pure functions of that file; CargoCustody runs    *)
(* them between its reads and its writes.                                  *)
(*                                                                         *)
(* A request body is abstracted to the facts the rules look at: booleans   *)
(* for the match flags and camera findings, numbers for weights (kg) and   *)
(* timestamps (minutes).  The handler who reports an event is the request  *)
(* that carries it, so custodians and event ids are members of Requests.   *)
(***************************************************************************)
EXTENDS Integers

CONSTANTS
    Cargo,      \* air waybills
    Requests,   \* custody requests: POST /cargo/* and the seeding of the demo data
    Seals       \* seal numbers

Nobody == "nobody"          \* JavaScript's undefined custodian
NoSeal == "no seal"         \* a body, or a missing state, without a seal number
UnknownSeal == "UNKNOWN"    \* what an event without any seal number is stored with
NoAction == "none"          \* a body without an action
NoTime == -1                \* outsideCustodySince = null
NoWeight == -1              \* a body, or a missing state, without a weight
NoScore == -1               \* a body without verification.cargoIntegrityScore

ASSUME RequestsAssumption == Nobody \notin Requests
ASSUME SealsAssumption == {NoSeal, UnknownSeal} \cap Seals = {}

\* The actions the lifecycle accepts (validateEventPayload rejects any other).
CARGO_EVENTS ==
    {"CargoReceived", "CargoUnloaded", "CargoScannedOut", "CargoTransferred",
     "CargoInspected", "CargoHeld", "CargoOpened", "CargoRepacked",
     "CargoReleased", "CargoScannedIn", "CargoReloaded", "CargoMissing",
     "CargoDamaged", "CargoTamperAlert", "CustodyViolation"}

\* "direct" stands for scan-out, scan-in and seeding, which fix the action.
Kinds == {"direct", "verify", "reload"}

Payload ==
    [cargo : Cargo, kind : Kinds, action : CARGO_EVENTS \cup {NoAction},
     at : Nat,                             \* timestamp, chosen by the sender
     seal : Seals \cup {NoSeal}, kg : Nat \cup {NoWeight},
     scanned : BOOLEAN,                    \* barcode, RFID and biometric all present
     awb : BOOLEAN, weight : BOOLEAN, sealFlag : BOOLEAN,
     destination : BOOLEAN, workflow : BOOLEAN,    \* the *_match flags
     verdict : BOOLEAN,                    \* verification.workflowMatch !== false
     score : 0 .. 100 \cup {NoScore},      \* verification.cargoIntegrityScore
     swap : BOOLEAN, brokenSeal : BOOLEAN, damage : BOOLEAN,   \* camera findings
     media : BOOLEAN]                      \* a photo or a video clip is attached

State ==
    [custodian : Requests \cup {Nobody}, action : CARGO_EVENTS \cup {NoAction},
     seal : Seals \cup {NoSeal, UnknownSeal}, kg : Nat \cup {NoWeight},
     since : Nat \cup {NoTime},
     returned : BOOLEAN, manifest : BOOLEAN, chainBroken : BOOLEAN,
     stopLoad : BOOLEAN, integrity : 0 .. 100, risk : 0 .. 100,
     touched : SUBSET Requests]

\* A cargo nobody has reported on yet: getState returns null, and every use
\* of a field of null takes its default.
NoState ==
    [custodian |-> Nobody, action |-> NoAction, seal |-> NoSeal,
     kg |-> NoWeight, since |-> NoTime, returned |-> FALSE, manifest |-> FALSE,
     chainBroken |-> FALSE, stopLoad |-> FALSE, integrity |-> 0, risk |-> 0,
     touched |-> {}]

-----------------------------------------------------------------------------
Points(condition, n) == IF condition THEN n ELSE 0
AtMost100(n) == IF n > 100 THEN 100 ELSE n
AtLeast0(n) == IF n < 0 THEN 0 ELSE n
OrElse(value, missing, default) == IF value = missing THEN default ELSE value

\* The weight of the body, then of the previous state, then 0 kg; and the
\* same in the other order, so that a first report never differs from itself.
ReportedWeight(p, prev) == OrElse(p.kg, NoWeight, OrElse(prev.kg, NoWeight, 0))
PreviousWeight(p, prev) == OrElse(prev.kg, NoWeight, OrElse(p.kg, NoWeight, 0))

weightMatch(p, prev) ==
    /\ p.weight
    /\ ReportedWeight(p, prev) - PreviousWeight(p, prev) \in -8 .. 8

\* Once a seal is on record a body must repeat it; a body without one fails.
sealMatch(p, prev) ==
    /\ p.sealFlag
    /\ prev.seal = NoSeal \/ p.seal = prev.seal

\* outsideCustodySince after an event with this action.
resolveOutsideCustodySince(prev, action, at) ==
    CASE action \in {"CargoScannedOut", "CargoTransferred", "CargoHeld", "CargoUnloaded"} -> at
      [] action \in {"CargoScannedIn", "CargoReleased", "CargoReloaded"} -> NoTime
      [] OTHER -> prev.since

computeDurationMinutes(start, end) ==
    IF start = NoTime THEN 0 ELSE AtLeast0(end - start)

outsideTooLong(p, action, prev) ==
    computeDurationMinutes(resolveOutsideCustodySince(prev, action, p.at), p.at) > 45

brokenOrTampered(p, action) == p.brokenSeal \/ action = "CargoTamperAlert"
damaged(p, action) == p.damage \/ action = "CargoDamaged"

riskScore(p, action, prev) ==
    AtMost100(
        12 + Points(~p.scanned, 18)
           + Points(~p.awb, 20)
           + Points(~weightMatch(p, prev), 14)
           + Points(~sealMatch(p, prev), 16)
           + Points(~p.destination, 12)
           + Points(~p.workflow, 12)
           + Points(p.swap, 20)
           + Points(brokenOrTampered(p, action), 18)
           + Points(damaged(p, action), 12)
           + Points(action = "CargoMissing", 25)
           + Points(action = "CustodyViolation", 22)
           + Points(outsideTooLong(p, action, prev), 10))

\* The custody chain is broken by this event alone: the flag is not sticky.
chainBroken(p, action, prev) ==
    \/ ~p.awb
    \/ ~sealMatch(p, prev)
    \/ p.swap
    \/ action \in {"CargoMissing", "CustodyViolation"}

\* Mutant of Critical: an off-by-one at the threshold.
CriticalAbove(score) == score >= 84

Critical(score) == score >= 85      \* incidentSeverity = "CRITICAL"

computeIntegrityScore(p, action, prev) ==
    AtLeast0(
        100 - Points(~p.awb, 25)
            - Points(~weightMatch(p, prev), 14)
            - Points(~sealMatch(p, prev), 18)
            - Points(~p.destination, 12)
            - Points(~p.workflow, 10)
            - Points(~p.scanned, 15)
            - Points(action = "CargoDamaged", 16)
            - Points(action = "CargoTamperAlert", 22)
            - Points(prev.chainBroken, 8))

\* The score a body brings with it is preferred to the computed one.
integrityScore(p, action, claimed, prev) ==
    OrElse(claimed, NoScore, computeIntegrityScore(p, action, prev))

\* Mutant of buildState: touchedBy names the last handler only.
buildStateWithoutHistory(r, p, action, claimed, prev) ==
    LET integrity == integrityScore(p, action, claimed, prev)
        broken == chainBroken(p, action, prev)
    IN  [NoState EXCEPT !.custodian = r, !.action = action, !.seal = p.seal,
                        !.chainBroken = broken, !.integrity = integrity,
                        !.stopLoad = integrity < 70 \/ broken, !.touched = {r}]

\* The custody state the cargo gets from event r.
buildState(r, p, action, claimed, prev) ==
    LET integrity == integrityScore(p, action, claimed, prev)
        broken == chainBroken(p, action, prev)
        reloaded == action = "CargoReloaded"
    IN  [custodian |-> r,
         action |-> action,
         seal |-> OrElse(p.seal, NoSeal, OrElse(prev.seal, NoSeal, UnknownSeal)),
         kg |-> ReportedWeight(p, prev),
         since |-> resolveOutsideCustodySince(prev, action, p.at),
         returned |-> reloaded \/ prev.returned,
         manifest |-> reloaded /\ integrity >= 70 /\ ~broken,
         chainBroken |-> broken,
         stopLoad |-> integrity < 70 \/ broken,
         integrity |-> integrity,
         risk |-> riskScore(p, action, prev),
         touched |-> prev.touched \cup {r}]

-----------------------------------------------------------------------------
\* The action a verification records when the body does not name one.
inferredAction(p) ==
    OrElse(p.action, NoAction, IF p.verdict THEN "CargoTransferred" ELSE "CustodyViolation")

\* Mutant of shouldStopLoad: only the score is checked, as if a broken seal
\* alone could not leave it above 70.
shouldStopLoadOnScore(p, prev) == computeIntegrityScore(p, p.action, prev) < 70

\* The reload check, on the state the reload request read first.
shouldStopLoad(p, prev) ==
    \/ computeIntegrityScore(p, p.action, prev) < 70
    \/ ~p.awb
    \/ ~sealMatch(p, prev)
    \/ ~p.destination

reloadAction(p, prev) ==
    IF shouldStopLoad(p, prev) THEN "CustodyViolation" ELSE "CargoReloaded"
=============================================================================
