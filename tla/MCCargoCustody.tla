-------------------------- MODULE MCCargoCustody --------------------------
(***************************************************************************)
(* Instances of CargoCustody for TLC: three operators on one air waybill   *)
(* (and one on another), with the bodies that make their events interfere. *)
(***************************************************************************)
EXTENDS CargoCustody, TLC

CONSTANTS r1, r2, r3, awb1, awb2, sealA, sealB

\* A clean scan of awb1, sealed with sealA.
CleanScan ==
    [cargo |-> awb1, kind |-> "direct", action |-> "CargoScannedIn", at |-> 0,
     seal |-> sealA, kg |-> 425, scanned |-> TRUE, awb |-> TRUE, weight |-> TRUE,
     sealFlag |-> TRUE, destination |-> TRUE, workflow |-> TRUE, verdict |-> TRUE,
     score |-> NoScore, swap |-> FALSE, brokenSeal |-> FALSE, damage |-> FALSE,
     media |-> TRUE]

ScanOut == [CleanScan EXCEPT !.action = "CargoScannedOut", !.media = FALSE]
Repack == [CleanScan EXCEPT !.kind = "verify", !.action = "CargoRepacked", !.seal = sealB]
Suspect == [CleanScan EXCEPT !.kind = "verify", !.action = NoAction, !.verdict = FALSE, !.at = 60,
                              !.media = FALSE]
Reload == [CleanScan EXCEPT !.kind = "reload", !.action = NoAction, !.at = 90]
\* A reload that clears when no other weight is on record, and has 86 risk
\* points once another request has put a different one there.
WeakReload ==
    [Reload EXCEPT !.scanned = FALSE, !.workflow = FALSE, !.brokenSeal = TRUE,
                   !.damage = TRUE, !.kg = 500]
OtherCargo == [CleanScan EXCEPT !.cargo = awb2]

ConcurrentBody ==
    r1 :> {CleanScan, Suspect} @@ r2 :> {Repack, WeakReload} @@ r3 :> {Reload, OtherCargo}
\* One operator after the other: a scan-out that leaves a broken or a sound
\* chain behind, and a broken seal 50 minutes later, with any other evidence
\* that adds risk without breaking the chain.
FirstBody == {ScanOut, [ScanOut EXCEPT !.swap = TRUE]}

SecondBody ==
    {[CleanScan EXCEPT !.at = 50, !.media = FALSE, !.action = action, !.scanned = scanned,
                       !.weight = weight, !.destination = destination,
                       !.workflow = workflow, !.brokenSeal = TRUE, !.damage = damage] :
        action \in {"CargoInspected", "CargoTamperAlert"}, scanned \in BOOLEAN,
        weight \in BOOLEAN, destination \in BOOLEAN, workflow \in BOOLEAN,
        damage \in BOOLEAN}
    \cup {WeakReload, [WeakReload EXCEPT !.kg = 425]}

SerialBody == r1 :> FirstBody @@ r2 :> SecondBody @@ r3 :> {CleanScan}
=============================================================================
