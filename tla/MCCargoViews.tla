---------------------------- MODULE MCCargoViews ----------------------------
(***************************************************************************)
(* An instance of CargoViews for TLC: two scans of one air waybill, the    *)
(* second of which may break its chain and carries the earlier timestamp,  *)
(* one scan of another, and a page that asks for a view at any moment.     *)
(***************************************************************************)
EXTENDS CargoViews, TLC

CONSTANTS r1, r2, r3, awb1, awb2, sealA

Scan ==
    [cargo |-> awb1, kind |-> "direct", action |-> "CargoScannedOut", at |-> 20,
     seal |-> sealA, kg |-> 425, scanned |-> TRUE, awb |-> TRUE, weight |-> TRUE,
     sealFlag |-> TRUE, destination |-> TRUE, workflow |-> TRUE, verdict |-> TRUE,
     score |-> NoScore, swap |-> FALSE, brokenSeal |-> FALSE, damage |-> FALSE,
     media |-> TRUE]
Tamper == [Scan EXCEPT !.action = "CargoTamperAlert", !.at = 10, !.swap = TRUE,
                       !.brokenSeal = TRUE, !.media = FALSE]
Missing == [Scan EXCEPT !.action = "CargoMissing", !.at = 30]
OtherCargo == [Scan EXCEPT !.cargo = awb2, !.at = 15]

ViewBody == r1 :> {Scan, Tamper} @@ r2 :> {Missing} @@ r3 :> {OtherCargo}

MCflightOf == awb1 :> "EK202" @@ awb2 :> "EK202"
MClocationOf == r1 :> "Apron" @@ r2 :> "Warehouse B" @@ r3 :> "Apron"
MCteamOf == r1 :> "customs" @@ r2 :> "security" @@ r3 :> "customs"
MChandlerOf == r1 :> "co-118" @@ r2 :> "sec-901" @@ r3 :> "co-118"
=============================================================================
