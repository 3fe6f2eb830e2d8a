----------------------------- MODULE MCCustodyPage -----------------------------
(***************************************************************************)
(* Instances of CustodyPage for TLC: two shipments.                        *)
(***************************************************************************)
EXTENDS CustodyPage

CONSTANTS c1, c2
=============================================================================
