---------------------------- MODULE MCCargoSeeding ----------------------------
(***************************************************************************)
(* Instance of CargoSeeding for TLC: three seed events of two shipments,   *)
(* the start of the server, a reader and a request on the first shipment.  *)
(***************************************************************************)
EXTENDS CargoSeeding, TLC

CONSTANTS c1, c2, start, r1, w1

SeedsOfTwo == <<c1, c1, c2>>
OnTheFirst == w1 :> c1
=============================================================================
