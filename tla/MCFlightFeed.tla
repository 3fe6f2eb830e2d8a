----------------------------- MODULE MCFlightFeed -----------------------------
(***************************************************************************)
(* Instances of FlightFeed for TLC: a ULD, a flight of the simulation and  *)
(* one of the server, and two mounts of the page.                          *)
(***************************************************************************)
EXTENDS FlightFeed

CONSTANTS s1, s2, u1, f1, f2, a1
=============================================================================
