-------------------------- MODULE MCReconciliation --------------------------
(***************************************************************************)
(* Instances of Reconciliation for TLC: one ULD, which is in breach after  *)
(* 30 minutes; the first reading gives it 5 and the second, in time order, *)
(* 30 more and the breach.                                                 *)
(***************************************************************************)
EXTENDS Reconciliation, TLC

CONSTANTS m1, m2, u1

AllowableMinutes == u1 :> 30

SentReadings ==
    m1 :> [uld |-> u1, at |-> 0, hot |-> TRUE, channel |-> "mqtt"]
    @@ m2 :> [uld |-> u1, at |-> Minutes(30), hot |-> TRUE, channel |-> "mqtt"]

Temperatures == m1 :> 9 @@ m2 :> 10

\* Without Redis and without a ONE Record server.
DemoDeployment == {[remote |-> FALSE, inMemory |-> TRUE]}

AllDeployments == [remote : BOOLEAN, inMemory : BOOLEAN]
=============================================================================
