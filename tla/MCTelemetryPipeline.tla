------------------------ MODULE MCTelemetryPipeline ------------------------
(***************************************************************************)
(* Instances of TelemetryPipeline for TLC: vaccines in u1 may spend 60     *)
(* minutes too warm, biologics in u2 none.  Three readings, seconds or     *)
(* half an hour apart, the last one in time, late, or from the HTTP route; *)
(* any of them may come first.                                             *)
(***************************************************************************)
EXTENDS TelemetryPipeline, TLC

CONSTANTS m1, m2, m3, u1, u2

AllowableMinutes == u1 :> 60 @@ u2 :> 0

\* 0 + 0.005 is stored as 0.01, but 5.17 + 0.005 as 5.17.
RoundedUp == {<<0, 300>>}

Hot(u, at) == [uld |-> u, at |-> at, hot |-> TRUE, channel |-> "mqtt"]
Cold(u, at) == [Hot(u, at) EXCEPT !.hot = FALSE]
Http(reading) == [reading EXCEPT !.channel = "http"]

\* In time order u1 has 5 and 35 minutes, then 50, past the warning at 48, or
\* 65, past the breach as well.  After 10 seconds it has 5.17, and 0.3 seconds
\* later no more.  u2 has 5 minutes and is in breach, or none if it was cold
\* first and then hot for 0.2 seconds.
SentReadings ==
    m1 :> {Hot(u1, 0), Cold(u2, 0)}
    @@ m2 :> {Hot(u1, 10000), Hot(u1, Minutes(30)), Http(Hot(u2, 200))}
    @@ m3 :> {Hot(u1, 10300), Http(Hot(u1, Minutes(45))), Cold(u1, Minutes(100)),
              Cold(u2, Minutes(1))}
=============================================================================
