------------------------------ MODULE FlightFeed ------------------------------
(***************************************************************************)
(* The realtime service of the control tower page (realtimeService.ts),    *)
(* one object for the life of the browser tab, and the page that starts it *)
(* when it is mounted and stops it when it is unmounted.                   *)
(*                                                                         *)
(* A socket of the service reports to the service whether or not it is the *)
(* one that the service remembers, so what keeps a socket open, a timer to *)
(* connect again and a fallback to polling are counted, not named.  Of a   *)
(* ULD the model keeps the band of its temperature and its risk; of the    *)
(* alerts, which are there and whether they were simulated.  The server of *)
(* the sockets may accept or refuse them, and send what it likes.          *)
(***************************************************************************)
EXTENDS Naturals, FiniteSets

CONSTANTS
    Sockets,                \* names for the sockets that are not closed
    Ulds, Flights,
    InitialFlights,         \* the flights that startSimulation makes
    AlertIds,               \* names for alerts other than the initial ones
    maxReconnectAttempts,   \* 5
    MaxStarts,              \* bound: mounts of the page
    NoSocket

ASSUME FeedAssumption ==
    /\ NoSocket \notin Sockets /\ MaxStarts \in Nat /\ maxReconnectAttempts \in Nat
    /\ IsFiniteSet(Sockets) /\ Cardinality(Sockets) >= MaxStarts
    /\ InitialFlights \subseteq Flights

Bands == 0 .. 2     \* up to 6 degrees, up to 8, above
Risks == {"LOW", "MEDIUM", "HIGH", "CRITICAL"}
Alert == [id : AlertIds \cup {"initial"}, severity : {"INFO", "WARN", "HIGH", "CRITICAL"},
          simulated : BOOLEAN]
initialAlerts == [id : {"initial"}, severity : {"INFO", "WARN", "HIGH", "CRITICAL"},
                  simulated : {FALSE}]

VARIABLES
    sockets,        \* sockets[s]: "none", "connecting", "open" or "closing"
    ws,             \* the socket that the service remembers
    reconnectAttempts,
    timers,         \* timeouts that will connect again
    pollings,       \* how often startPolling set its three intervals
    simulations,    \* intervals of the simulation that are set
    flightData, uldData, alertData,
    mounted,        \* is the page there, with its four subscriptions?
    flights, alerts,        \* what the page shows
    isRealtimeConnected,
    starts          \* observation: calls of start

linkVars == <<sockets, ws, reconnectAttempts, timers, pollings>>
dataVars == <<flightData, uldData, alertData>>
pageVars == <<mounted, flights, alerts, isRealtimeConnected>>
feedVars == <<linkVars, simulations, dataVars, pageVars, starts>>

inState(st) == {s \in Sockets : sockets[s] = st}

\* Before the first mount; the data that startSimulation makes is taken to be
\* there, and nobody looks at it before.
FeedInit ==
    /\ sockets = [s \in Sockets |-> "none"] /\ ws = NoSocket
    /\ reconnectAttempts = 0 /\ timers = 0 /\ pollings = 0 /\ simulations = 0
    /\ flightData = {} /\ alertData = {}
    /\ uldData = [u \in Ulds |-> [band |-> 0, risk |-> "LOW"]]
    /\ mounted = FALSE /\ flights = {} /\ alerts = {} /\ isRealtimeConnected = FALSE
    /\ starts = 0
-----------------------------------------------------------------------------
(* The link: connect, attemptReconnect, startPolling, disconnect *)

\* Mutant of attemptReconnect: it counts when it gives up only.
attemptUncounted ==
    IF reconnectAttempts < maxReconnectAttempts
    THEN timers' = timers + 1 /\ UNCHANGED <<reconnectAttempts, pollings>>
    ELSE pollings' = pollings + 1 /\ UNCHANGED <<reconnectAttempts, timers>>

\* attemptReconnect, which does not ask why the socket was closed
attemptReconnect ==
    IF reconnectAttempts < maxReconnectAttempts
    THEN /\ reconnectAttempts' = reconnectAttempts + 1
         /\ timers' = timers + 1
         /\ UNCHANGED pollings
    ELSE pollings' = pollings + 1 /\ UNCHANGED <<reconnectAttempts, timers>>

\* connect: the socket that was remembered is forgotten, not closed.
connect(used) ==
    \E s \in Sockets :
        /\ used[s] = "none"
        /\ sockets' = [used EXCEPT ![s] = "connecting"]
        /\ ws' = s

\* A timeout of attemptReconnect fires.
Reconnect ==
    /\ timers > 0
    /\ timers' = timers - 1
    /\ connect(sockets)
    /\ UNCHANGED <<reconnectAttempts, pollings, simulations, dataVars, pageVars, starts>>

OnOpen(s) ==
    /\ sockets[s] = "connecting"
    /\ sockets' = [sockets EXCEPT ![s] = "open"]
    /\ reconnectAttempts' = 0
    /\ isRealtimeConnected' = (isRealtimeConnected \/ mounted)
    /\ UNCHANGED <<ws, timers, pollings, simulations, dataVars, mounted, flights, alerts, starts>>

\* Mutant of OnClose: an error and the close that follows it both try again.
OnCloseAndError(s) ==
    /\ sockets[s] # "none"
    /\ sockets' = [sockets EXCEPT ![s] = "none"]
    /\ ws' = IF ws = s THEN NoSocket ELSE ws
    /\ timers' = timers + 2
    /\ UNCHANGED <<reconnectAttempts, pollings, simulations, dataVars, pageVars, starts>>

\* onclose: refused, lost, or closed by the service itself
OnClose(s) ==
    /\ sockets[s] # "none"
    /\ sockets' = [sockets EXCEPT ![s] = "none"]
    /\ ws' = IF ws = s THEN NoSocket ELSE ws
    /\ attemptReconnect
    /\ UNCHANGED <<simulations, dataVars, pageVars, starts>>
-----------------------------------------------------------------------------
(* handleMessage of an open socket *)

FlightUpdate(s, f) ==
    /\ sockets[s] = "open"
    /\ flightData' = flightData \cup {f}
    /\ flights' = IF mounted THEN flightData' ELSE flights
    /\ UNCHANGED <<linkVars, simulations, uldData, alertData, mounted, alerts, isRealtimeConnected,
                   starts>>

UldUpdate(s, u, state) ==
    /\ sockets[s] = "open"
    /\ uldData' = [uldData EXCEPT ![u] = state]
    /\ UNCHANGED <<linkVars, simulations, flightData, alertData, pageVars, starts>>

withAlert(a) == {b \in alertData : b.id # a.id} \cup {a}

\* Mutant of AlertMessage: only the listeners to the one alert are told.
AlertMessageOnly(s, a) ==
    /\ sockets[s] = "open"
    /\ alertData' = withAlert(a)
    /\ UNCHANGED <<linkVars, simulations, flightData, uldData, pageVars, starts>>

AlertMessage(s, a) ==
    /\ sockets[s] = "open"
    /\ alertData' = withAlert(a)
    /\ alerts' = IF mounted THEN alertData' ELSE alerts
    /\ UNCHANGED <<linkVars, simulations, flightData, uldData, mounted, flights, isRealtimeConnected,
                   starts>>
-----------------------------------------------------------------------------
(* The simulation *)

riskOf(band) == IF band = 2 THEN "HIGH" ELSE IF band = 1 THEN "MEDIUM" ELSE "LOW"

\* updateULDPositions: the temperature moves by a tenth of a degree at most,
\* and the risk is made from it anew.
moved(u) == {[band |-> b, risk |-> riskOf(b)] : b \in {x \in Bands :
                 x <= uldData[u].band + 1 /\ uldData[u].band <= x + 1}}

severityOf(risk) == IF risk = "CRITICAL" THEN "CRITICAL" ELSE "HIGH"

\* maybeGenerateAlert: "alert" is emitted, to which the page does not listen.
maybeGenerateAlert(before, after) ==
    \/ UNCHANGED alertData
    \/ \E u \in Ulds, id \in AlertIds :
          /\ after[u].risk \in {"HIGH", "CRITICAL"} /\ \A a \in alertData : a.id # id
          /\ alertData' = withAlert([id |-> id, severity |-> severityOf(after[u].risk),
                                     simulated |-> TRUE])

\* One firing of the interval.
Simulate ==
    /\ simulations > 0
    /\ uldData' \in [Ulds -> [band : Bands, risk : Risks]]
    /\ \A u \in Ulds : uldData'[u] \in moved(u)
    /\ maybeGenerateAlert(uldData, uldData')
    /\ UNCHANGED <<linkVars, simulations, flightData, pageVars, starts>>
-----------------------------------------------------------------------------
(* The page *)

\* startSimulation, whose flights have the same numbers every time, and whose
\* ULDs may have any risk at any temperature up to 8 degrees.
startSimulation ==
    /\ simulations' = simulations + 1
    /\ flightData' = flightData \cup InitialFlights
    /\ uldData' \in [Ulds -> [band : {0, 1}, risk : Risks]]
    /\ alertData' = alertData \cup initialAlerts

\* The effect of the page: start, subscribe, and show what there is.
Mount ==
    /\ ~mounted /\ starts < MaxStarts
    /\ mounted' = TRUE /\ starts' = starts + 1 /\ isRealtimeConnected' = FALSE
    /\ connect(sockets)
    /\ UNCHANGED <<reconnectAttempts, timers, pollings>>
    /\ startSimulation
    /\ flights' = flightData' /\ alerts' = alertData'

\* Its cleanup: stop closes the socket that is remembered and the interval,
\* and leaves the timeouts, the pollings and the other sockets.
Unmount ==
    /\ mounted
    /\ mounted' = FALSE
    /\ sockets' = IF ws = NoSocket THEN sockets ELSE [sockets EXCEPT ![ws] = "closing"]
    /\ ws' = NoSocket
    /\ simulations' = 0
    /\ UNCHANGED <<reconnectAttempts, timers, pollings, dataVars, flights, alerts,
                   isRealtimeConnected, starts>>

FeedNext ==
    \/ Reconnect
    \/ \E s \in Sockets :
          \/ OnOpen(s) \/ OnClose(s)
          \/ \E f \in Flights : FlightUpdate(s, f)
          \/ \E u \in Ulds, b \in Bands, r \in Risks : UldUpdate(s, u, [band |-> b, risk |-> r])
          \/ \E id \in AlertIds : AlertMessage(s, [id |-> id, severity |-> "WARN", simulated |-> FALSE])
    \/ Simulate \/ Mount \/ Unmount

\* A timeout fires, and a socket that connects is accepted or refused.
FeedSpec ==
    /\ FeedInit /\ [][FeedNext]_feedVars
    /\ WF_feedVars(Reconnect)
    /\ \A s \in Sockets : WF_feedVars(sockets[s] # "open" /\ (OnOpen(s) \/ OnClose(s)))
-----------------------------------------------------------------------------
\* Whatever was started goes on for good: for every call of start there is a
\* socket, a timeout that will open one, or a polling, after stop as before.
LoopPerStart ==
    Cardinality(Sockets \ inState("none")) + timers + pollings = starts

\* The page shows every flight and every alert that the service has, but for
\* alerts of the simulation; and the service simulates while the page is there.
PageShowsService ==
    /\ mounted => flights = flightData /\ alerts \subseteq alertData
                  /\ \A a \in alertData \ alerts : a.simulated
    /\ simulations = 1 <=> mounted

\* A start comes to an open socket, or to polling.
ConnectsOrPolls == starts > 0 ~> inState("open") # {} \/ pollings > 0
=============================================================================
