----------------------------- MODULE CargoViews -----------------------------
(***************************************************************************)
(* The dashboard's reads over the custody stores: CargoCustody composed    *)
(* with the read models.  A page asks for one view at a time; every store  *)
(* the answer is built from is read by an awaited call of its own, between *)
(* which custody requests go on and the server may crash.                  *)
(*                                                                         *)
(* Views are not mere readers: getState of a cargo Redis does not hold     *)
(* writes what it found in the ledger store back to Redis.                 *)
(***************************************************************************)
EXTENDS CargoCustody, ReadModels

CONSTANTS
    flightOf,           \* flightOf[c]: the flight every scan of a cargo names
    locationOf,         \* locationOf[r], teamOf[r], handlerOf[r]: where request r
    teamOf, handlerOf,  \*    scans, for which team, and by whose hand
    LiveShipments,      \* shipments the live feed asks the history of (20)
    RecentEvents,       \* events of each history it shows (10)
    MaxViews            \* bound: views asked for, replays not counted

ASSUME ViewBoundsAssumption ==
    /\ IsFiniteSet(Cargo)
    /\ LiveShipments \in Nat \ {0} /\ RecentEvents \in Nat \ {0} /\ MaxViews \in Nat

VARIABLES
    view,       \* the view being read or shown
    links,      \* the events whose replay the page was offered
    views,      \* views asked for so far
    raced       \* observation: requests in flight on a cargo while a view held
                \* a state of it that it was about to write back

viewVars == <<view, links, views, raced>>
allVars == <<vars, viewVars>>

ListViews == {"control-center", "control-tower", "live-events"}
StateViews == {"risk", "chain-of-custody"}
ReadStages == {"alerts", "list", "listLedger", "state", "load", "fill",
               "evidence", "history", "historyLedger"}
NoCargo == "no cargo"

\* history[c] holds event ids, newest first; before, the requests that were
\* answered when the view was asked for; found, whether a replay was.
NoView ==
    [kind |-> "none", stage |-> "idle", cargo |-> NoCargo, before |-> {}, epoch |-> 0,
     alerts |-> {}, tasks |-> {}, list |-> <<>>, state |-> NoState,
     history |-> <<>>, link |-> Nobody, markers |-> {}]

Reading == view.stage \in ReadStages

\* The row cargo:index holds for a cargo: its state, with the flight, place
\* and team of the event it is the snapshot of.
Shipment(c, s) ==
    [cargoId |-> c, flight |-> flightOf[c],
     currentLocation |-> locationOf[s.custodian], currentTeam |-> teamOf[s.custodian],
     touchedBy |-> {handlerOf[r] : r \in s.touched},
     lastUpdatedAt |-> body[s.custodian].at, lastAction |-> s.action,
     currentStatus |-> normalizeCargoStatus(s.action),
     riskScore |-> s.risk, riskLevel |-> riskLevel(s.risk),
     chainBroken |-> s.chainBroken, stopLoad |-> s.stopLoad,
     currentCustodian |-> s.custodian]

rowsOf(states) == {Shipment(c, states[c]) : c \in {d \in Cargo : states[d] # NoState}}

\* The two actions orchestrateCargoIncident opens for a cargo; "Supervision"
\* stands for the Security Supervisor or, the chain unbroken, for Ops Control.
tasksOf(cargos) ==
    [cargoId : cargos, assignedRole : {"Cargo Team", "Supervision"}]

InitViews ==
    /\ Init
    /\ view = NoView
    /\ links = {}
    /\ views = 0
    /\ raced = {}
-----------------------------------------------------------------------------
\* A page asks for a view.
Ask(kind, c) ==
    /\ ~Reading
    /\ views < MaxViews
    /\ views' = views + 1
    /\ view' = [NoView EXCEPT
          !.kind = kind, !.cargo = c, !.epoch = epoch,
          !.before = {r \in Requests : pc[r] = "done"},
          !.stage = CASE kind = "control-center" -> "list"
                      [] kind \in ListViews \ {"control-center"} -> "alerts"
                      [] kind \in StateViews -> "state"
                      [] kind = "video" -> "evidence"]
    /\ UNCHANGED <<vars, links, raced>>

\* Opening a replay the page was offered.
OpenReplay(r) ==
    /\ ~Reading
    /\ r \in links
    /\ view' = [NoView EXCEPT !.kind = "replay", !.cargo = cargoOf(r), !.link = r,
                              !.stage = "evidence"]
    /\ UNCHANGED <<vars, links, views, raced>>

\* getAlerts and listPendingActions.
ReadAlerts ==
    /\ view.stage = "alerts"
    /\ view' = [view EXCEPT !.alerts = alerts, !.tasks = tasksOf(holds), !.stage = "list"]
    /\ UNCHANGED <<vars, links, views, raced>>

shown(list) == IF view.kind = "live-events" THEN Slice(list, LiveShipments) ELSE list
afterList == IF view.kind = "live-events" THEN "history" ELSE "answered"

\* Mutant of ReadIndex: an empty index is an answer.
ReadIndexOnly ==
    /\ view.stage = "list"
    /\ view' = [view EXCEPT !.list = newestFirst(rowsOf(redisState)), !.stage = afterList]
    /\ UNCHANGED <<vars, links, views, raced>>

\* CargoRepository.listCargo: the index in Redis, and only when that is empty
\* the ledger store.
ReadIndex ==
    /\ view.stage = "list"
    /\ LET rows == rowsOf(redisState) IN
       view' = [view EXCEPT !.list = newestFirst(rows),
                            !.stage = IF rows = {} THEN "listLedger" ELSE afterList]
    /\ UNCHANGED <<vars, links, views, raced>>

ReadLedgerList ==
    /\ view.stage = "listLedger"
    /\ view' = [view EXCEPT !.list = newestFirst(rowsOf(ledgerState)), !.stage = afterList]
    /\ UNCHANGED <<vars, links, views, raced>>

\* getState of the views on one cargo: Redis, the ledger store, write-back.
ReadState ==
    /\ view.stage = "state"
    /\ LET s == redisState[view.cargo] IN
       view' = [view EXCEPT !.state = s,
                            !.stage = IF s = NoState THEN "load"
                                      ELSE IF view.kind = "risk" THEN "answered" ELSE "history"]
    /\ UNCHANGED <<vars, links, views, raced>>

ReadLedgerState ==
    /\ view.stage = "load"
    /\ LET s == ledgerState[view.cargo] IN
       /\ view' = [view EXCEPT !.state = s,
                               !.stage = IF s # NoState THEN "fill"
                                         ELSE IF view.kind = "risk" THEN "answered" ELSE "history"]
       /\ raced' = IF s = NoState THEN raced
                   ELSE raced \cup {r \in InFlight : cargoOf(r) = view.cargo}
    /\ UNCHANGED <<vars, links, views>>

WriteBack ==
    /\ view.stage = "fill"
    /\ redisState' = [redisState EXCEPT ![view.cargo] = view.state]
    /\ view' = [view EXCEPT !.stage = IF view.kind = "risk" THEN "answered" ELSE "history"]
    /\ UNCHANGED <<requestVars, redisLedger, alerts, holds, durableVars, ghostVars,
                   links, views, raced>>

\* getVideo and getReplay look for stored evidence first, and then through the
\* history; a photo or a video makes an event of the history a link.
ReadEvidence ==
    /\ view.stage = "evidence" /\ view.kind = "video"
    /\ LET rows == {r \in evidence : cargoOf(r) = view.cargo} IN
       IF rows = {}
       THEN view' = [view EXCEPT !.stage = "history"] /\ UNCHANGED links
       ELSE /\ view' = [view EXCEPT !.stage = "answered"]
            /\ links' = links \cup rows
    /\ UNCHANGED <<vars, views, raced>>

\* buildReplayMetadata and buildReplayFromEvent: a marker per camera finding,
\* or the checkpoint.
markersOf(r) ==
    LET findings == {f \in {"brokenSeal", "swap", "damage"} : body[r][f]}
    IN IF findings = {} THEN {"checkpoint"} ELSE findings

\* Mutant of ReadReplayEvidence: no stored evidence, no replay.
ReadReplayEvidenceOnly ==
    /\ view.stage = "evidence" /\ view.kind = "replay"
    /\ view' = [view EXCEPT !.markers = IF view.link \in evidence THEN markersOf(view.link) ELSE {},
                            !.stage = "answered"]
    /\ UNCHANGED <<vars, links, views, raced>>

\* The markers stored with the evidence.  The in-memory ledger store keeps none:
\* the answer is then buildReplayResponse's default, whatever the camera found.
storedMarkers(r) == IF LedgerMayBeLost THEN {"checkpoint"} ELSE markersOf(r)

ReadReplayEvidence ==
    /\ view.stage = "evidence" /\ view.kind = "replay"
    /\ view' =
          IF view.link \in evidence
          THEN [view EXCEPT !.markers = storedMarkers(view.link), !.stage = "answered"]
          ELSE [view EXCEPT !.stage = "history"]
    /\ UNCHANGED <<vars, links, views, raced>>
-----------------------------------------------------------------------------
\* The cargos a view asks the history of.
historyOf == IF view.kind = "live-events"
             THEN {s.cargoId : s \in ToSet(shown(view.list))} ELSE {view.cargo}

idsOf(events) == [i \in DOMAIN events |-> events[i].id]

\* The rows of cargo_ledger_events, the latest timestamp first.
ledgerHistory(c) ==
    idsOf(sortedBy(ledger[c], [e \in ledger[c] |-> body[e.id].at]))

\* What the answer makes of the histories: replay links, or a replay found.
Answer(histories) ==
    LET ids == UNION {ToSet(histories[c]) : c \in DOMAIN histories} IN
    /\ view' = [view EXCEPT
          !.history = histories, !.stage = "answered",
          !.markers = IF view.kind = "replay" /\ view.link \in ids
                      THEN markersOf(view.link) ELSE {}]
    /\ links' = IF view.kind = "video"
                THEN links \cup {r \in ids : body[r].media}
                ELSE links

\* CargoRepository.getHistory: the list in Redis, and only when that is empty
\* the ledger store.
ReadHistory ==
    /\ view.stage = "history"
    /\ LET cached == [c \in historyOf |-> idsOf(redisLedger[c])] IN
       IF \A c \in historyOf : cached[c] # <<>>
       THEN Answer(cached)
       ELSE /\ view' = [view EXCEPT !.history = cached, !.stage = "historyLedger"]
            /\ UNCHANGED links
    /\ UNCHANGED <<vars, views, raced>>

ReadLedgerHistory ==
    /\ view.stage = "historyLedger"
    /\ Answer([c \in DOMAIN view.history |->
                  IF view.history[c] # <<>> THEN view.history[c] ELSE ledgerHistory(c)])
    /\ UNCHANGED <<vars, views, raced>>

\* Mutant of recentEvents: the first events of the timeline, slice(0, 10).
oldestEvents(history) == Slice(Reverse(history), RecentEvents)

\* buildLiveEventsPayload turns a history round and shows its last events.
recentEvents(history) == SliceEnd(Reverse(history), RecentEvents)

\* The timeline an answer shows of a cargo.
timeline(c) == IF view.kind = "live-events" THEN recentEvents(view.history[c])
               ELSE Reverse(view.history[c])
-----------------------------------------------------------------------------
\* A custody request goes on.  One that begins while a view holds a state of
\* its cargo to write back is noted.
BeginRequest(r) ==
    /\ Begin(r)
    /\ raced' = IF view.stage = "fill" /\ body'[r].cargo = view.cargo
                THEN raced \cup {r} ELSE raced
    /\ UNCHANGED <<view, links, views>>

StepRequest(r) == Step(r) /\ UNCHANGED viewVars

\* The server process ends, the answer it was building with it.
CrashServer ==
    /\ Crash
    /\ view' = NoView
    /\ UNCHANGED <<links, views, raced>>

ViewStep ==
    \/ ReadAlerts \/ ReadIndex \/ ReadLedgerList
    \/ ReadState \/ ReadLedgerState \/ WriteBack
    \/ ReadEvidence \/ ReadReplayEvidence \/ ReadHistory \/ ReadLedgerHistory

AllFinished == Finished /\ ~Reading /\ UNCHANGED viewVars

NextWithViews ==
    \/ \E r \in Requests : BeginRequest(r) \/ StepRequest(r) \/ OpenReplay(r)
    \/ \E kind \in ListViews : Ask(kind, NoCargo)
    \/ \E kind \in StateViews \cup {"video"}, c \in Cargo : Ask(kind, c)
    \/ ViewStep
    \/ CrashServer
    \/ AllFinished

SpecWithViews == InitViews /\ [][NextWithViews]_allVars
-----------------------------------------------------------------------------
Answered(kinds) == view.stage = "answered" /\ view.kind \in kinds
listed == {s.cargoId : s \in ToSet(view.list)}

\* No other request on the cargo overlapped r, and no view wrote a state back
\* over it.
Undisturbed(r) == RanAlone(r) /\ r \notin raced

\* No event of the cargo was recorded, or begun, after that of r.
Newest(r) ==
    \A q \in Requests \ {r} :
        (cargoOf(q) = cargoOf(r) /\ pc[q] # "idle") => q \in event[r].state.touched

\* The list of a cargo is as long as Redis keeps it: older events may be gone.
MayBeTrimmed(c) == Len(redisLedger[c]) = Retention

\* A shipment is shown as the newest event left it: broken in the graph and to
\* the copilot, held in its flight's row and in the assistant's context, and
\* ranked by its risk.
ShownAs(s, list) ==
    /\ s.chainBroken =>
          /\ [id |-> <<"cargo", s.cargoId>>, custodyState |-> "BROKEN"]
                \in {cargoNode(x) : x \in ToSet(list)}
          /\ s.cargoId \in brokenChainMatches(list)
          /\ flights(list)[s.flight].chainBrokenCount > 0
    /\ s.stopLoad =>
          /\ flights(list)[s.flight].stopLoadCount > 0
          /\ aiOpsContext({}, list).stopLoadCargo > 0
    /\ s.riskLevel # "LOW" => \A x \in ToSet(aiOpsContext({}, list).highestRiskCargo) :
                                 x.riskScore >= s.riskScore
    /\ \A x \in ToSet(highestTheftRisk(list)) : theftRisk(x) >= theftRisk(s)

\* A handler is shown with a cargo to the stakeholders and in the graph.
HandlerShown(handler, c) ==
    LET parties == stakeholders(view.tasks, view.list)
    IN /\ handler \in partiesWithCustody(parties) /\ c \in parties[handler].cargoIds
       /\ <<"actor", handler>> \in graphNodes(view.list)
       /\ \E edge \in graphEdges(view.list) :
             edge.from = <<"cargo", c>> /\ edge.to = <<"actor", handler>>

\* What a request was answered with is what every view asked for afterwards
\* shows: its handler among those who touched the cargo and, while its event
\* is the cargo's newest, the broken chain and the stopped load in every
\* figure computed from the list; and its event in the timeline.  Except that
\* the list leaves the cargo out once Redis was lost and another cargo has been
\* stored in the new index, and the timeline what was lost with Redis or is
\* more than Redis keeps.
AnsweredEventIsShown ==
    ~LedgerMayBeLost =>
        \A r \in view.before :
            LET c == cargoOf(r)
                expected == Shipment(c, event[r].state) IN
            Undisturbed(r) =>
                /\ Answered(ListViews) =>
                     \/ c \notin listed /\ listed # {} /\ event[r].epoch < view.epoch
                     \/ /\ HandlerShown(handlerOf[r], c)
                        /\ Newest(r) => /\ expected \in ToSet(view.list)
                                        /\ ShownAs(expected, view.list)
                /\ Answered(StateViews) /\ c = view.cargo =>
                     /\ r \in view.state.touched
                     /\ Newest(r) => view.state = event[r].state
                     /\ \/ view.kind = "risk" \/ r \in ToSet(timeline(c))
                        \/ event[r].epoch < view.epoch \/ MayBeTrimmed(c)

\* The tower never shows an alert or a task of a cargo it does not list: an
\* incident is raised only after the state is in the index.
AlertedCargoIsListed ==
    Answered({"control-tower"}) =>
        /\ {cargoOf(r) : r \in view.alerts} \subseteq listed
        /\ {t.cargoId : t \in view.tasks} \subseteq listed

\* e was recorded no earlier than f: pushed to the list Redis holds later, in
\* a later incarnation of Redis or, both read from the ledger store, with a
\* timestamp that is not older.  Of two that are trimmed the order is lost.
NotBefore(c, e, f) ==
    LET list == redisLedger[c]
        at(id) == {i \in DOMAIN list : list[i].id = id} IN
    \/ e = f
    \/ event[e].epoch > event[f].epoch
    \/ \E i \in at(e), j \in at(f) : i < j
    \/ at(f) = {} /\ (body[e].at >= body[f].at \/ MayBeTrimmed(c))

\* A timeline is never behind the state it is shown with: it holds the event
\* the state is the snapshot of, or one recorded later, although state and
\* history are read one after the other from two stores that lag each other.
TimelineCatchesUp ==
    ~LedgerMayBeLost =>
        /\ Answered({"chain-of-custody"}) /\ view.state # NoState =>
              \E e \in ToSet(timeline(view.cargo)) :
                  NotBefore(view.cargo, e, view.state.custodian)
        /\ Answered({"live-events"}) =>
              \A s \in ToSet(shown(view.list)) :
                  \E e \in ToSet(timeline(s.cargoId)) :
                      NotBefore(s.cargoId, e, s.currentCustodian)

\* A replay link the page was offered opens the replay, with a marker for
\* every camera finding, unless Redis was lost since the event was recorded and
\* its evidence never reached the ledger store, or Redis has trimmed the event.
OfferedReplayOpens ==
    Answered({"replay"}) =>
        \/ ~LedgerMayBeLost /\ view.markers = markersOf(view.link)
        \/ LedgerMayBeLost /\ view.markers # {}
        \/ view.link \notin evidence /\ event[view.link].epoch < epoch
        \/ MayBeTrimmed(view.cargo)
=============================================================================
