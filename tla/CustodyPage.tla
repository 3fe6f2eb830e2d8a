----------------------------- MODULE CustodyPage -----------------------------
(***************************************************************************)
(* The cargo custody page of the browser (CargoCustodyPage.tsx) from the   *)
(* moment it is mounted: what it shows, the requests it has in flight, its *)
(* socket, and the backend reduced to a version for each cargo.            *)
(*                                                                         *)
(* Every function of the page is a closure of the render that made it, and *)
(* every answer is applied when it comes, whatever was asked since.        *)
(* loadShipment asks for the parts of a shipment one by one and shows them *)
(* together; bootstrap asks for the list, of which only the presence is    *)
(* kept.  A request beyond the bound on those in flight is one that fails  *)
(* at once.  The activity feed and the replay player are left out.         *)
(***************************************************************************)
EXTENDS Naturals, Sequences, SequencesExt

CONSTANTS
    Shipments,      \* the shipments that the backend has
    First,          \* the one that the page starts with
    Parts,          \* what loadShipment asks for: custody, risk, location, video
    MaxEvents,      \* bound: events of a cargo
    MaxLoads,       \* bound: loadShipment in flight
    MaxBoots,       \* bound: bootstrap in flight
    NoShipment

ASSUME PageAssumption ==
    /\ First \in Shipments
    /\ NoShipment \notin Shipments \cup [cargo : Shipments, read : [Parts -> 0 .. MaxEvents]]
    /\ MaxEvents \in Nat /\ {MaxLoads, MaxBoots} \subseteq Nat \ {0}

VARIABLES
    version,    \* version[c]: events that the backend has recorded of c
    selected,   \* selectedCargoId
    control,    \* is the list there?
    shown,      \* custody, risk, location and video
    task,       \* busy, and what submitAction or askCopilot waits for
    loads,      \* loadShipment in flight, in the order they were asked
    boots,      \* bootstrap in flight: is it the action's?
    socket,     \* "connecting" | "connected"
    wire,       \* cargo-events sent to the socket and not handled yet
    excuse      \* observation: why the shipment on the page may be out of date

screenVars == <<selected, control, shown>>
callVars == <<task, loads, boots>>
socketVars == <<socket, wire>>
custodyPageVars == <<version, screenVars, callVars, socketVars, excuse>>

Idle == [at |-> "idle", cargo |-> NoShipment]
busy == task # Idle

newLoad(c, byTask) == [cargo |-> c, read |-> <<>>, late |-> FALSE, task |-> byTask]

\* The first render and its effects.
PageInit ==
    /\ version = [c \in Shipments |-> 0]
    /\ selected = First /\ control = FALSE /\ shown = NoShipment /\ task = Idle
    /\ loads = <<newLoad(First, FALSE)>> /\ boots = <<FALSE>>
    /\ socket = "connecting" /\ wire = <<>>
    /\ excuse = {}
-----------------------------------------------------------------------------
(* Requests *)

\* loadShipment(c) is called.
StartLoad(c, byTask) ==
    IF Len(loads) < MaxLoads
    THEN /\ loads' = Append(loads, newLoad(c, byTask))
         /\ excuse' = IF c = selected' THEN {} ELSE excuse \cup {"stray"}
    ELSE /\ UNCHANGED loads
         /\ excuse' = excuse \cup {"failed"}

\* bootstrap() is called.
StartBoot(byTask) ==
    IF Len(boots) < MaxBoots THEN boots' = Append(boots, byTask) ELSE UNCHANGED boots

\* The loads once the i-th of them is answered: those asked before it are late.
answered(i) ==
    [j \in 1 .. Len(loads) - 1 |->
        IF j < i THEN [loads[j] EXCEPT !.late = TRUE] ELSE loads[j + 1]]

\* The backend reads a part for a load.
ReadPart(i, p) ==
    /\ i \in DOMAIN loads /\ p \in Parts \ DOMAIN loads[i].read
    /\ loads' = [loads EXCEPT ![i].read =
          [q \in DOMAIN @ \cup {p} |-> IF q = p THEN version[loads[i].cargo] ELSE @[q]]]
    /\ UNCHANGED <<version, screenVars, task, boots, socketVars, excuse>>

\* All the parts are answered: they are shown together.
ShowShipment(i) ==
    /\ i \in DOMAIN loads /\ DOMAIN loads[i].read = Parts
    /\ shown' = [cargo |-> loads[i].cargo, read |-> loads[i].read]
    /\ loads' = answered(i)
    /\ task' = IF loads[i].task THEN Idle ELSE task
    /\ excuse' = IF loads[i].late THEN excuse \cup {"late"} ELSE excuse
    /\ UNCHANGED <<version, selected, control, boots, socketVars>>

\* A part is refused or times out: nothing is shown.
FailLoad(i) ==
    /\ i \in DOMAIN loads
    /\ loads' = RemoveAt(loads, i)
    /\ task' = IF loads[i].task THEN Idle ELSE task
    /\ excuse' = IF i = Len(loads) /\ ~loads[i].late THEN excuse \cup {"failed"} ELSE excuse
    /\ UNCHANGED <<version, screenVars, boots, socketVars>>

\* The rest of submitAction once its bootstrap is answered.
GoOnToLoad(c) ==
    /\ StartLoad(c, TRUE)
    /\ task' = IF loads' = loads THEN Idle ELSE [task EXCEPT !.at = "loading"]

\* bootstrap: the list is shown.
ShowList(i) ==
    /\ i \in DOMAIN boots
    /\ control' = TRUE
    /\ boots' = RemoveAt(boots, i)
    /\ UNCHANGED selected
    /\ IF boots[i] THEN GoOnToLoad(task.cargo) ELSE UNCHANGED <<task, loads, excuse>>
    /\ UNCHANGED <<version, shown, socketVars>>

FailBoot(i) ==
    /\ i \in DOMAIN boots
    /\ boots' = RemoveAt(boots, i)
    /\ task' = IF boots[i] THEN Idle ELSE task
    /\ UNCHANGED <<version, screenVars, loads, socketVars, excuse>>
-----------------------------------------------------------------------------
(* The backend and the socket *)

\* An event of c is recorded and announced to the socket.
Record(c) ==
    /\ version[c] < MaxEvents
    /\ version' = [version EXCEPT ![c] = @ + 1]
    /\ IF socket = "connected"
       THEN wire' = Append(wire, c) /\ UNCHANGED excuse
       ELSE /\ excuse' = IF c = selected THEN excuse \cup {"unheard"} ELSE excuse
            /\ UNCHANGED wire

\* Another user's event.
RecordElsewhere(c) == Record(c) /\ UNCHANGED <<screenVars, callVars, socket>>

Connect ==
    /\ socket = "connecting"
    /\ socket' = "connected"
    /\ UNCHANGED <<version, screenVars, callVars, wire, excuse>>

\* The connection is lost; what was on the wire is not sent again.
Disconnect ==
    /\ socket = "connected"
    /\ socket' = "connecting" /\ wire' = <<>>
    /\ excuse' = IF selected \in Range(wire) THEN excuse \cup {"unheard"} ELSE excuse
    /\ UNCHANGED <<version, screenVars, callVars>>

\* Mutant of HearEvent: only the list is asked for.
HearEventOfList ==
    /\ wire # <<>>
    /\ wire' = Tail(wire)
    /\ StartBoot(FALSE)
    /\ UNCHANGED <<version, screenVars, task, loads, socket, excuse>>

\* The handler of cargo-event
HearEvent ==
    /\ wire # <<>>
    /\ wire' = Tail(wire)
    /\ StartBoot(FALSE)
    /\ UNCHANGED selected
    /\ IF Head(wire) = selected THEN StartLoad(selected, FALSE) ELSE UNCHANGED <<loads, excuse>>
    /\ UNCHANGED <<version, control, shown, task, socket>>
-----------------------------------------------------------------------------
(* The user *)

\* A shipment of the list is clicked: its load is asked for, and the socket
\* is given up for a new one.
Select(c) ==
    /\ control /\ c # selected
    /\ selected' = c
    /\ StartLoad(c, FALSE)
    /\ socket' = "connecting" /\ wire' = <<>>
    /\ UNCHANGED <<version, control, shown, task, boots>>

\* submitAction: the event is of the shipment shown, which may not be the one
\* selected.
SubmitAction ==
    /\ shown # NoShipment /\ ~busy
    /\ task' = [at |-> "posting", cargo |-> shown.cargo]
    /\ UNCHANGED <<version, screenVars, loads, boots, socketVars, excuse>>

Post ==
    /\ task.at = "posting"
    /\ Record(task.cargo)
    /\ task' = [task EXCEPT !.at = "posted"]
    /\ UNCHANGED <<screenVars, loads, boots, socket>>

AnswerPost ==
    /\ task.at = "posted"
    /\ StartBoot(TRUE)
    /\ task' = IF boots' = boots THEN Idle ELSE [task EXCEPT !.at = "booting"]
    /\ UNCHANGED <<version, screenVars, loads, socketVars, excuse>>

AskCopilot ==
    /\ ~busy
    /\ task' = [Idle EXCEPT !.at = "asking"]
    /\ UNCHANGED <<version, screenVars, loads, boots, socketVars, excuse>>

AnswerCopilot ==
    /\ task.at = "asking"
    /\ task' = Idle
    /\ UNCHANGED <<version, screenVars, loads, boots, socketVars, excuse>>

\* Mutant of FailTask: busy is cleared after the answer only.
FailTaskBusy ==
    /\ task.at = "asking"
    /\ task' = Idle
    /\ UNCHANGED <<version, screenVars, loads, boots, socketVars, excuse>>

\* The POST is refused or times out, before or after the backend recorded.
FailTask ==
    /\ task.at \in {"posting", "posted", "asking"}
    /\ task' = Idle
    /\ UNCHANGED <<version, screenVars, loads, boots, socketVars, excuse>>

Answers ==
    \/ \E i \in DOMAIN loads : (\E p \in Parts : ReadPart(i, p)) \/ ShowShipment(i) \/ FailLoad(i)
    \/ \E i \in DOMAIN boots : ShowList(i) \/ FailBoot(i)
    \/ AnswerPost \/ AnswerCopilot \/ FailTask

PageNext ==
    \/ Answers
    \/ \E c \in Shipments : RecordElsewhere(c) \/ Select(c)
    \/ Connect \/ Disconnect \/ HearEvent
    \/ SubmitAction \/ Post \/ AskCopilot

\* Every request has a timeout of eight seconds.
TaskAnswers ==
    \/ AnswerPost \/ AnswerCopilot \/ FailTask
    \/ \E i \in DOMAIN loads : loads[i].task /\ (ShowShipment(i) \/ FailLoad(i))
    \/ \E i \in DOMAIN boots : boots[i] /\ (ShowList(i) \/ FailBoot(i))

PageSpec == PageInit /\ [][PageNext]_custodyPageVars /\ WF_custodyPageVars(TaskAnswers)
-----------------------------------------------------------------------------
(* Properties *)

waiting == selected \in Range(wire)

\* When no load is in flight and no event is on its way, the page shows the
\* shipment selected, and every part of it as it is in the backend, but for
\* four reasons: the answer shown was asked for before another one that came
\* first; the last load failed; an event was announced while the socket was
\* down; or an action went on to load its own shipment after another one was
\* selected.
ShownIsCurrent ==
    loads = <<>> /\ ~waiting /\ excuse = {} =>
        /\ shown # NoShipment /\ shown.cargo = selected
        /\ \A p \in Parts : shown.read[p] = version[selected]

\* The buttons come back: whatever becomes of an action or a question, busy is
\* cleared.
BusyEnds == busy ~> ~busy
=============================================================================
