--------------------------- MODULE OperatorConsole ---------------------------
(***************************************************************************)
(* The store of a browser tab (useAeroStore) and the two effects that feed *)
(* it: RealtimeProvider with its socket and its poll, and                  *)
(* SyncRecoveryEffect.  The tab shows the actions of the server as tasks,  *)
(* its fleet as ULDs, and its alerts; an operator marks tasks completed,   *)
(* which only changes the tab and the queue of its local storage.          *)
(*                                                                         *)
(* The server is reduced to actions:index, fleet:status and                *)
(* alerts:history, which ActionLedger and TelemetryPipeline fill: a request *)
(* or a reading stores an entry and emits it to the sockets some awaits    *)
(* later, so that two may be emitted in another order, or one never.       *)
(***************************************************************************)
EXTENDS Naturals, Sequences, SequencesExt, Functions

CONSTANTS
    Actions,            \* ids of actions
    Ulds,               \* ids of ULDs
    Alerts,             \* ids of alerts of the pipeline, stored and emitted
    Notices,            \* ids of notifications, which are emitted only
    SeedTasks,          \* ids of the tasks, the ULDs and the alerts
    SeedUlds,           \* every tab begins with
    SeedAlerts,
    Levels,             \* risk levels of readings
    AlertLimit,         \* alerts the tab keeps when one arrives
    ReconnectAttempts,  \* reconnectionAttempts of the socket
    MaxPolls,           \* bound: polls that may wait for an answer at a time;
                        \* the interval is longer than the timeout
    MaxFlushes,         \* bound: timers of flushQueue that run at a time
    MaxChanges,         \* bound: entries the server stores
    MaxMarks            \* bound: tasks the operator marks

ASSUME IdsAssumption ==
    /\ (Actions \cup SeedTasks) \cap (Ulds \cup SeedUlds) = {}
    /\ Actions \cap SeedTasks = {} /\ Ulds \cap SeedUlds = {}
    /\ (Actions \cup SeedTasks \cup Ulds \cup SeedUlds) \cap (Alerts \cup Notices) = {}
    /\ Alerts \cap (Notices \cup SeedAlerts) = {} /\ Notices \cap SeedAlerts = {}
    /\ IsFiniteSet(SeedAlerts)
ASSUME LevelsAssumption == Levels \subseteq {"LOW", "MEDIUM", "HIGH", "CRITICAL"}
ASSUME LimitsAssumption ==
    /\ {AlertLimit, ReconnectAttempts, MaxFlushes, MaxChanges, MaxMarks} \subseteq Nat
    /\ MaxPolls \in Nat \ {0}

Tasks == Actions \cup SeedTasks
Units == Ulds \cup SeedUlds
Ids == Tasks \cup Units
Statuses == {"ASSIGNED", "IN_PROGRESS", "VERIFIED"}
TaskStatuses == {"Pending", "In Progress", "Completed"}
Risks == {"LOW", "MEDIUM", "HIGH"}
Entry == [id : Actions, status : Statuses] \cup [id : Ulds, status : Levels]
             \cup [id : Alerts \cup Notices, status : {"raised"}]

\* The list of the screen, and of the server, an id belongs to.
listOf(i) == IF i \in Tasks THEN "tasks" ELSE IF i \in Units THEN "ulds" ELSE "alerts"

VARIABLES
    server,     \* server[i]: status of an action in actions:index, risk of a
                \* ULD in fleet:status, or "none"
    history,    \* alerts:history, newest first
    emissions,  \* the bag of entries that were stored and not yet emitted
    changes,    \* entries stored so far
    link,       \* is the socket connected?
    attempts,   \* its failed attempts to connect since it was
    inbox,      \* the events sent over it that were not handled yet
    onLine,     \* navigator.onLine
    status,     \* syncStatus
    screen,     \* screen[i]: the status of a task, the risk of a ULD, or "absent"
    alerts,     \* the alerts on the screen
    queue,      \* the tasks of the queue, newest first, as in the local storage
    flushes,    \* timers of flushQueue
    polls,      \* polls[p]: what the poll p has read, if it has
    marks,      \* tasks marked so far
    marked,     \* observation: tasks marked since the server's word on them,
    synced      \* and the lists of which every entry reached the screen, or is
                \* on its way

serverVars == <<server, history, emissions, changes>>
socketVars == <<link, attempts, inbox>>
screenVars == <<screen, alerts>>
queueVars == <<queue, flushes>>
ghostVars == <<marked, synced>>
vars == <<serverVars, socketVars, onLine, status, screenVars, queueVars, polls, marks, ghostVars>>

\* A poll that has not read the lists yet.
Unread == [sent |-> FALSE, entries |-> <<>>, alerts |-> <<>>]

TypeOK ==
    /\ server \in [Actions \cup Ulds -> Statuses \cup Levels \cup {"none"}]
    /\ Range(history) \subseteq Alerts /\ IsInjective(history)
    /\ IsABag(emissions) /\ BagToSet(emissions) \subseteq Entry /\ inbox \in Seq(Entry)
    /\ changes \in 0 .. MaxChanges /\ marks \in 0 .. MaxMarks
    /\ {link, onLine} \subseteq BOOLEAN
    /\ attempts \in 0 .. ReconnectAttempts + 1
    /\ status \in {"online", "syncing", "offline"}
    /\ \A i \in Ids :
          screen[i] \in (IF i \in Tasks THEN TaskStatuses ELSE Risks) \cup {"absent"}
    /\ Range(alerts) \subseteq Alerts \cup Notices \cup SeedAlerts
    /\ queue \in Seq(Tasks) /\ Len(queue) <= marks
    /\ flushes \in 0 .. MaxFlushes
    /\ Len(polls) <= MaxPolls
    /\ \A p \in DOMAIN polls :
          polls[p] = Unread
          \/ /\ polls[p].sent /\ DOMAIN polls[p].entries \subseteq Actions \cup Ulds
             /\ \A i \in DOMAIN polls[p].entries : polls[p].entries[i] \notin {"none", "VERIFIED"}
             /\ Range(polls[p].alerts) \subseteq Alerts
    /\ marked \subseteq Tasks /\ synced \subseteq {"tasks", "ulds", "alerts"}

\* What every tab begins with: the first of the tasks and of the ULDs stand
\* for the others.
SeedScreen ==
    [i \in Ids |-> CASE i \in SeedTasks -> "Pending" [] i \in SeedUlds -> "HIGH" [] OTHER -> "absent"]

\* A tab as it is loaded: the seeds, no connection and the first poll.
Load ==
    /\ link' = FALSE /\ attempts' = 0 /\ inbox' = <<>>
    /\ status' = IF onLine THEN "online" ELSE "offline"
    /\ screen' = SeedScreen /\ alerts' = SetToSeq(SeedAlerts)
    /\ flushes' = 0
    /\ polls' = <<Unread>>
    /\ marked' = {} /\ synced' = {}

Init ==
    /\ server = [i \in Actions \cup Ulds |-> "none"]
    /\ history = <<>> /\ emissions = EmptyBag /\ changes = 0
    /\ link = FALSE /\ attempts = 0 /\ inbox = <<>>
    /\ onLine \in BOOLEAN
    /\ status = IF onLine THEN "online" ELSE "offline"
    /\ screen = SeedScreen /\ alerts = SetToSeq(SeedAlerts)
    /\ queue = <<>> /\ flushes = 0
    /\ polls = <<Unread>>
    /\ marks = 0
    /\ marked = {} /\ synced = {}

-----------------------------------------------------------------------------
\* An entry is stored or raised and its emission is due; synced knows of one
\* that may be overtaken.
Due(entry) ==
    /\ changes < MaxChanges
    /\ changes' = changes + 1
    /\ emissions' = emissions (+) SetToBag({entry})
    /\ synced' = IF \E other \in BagToSet(emissions) : other.id = entry.id
                 THEN synced \ {listOf(entry.id)} ELSE synced
    /\ UNCHANGED <<socketVars, onLine, status, screenVars, queueVars, polls, marks, marked>>

\* setAction; escalation may take back a status.  An entry that is rewritten
\* with the status it has shows nothing new, and is left out here and below.
SetAction(a, stored) ==
    /\ server[a] # stored
    /\ Due([id |-> a, status |-> stored])
    /\ server' = [server EXCEPT ![a] = stored]
    /\ UNCHANGED history

\* A reading: saveLatestFleetStatus, and emit("telemetry") in the end.
SaveFleetStatus(u, level) ==
    /\ server[u] # level
    /\ Due([id |-> u, status |-> level])
    /\ server' = [server EXCEPT ![u] = level]
    /\ UNCHANGED history

\* appendAlert, before the alert is emitted; its id is new.
AppendAlert(x) ==
    /\ x \notin Range(history)
    /\ Due([id |-> x, status |-> "raised"])
    /\ history' = <<x>> \o history
    /\ UNCHANGED server

\* publishNotifications emits an alert of its own, which is stored nowhere.
PublishNotification(n) ==
    /\ n \notin {entry.id : entry \in BagToSet(emissions)}
    /\ Due([id |-> n, status |-> "raised"])
    /\ UNCHANGED <<server, history>>

\* io.emit(...): to the sockets that are connected now.
Emit(entry) ==
    /\ emissions' = emissions (-) SetToBag({entry})
    /\ inbox' = IF link THEN Append(inbox, entry) ELSE inbox
    /\ synced' = IF link THEN synced ELSE synced \ {listOf(entry.id)}
    /\ UNCHANGED <<server, history, changes, link, attempts, onLine, status, screenVars, queueVars,
                   polls, marks, marked>>

\* A call between the store and the emission is rejected.
LoseEmission(entry) ==
    /\ emissions' = emissions (-) SetToBag({entry})
    /\ synced' = synced \ {listOf(entry.id)}
    /\ UNCHANGED <<server, history, changes, socketVars, onLine, status, screenVars, queueVars, polls,
                   marks, marked>>
-----------------------------------------------------------------------------
\* mapActionToTask, as far as the status goes.
mapActionToTask(stored) ==
    CASE stored = "VERIFIED" -> "Completed"
      [] stored = "ASSIGNED" -> "Pending"
      [] OTHER -> "In Progress"

normalizeRisk(level) == IF level = "CRITICAL" THEN "HIGH" ELSE level

\* The risk of a ULD in an answer, from the lastRisk every stored reading has,
\* and in an event, from its risk; what else a ULD shows is left out.
mapFleetToUld(level) == normalizeRisk(level)
mapTelemetryToUld(level) == normalizeRisk(level)

\* Mutant of replaceById: an entry that is shown is not replaced.
InsertById(i, shown) == [screen EXCEPT ![i] = IF @ = "absent" THEN shown ELSE @]

\* replaceById, and updateUlds, which does the same
replaceById(i, shown) == [screen EXCEPT ![i] = shown]

\* socket.on("action") and socket.on("telemetry")
HandleEntry ==
    /\ inbox # <<>> /\ Head(inbox).id \in Actions \cup Ulds
    /\ LET entry == Head(inbox) IN
       /\ screen' = replaceById(entry.id,
              IF entry.id \in Actions THEN mapActionToTask(entry.status)
              ELSE mapTelemetryToUld(entry.status))
       /\ marked' = marked \ {entry.id}
    /\ inbox' = Tail(inbox)
    /\ UNCHANGED <<serverVars, link, attempts, onLine, status, alerts, queueVars, polls, marks, synced>>

\* socket.on("alert"): the alert goes on top, whether it is shown already or not.
HandleAlert ==
    /\ inbox # <<>> /\ Head(inbox).id \in Alerts \cup Notices
    /\ alerts' = SubSeq(<<Head(inbox).id>> \o alerts, 1,
                        IF Len(alerts) < AlertLimit THEN Len(alerts) + 1 ELSE AlertLimit)
    /\ inbox' = Tail(inbox)
    /\ UNCHANGED <<serverVars, link, attempts, onLine, status, screen, queueVars, polls, marks, ghostVars>>

\* The interval calls bootstrap, which asks for /control-tower.
StartPoll ==
    /\ Len(polls) < MaxPolls
    /\ polls' = Append(polls, Unread)
    /\ UNCHANGED <<serverVars, socketVars, onLine, status, screenVars, queueVars, marks, ghostVars>>

\* getFleetStatus, listPendingActions and getAlerts, on the server.
ReadLists(p) ==
    /\ ~polls[p].sent
    /\ polls' = [polls EXCEPT ![p] =
          [sent |-> TRUE,
           entries |-> Restrict(server, {i \in DOMAIN server : server[i] \notin {"none", "VERIFIED"}}),
           alerts |-> history]]
    /\ UNCHANGED <<serverVars, socketVars, onLine, status, screenVars, queueVars, marks, ghostVars>>

\* Observation: does the list the poll read hold what the server holds, with
\* no older entry of it still to come?
Fresh(list, read) ==
    /\ \A i \in {j \in DOMAIN server : listOf(j) = list} :
          IF i \in DOMAIN read.entries THEN server[i] = read.entries[i]
          ELSE server[i] \in {"none", "VERIFIED"}
    /\ list = "alerts" => read.alerts = history
    /\ \A entry \in BagToSet(emissions) \cup Range(inbox) :
          entry.id \in DOMAIN server /\ listOf(entry.id) = list => entry.status = server[entry.id]

\* The answer: mergeControlCenter replaces each list that is not empty.
FinishPoll(p) ==
    /\ polls[p].sent
    /\ LET read == polls[p]
           answered == {listOf(i) : i \in DOMAIN read.entries \cup Range(read.alerts)}
       IN
       /\ screen' = [i \in Ids |->
              IF listOf(i) \notin answered THEN screen[i]
              ELSE IF i \notin DOMAIN read.entries THEN "absent"
              ELSE IF i \in Actions THEN mapActionToTask(read.entries[i])
              ELSE mapFleetToUld(read.entries[i])]
       /\ alerts' = IF "alerts" \in answered THEN read.alerts ELSE alerts
       /\ marked' = IF "tasks" \in answered THEN {} ELSE marked
       /\ synced' = (synced \ answered) \cup {list \in answered : Fresh(list, read)}
    /\ polls' = RemoveAt(polls, p)
    /\ UNCHANGED <<serverVars, socketVars, onLine, status, queueVars, marks>>

\* The request fails or is given up after its timeout.
FailPoll(p) ==
    /\ polls' = RemoveAt(polls, p)
    /\ status' = IF onLine THEN "syncing" ELSE "offline"
    /\ UNCHANGED <<serverVars, socketVars, onLine, screenVars, queueVars, marks, ghostVars>>
-----------------------------------------------------------------------------
\* socket.on("connect"); a server on the same host is reached off line too.
Connect ==
    /\ ~link /\ attempts <= ReconnectAttempts
    /\ link' = TRUE /\ attempts' = 0
    /\ status' = "online"
    /\ UNCHANGED <<serverVars, inbox, onLine, screenVars, queueVars, polls, marks, ghostVars>>

\* socket.on("connect_error"); after the last attempt the socket gives up.
ConnectError ==
    /\ ~link /\ attempts <= ReconnectAttempts
    /\ attempts' = attempts + 1
    /\ status' = IF onLine THEN "syncing" ELSE "offline"
    /\ UNCHANGED <<serverVars, link, inbox, onLine, screenVars, queueVars, polls, marks, ghostVars>>

\* socket.on("disconnect"): what was under way is not sent again.
Disconnect ==
    /\ link
    /\ link' = FALSE /\ inbox' = <<>>
    /\ status' = IF onLine THEN "syncing" ELSE "offline"
    /\ synced' = synced \ {listOf(entry.id) : entry \in Range(inbox)}
    /\ UNCHANGED <<serverVars, attempts, onLine, screenVars, queueVars, polls, marks, marked>>

\* The listeners of "offline", of RealtimeProvider and of SyncRecoveryEffect.
GoOffline ==
    /\ onLine
    /\ onLine' = FALSE
    /\ status' = "offline"
    /\ UNCHANGED <<serverVars, socketVars, screenVars, queueVars, polls, marks, ghostVars>>

\* Those of "online".  Each starts a flush when the queue is not empty:
\* handleOnline sets "online" first, so that attemptSyncRecovery never sees
\* "syncing".  RealtimeProvider's listener is registered anew whenever the
\* store changes: it runs first, last, or is removed while the other one runs.
GoOnline ==
    /\ ~onLine
    /\ onLine' = TRUE
    /\ IF queue = <<>>
       THEN status' \in {"online", "syncing"} /\ UNCHANGED flushes
       ELSE /\ status' = "syncing"
            /\ flushes' \in {flushes + 1, flushes + 2} /\ flushes' <= MaxFlushes
    /\ UNCHANGED <<serverVars, socketVars, screenVars, queue, polls, marks, ghostVars>>

\* Mutant of FinishFlush: the browser is taken to be on line still.
FinishOnline ==
    /\ flushes > 0
    /\ flushes' = flushes - 1
    /\ queue' = <<>>
    /\ status' = "online"
    /\ UNCHANGED <<serverVars, socketVars, onLine, screenVars, polls, marks, ghostVars>>

\* The timer of flushQueue empties the queue and its storage, whatever they
\* hold now; nothing was sent to the server.
FinishFlush ==
    /\ flushes > 0
    /\ flushes' = flushes - 1
    /\ queue' = <<>>
    /\ status' = IF onLine THEN "online" ELSE "offline"
    /\ UNCHANGED <<serverVars, socketVars, onLine, screenVars, polls, marks, ghostVars>>

\* markTaskCompleted and queueAction
markTaskCompleted(i) ==
    /\ marks < MaxMarks
    /\ marks' = marks + 1
    /\ screen[i] \in {"Pending", "In Progress"}
    /\ screen' = [screen EXCEPT ![i] = "Completed"]
    /\ queue' = <<i>> \o queue
    /\ marked' = marked \cup {i}
    /\ UNCHANGED <<serverVars, socketVars, onLine, status, alerts, flushes, polls, synced>>

\* The tab is loaded anew and takes the queue from the local storage.
Reload ==
    /\ Load
    /\ UNCHANGED <<serverVars, onLine, queue, marks>>

Next ==
    \/ \E a \in Actions, stored \in Statuses : SetAction(a, stored)
    \/ \E u \in Ulds, level \in Levels : SaveFleetStatus(u, level)
    \/ \E x \in Alerts : AppendAlert(x)
    \/ \E n \in Notices : PublishNotification(n)
    \/ \E entry \in BagToSet(emissions) : Emit(entry) \/ LoseEmission(entry)
    \/ HandleEntry \/ HandleAlert \/ StartPoll
    \/ \E p \in DOMAIN polls : ReadLists(p) \/ FinishPoll(p) \/ FailPoll(p)
    \/ Connect \/ ConnectError \/ Disconnect
    \/ GoOffline \/ GoOnline \/ FinishFlush
    \/ \E i \in Tasks : markTaskCompleted(i)
    \/ Reload

Spec == Init /\ [][Next]_vars
-----------------------------------------------------------------------------
\* The status an operator sees follows the network, whatever order the events
\* of browser, socket, polls and flushes come in: it says "offline" only while
\* the browser is off line, and says so unless a socket is connected even then.
StatusFollowsNetwork ==
    /\ status = "offline" => ~onLine
    /\ ~onLine /\ ~link => status = "offline"

\* When nothing is under way, and since a poll that found a list as it was on
\* the server, with no older entry still to come, no entry of it was missed or
\* overtaken, the screen shows that list: the status of every action and the
\* risk of every ULD of the server, and no other, but for the tasks marked
\* since then, which the server knows nothing of, and for verified ones, which
\* may be shown or not; and every stored alert, once the screen is full only
\* the latest.
SyncedShowsServer ==
    emissions = EmptyBag /\ inbox = <<>> /\ polls = <<>>
    => /\ \A i \in Ids \ marked : listOf(i) \in synced =>
             IF i \in DOMAIN server /\ server[i] # "none"
             THEN \/ i \in Actions /\ screen[i] = mapActionToTask(server[i])
                  \/ i \in Ulds /\ screen[i] = normalizeRisk(server[i])
                  \/ server[i] = "VERIFIED" /\ screen[i] = "absent"
             ELSE screen[i] = "absent"
       /\ "alerts" \in synced =>
             Range(history) \subseteq Range(alerts) \/ Len(alerts) >= AlertLimit
=============================================================================
