---------------------------- MODULE CargoCustody ----------------------------
(***************************************************************************)
(* The cargo chain of custody: recordEvent of CargoService and the         *)
(* CargoRepository, ledger store and audit store it writes through.        *)
(*                                                                         *)
(* Every custody request runs the same sequence of awaited calls, with no  *)
(* lock around it, so each call is an action and requests interleave at    *)
(* the awaits.  Two stores hold the custody data: Redis (the ledger list,  *)
(* newest event first, and the state; alerts and the operations of an      *)
(* incident live there too) and the durable ledger store (event table,     *)
(* state table, evidence table).  Nothing catches an error of a custody    *)
(* route, so a rejected call, like any other crash, ends the process: all  *)
(* requests in flight are gone and whichever store lived in the process's  *)
(* memory, or did not come back, is empty.                                 *)
(***************************************************************************)
EXTENDS CustodyRules, Sequences, FiniteSets

CONSTANTS
    Body,           \* the body each request carries may be any member of Body[r]
    Retention,      \* events Redis keeps per cargo
    MaxInFlight,    \* bound: requests the server works on at a time
    MaxCrashes,     \* bound: crashes of the server
    RedisMayBeLost, \* may a restart find Redis empty?
    LedgerMayBeLost \* may a restart find the ledger store empty?

Genesis == "GENESIS"        \* previous_hash of an event without a predecessor

ASSUME BodyAssumption ==
    /\ Body \in [Requests -> SUBSET Payload]
    /\ \A r \in Requests : \A p \in Body[r] :
          p.kind = "direct" => p.action \in CARGO_EVENTS
    /\ \A r \in Requests : Body[r] # {}
ASSUME RetentionAssumption == Retention \in Nat \ {0}
ASSUME BoundsAssumption == MaxInFlight \in Nat \ {0} /\ MaxCrashes \in Nat
ASSUME LossAssumption == RedisMayBeLost \in BOOLEAN /\ LedgerMayBeLost \in BOOLEAN
ASSUME GenesisAssumption == Genesis \notin Requests

VARIABLES
    pc,         \* pc[r]: the awaited call request r is at
    body,       \* body[r]: the request body
    prev,       \* prev[r]: the custody state r read last
    plan,       \* plan[r]: the action r records and the score it brings along
    event,      \* event[r]: the ledger event r built
    redisLedger, redisState, alerts, holds,         \* Redis
    ledger, ledgerState, evidence,                  \* the durable ledger store
    audit,                                          \* the audit store
    crashes, epoch,     \* crashes so far; times Redis was found empty
    pushed, overlap     \* observation: every event ever pushed to Redis, and
                        \* the pairs of requests that were in flight together

requestVars == <<pc, body, prev, plan, event>>
redisVars == <<redisLedger, redisState, alerts, holds>>
durableVars == <<ledger, ledgerState, evidence, audit>>
ghostVars == <<crashes, epoch, pushed, overlap>>
vars == <<requestVars, redisVars, durableVars, ghostVars>>

\* previous_hash is the sha256 of the event it points to; two events never
\* hash alike, so the hash of an event is its id.  state is state_snapshot,
\* epoch the Redis incarnation the event was linked in.
Event == [id : Requests, prev : Requests \cup {Genesis}, state : State, epoch : Nat]
Plan == [action : CARGO_EVENTS \cup {NoAction}, score : 0 .. 100 \cup {NoScore}]
NoEvent == [id |-> Nobody, prev |-> Genesis, state |-> NoState, epoch |-> 0]

\* The calls of a request in flight, in order; "get1".."decide" belong to
\* the extra read of verify and reload, "alert".."notify" to an incident.
Stages == {"get1", "load1", "fill1", "decide", "get2", "load2", "fill2",
           "latest", "push", "insert", "evidence", "set", "upsert", "log",
           "alert", "respond", "notify"}

InFlight == {r \in Requests : pc[r] \in Stages}
cargoOf(r) == body[r].cargo

TypeOK ==
    /\ pc \in [Requests -> Stages \cup {"idle", "done", "aborted"}]
    /\ body \in [Requests -> Payload]
    /\ prev \in [Requests -> State]
    /\ plan \in [Requests -> Plan]
    /\ event \in [Requests -> Event \cup {NoEvent}]
    /\ redisLedger \in [Cargo -> Seq(Event)]
    /\ redisState \in [Cargo -> State]
    /\ alerts \subseteq Requests
    /\ holds \subseteq Cargo
    /\ ledger \in [Cargo -> SUBSET Event]
    /\ ledgerState \in [Cargo -> State]
    /\ evidence \subseteq Requests
    /\ audit \subseteq {"cargo-custody-event", "cargo-custody-incident"} \X Requests
    /\ crashes \in Nat
    /\ epoch \in Nat
    /\ pushed \in [Cargo -> SUBSET Event]
    /\ overlap \subseteq Requests \X Requests

Init ==
    /\ pc = [r \in Requests |-> "idle"]
    /\ body = [r \in Requests |-> CHOOSE p \in Body[r] : TRUE]  \* until Begin
    /\ prev = [r \in Requests |-> NoState]
    /\ plan = [r \in Requests |-> [action |-> NoAction, score |-> NoScore]]
    /\ event = [r \in Requests |-> NoEvent]
    /\ redisLedger = [c \in Cargo |-> <<>>]
    /\ redisState = [c \in Cargo |-> NoState]
    /\ alerts = {}
    /\ holds = {}
    /\ ledger = [c \in Cargo |-> {}]
    /\ ledgerState = [c \in Cargo |-> NoState]
    /\ evidence = {}
    /\ audit = {}
    /\ crashes = 0
    /\ epoch = 0
    /\ pushed = [c \in Cargo |-> {}]
    /\ overlap = {}
-----------------------------------------------------------------------------
GoTo(r, stage) == pc' = [pc EXCEPT ![r] = stage]

\* A request arrives: scanOut, scanIn and seeding call recordEvent at once,
\* verify and reload read the state first.
Begin(r) ==
    /\ pc[r] = "idle"
    /\ Cardinality(InFlight) < MaxInFlight
    /\ \E p \in Body[r] :
          /\ body' = [body EXCEPT ![r] = p]
          /\ plan' = [plan EXCEPT ![r] = [action |-> p.action, score |-> p.score]]
          /\ GoTo(r, IF p.kind = "direct" THEN "get2" ELSE "get1")
    /\ overlap' = overlap \cup ({r} \X InFlight) \cup (InFlight \X {r})
    /\ UNCHANGED <<prev, event, redisVars, durableVars, crashes, epoch, pushed>>

\* CargoRepository.getState, a Redis GET first ...
GetState(r, here, onMiss, next) ==
    /\ pc[r] = here
    /\ IF redisState[cargoOf(r)] # NoState
       THEN /\ prev' = [prev EXCEPT ![r] = redisState[cargoOf(r)]]
            /\ GoTo(r, next)
       ELSE /\ GoTo(r, onMiss)
            /\ UNCHANGED prev
    /\ UNCHANGED <<body, plan, event, redisVars, durableVars, ghostVars>>

\* ... then the ledger store ...
LoadState(r, here, onFound, next) ==
    /\ pc[r] = here
    /\ prev' = [prev EXCEPT ![r] = ledgerState[cargoOf(r)]]
    /\ GoTo(r, IF ledgerState[cargoOf(r)] # NoState THEN onFound ELSE next)
    /\ UNCHANGED <<body, plan, event, redisVars, durableVars, ghostVars>>

\* ... whose answer is written back to Redis (the state key and cargo:index,
\* two commands on one ordered connection), over whatever is there by now.
FillState(r, here, next) ==
    /\ pc[r] = here
    /\ redisState' = [redisState EXCEPT ![cargoOf(r)] = prev[r]]
    /\ GoTo(r, next)
    /\ UNCHANGED <<body, prev, plan, event, redisLedger, alerts, holds,
                   durableVars, ghostVars>>

\* verify infers the action from the body; reload decides it on the state it
\* read, and hands the integrity score it computed on to recordEvent.
Decide(r) ==
    /\ pc[r] = "decide"
    /\ plan' = [plan EXCEPT ![r] =
          IF body[r].kind = "verify"
          THEN [action |-> inferredAction(body[r]), score |-> body[r].score]
          ELSE [action |-> reloadAction(body[r], prev[r]),
                score |-> computeIntegrityScore(body[r], body[r].action, prev[r])]]
    /\ GoTo(r, "get2")
    /\ UNCHANGED <<body, prev, event, redisVars, durableVars, ghostVars>>

\* Mutant of LatestHash: the list read at its tail, LRANGE -1 -1.
LatestHashAtTail(c) ==
    IF redisLedger[c] = <<>> THEN Genesis ELSE redisLedger[c][Len(redisLedger[c])].id

\* Mutant of LatestHash: the state's custodian taken for the latest event.
LatestHashFromState(c) ==
    IF redisState[c] = NoState THEN Genesis ELSE redisState[c].custodian

\* CargoRepository.getLatestEvent: the head of the Redis list and nothing else.
LatestHash(c) == IF redisLedger[c] = <<>> THEN Genesis ELSE redisLedger[c][1].id

\* The read of the latest event, and the event and state built from it
\* before the next await.
GetLatestEvent(r) ==
    /\ pc[r] = "latest"
    /\ event' = [event EXCEPT ![r] =
          [id |-> r, prev |-> LatestHash(cargoOf(r)),
           state |-> buildState(r, body[r], plan[r].action, plan[r].score, prev[r]),
           epoch |-> epoch]]
    /\ GoTo(r, "push")
    /\ UNCHANGED <<body, prev, plan, redisVars, durableVars, ghostVars>>

\* Mutant of PushEvent: saveState issued without awaiting appendEvent.
PushEventUnawaited(r) ==
    /\ pc[r] = "push"
    /\ redisLedger' = [redisLedger EXCEPT ![cargoOf(r)] = <<event[r]>> \o @]
    /\ pushed' = [pushed EXCEPT ![cargoOf(r)] = @ \cup {event[r]}]
    /\ GoTo(r, "set")
    /\ UNCHANGED <<body, prev, plan, event, redisState, alerts, holds,
                   durableVars, crashes, epoch, overlap>>

\* LPUSH and LTRIM, one step because only the head of the list is ever read
\* to link to, and LTRIM keeps it.
Trim(events) == IF Len(events) > Retention THEN SubSeq(events, 1, Retention) ELSE events

PushEvent(r) ==
    /\ pc[r] = "push"
    /\ redisLedger' = [redisLedger EXCEPT ![cargoOf(r)] = Trim(<<event[r]>> \o @)]
    /\ pushed' = [pushed EXCEPT ![cargoOf(r)] = @ \cup {event[r]}]
    /\ GoTo(r, "insert")
    /\ UNCHANGED <<body, prev, plan, event, redisState, alerts, holds,
                   durableVars, crashes, epoch, overlap>>

\* Mutant of InsertEvent: an event without evidence is not inserted.
InsertEventWithMedia(r) ==
    /\ pc[r] = "insert"
    /\ ledger' = [ledger EXCEPT ![cargoOf(r)] =
                     IF body[r].media THEN @ \cup {event[r]} ELSE @]
    /\ GoTo(r, "evidence")
    /\ UNCHANGED <<body, prev, plan, event, redisVars, ledgerState, evidence,
                   audit, ghostVars>>

\* ledgerStore.appendEvent.
InsertEvent(r) ==
    /\ pc[r] = "insert"
    /\ ledger' = [ledger EXCEPT ![cargoOf(r)] = @ \cup {event[r]}]
    /\ GoTo(r, "evidence")
    /\ UNCHANGED <<body, prev, plan, event, redisVars, ledgerState, evidence,
                   audit, ghostVars>>

\* Mutant of SaveEvidence: an incident is raised before, and instead of, the
\* state being saved.
SaveEvidenceThenLog(r) ==
    /\ pc[r] = "evidence"
    /\ evidence' = IF body[r].media \/ LedgerMayBeLost THEN evidence \cup {r} ELSE evidence
    /\ GoTo(r, IF event[r].state.chainBroken THEN "log" ELSE "set")
    /\ UNCHANGED <<body, prev, plan, event, redisVars, ledger, ledgerState,
                   audit, ghostVars>>

\* ledgerStore.saveEvidence: PostgreSQL keeps a row only for a photo or a
\* video, the in-memory store keeps one for every event.
SaveEvidence(r) ==
    /\ pc[r] = "evidence"
    /\ evidence' = IF body[r].media \/ LedgerMayBeLost THEN evidence \cup {r} ELSE evidence
    /\ GoTo(r, "set")
    /\ UNCHANGED <<body, prev, plan, event, redisVars, ledger, ledgerState,
                   audit, ghostVars>>

\* Mutant of SetState: SET NX, which keeps a state that is already there.
SetStateIfAbsent(r) ==
    /\ pc[r] = "set"
    /\ redisState' = [redisState EXCEPT ![cargoOf(r)] =
                         IF @ = NoState THEN event[r].state ELSE @]
    /\ GoTo(r, "upsert")
    /\ UNCHANGED <<body, prev, plan, event, redisLedger, alerts, holds,
                   durableVars, ghostVars>>

\* CargoRepository.saveState: Redis (state key and cargo:index) ...
SetState(r) ==
    /\ pc[r] = "set"
    /\ redisState' = [redisState EXCEPT ![cargoOf(r)] = event[r].state]
    /\ GoTo(r, "upsert")
    /\ UNCHANGED <<body, prev, plan, event, redisLedger, alerts, holds,
                   durableVars, ghostVars>>

\* Mutant of UpsertState: an insert without "on conflict do update".
UpsertStateOnce(r) ==
    /\ pc[r] = "upsert"
    /\ ledgerState' = [ledgerState EXCEPT ![cargoOf(r)] =
                          IF @ = NoState THEN event[r].state ELSE @]
    /\ GoTo(r, "log")
    /\ UNCHANGED <<body, prev, plan, event, redisVars, ledger, evidence, audit, ghostVars>>

\* ... then the ledger store.
UpsertState(r) ==
    /\ pc[r] = "upsert"
    /\ ledgerState' = [ledgerState EXCEPT ![cargoOf(r)] = event[r].state]
    /\ GoTo(r, "log")
    /\ UNCHANGED <<body, prev, plan, event, redisVars, ledger, evidence, audit, ghostVars>>

\* Mutant of Incident: only a critical risk raises one.
IncidentIfCritical(state) == Critical(state.risk)

Incident(state) == state.chainBroken \/ Critical(state.risk)

LogEvent(r) ==
    /\ pc[r] = "log"
    /\ audit' = audit \cup {<<"cargo-custody-event", r>>}
    /\ GoTo(r, IF Incident(event[r].state) THEN "alert" ELSE "done")
    /\ UNCHANGED <<body, prev, plan, event, redisVars, ledger, ledgerState,
                   evidence, ghostVars>>

\* exposureRepository.appendAlert.
AppendAlert(r) ==
    /\ pc[r] = "alert"
    /\ alerts' = alerts \cup {r}
    /\ GoTo(r, "respond")
    /\ UNCHANGED <<body, prev, plan, event, redisLedger, redisState, holds,
                   durableVars, ghostVars>>

\* actionOrchestrator.orchestrateCargoIncident, here only that the hold
\* action, the inspection and the incident workflow of the cargo exist.
OrchestrateCargoIncident(r) ==
    /\ pc[r] = "respond"
    /\ holds' = holds \cup {cargoOf(r)}
    /\ GoTo(r, "notify")
    /\ UNCHANGED <<body, prev, plan, event, redisLedger, redisState, alerts,
                   durableVars, ghostVars>>

\* Mutant of LogIncident: a failed notification retried from the alert on.
LogIncidentWithRetry(r) ==
    /\ pc[r] = "notify"
    /\ audit' = audit \cup {<<"cargo-custody-incident", r>>}
    /\ pc' \in {[pc EXCEPT ![r] = "done"], [pc EXCEPT ![r] = "alert"]}
    /\ UNCHANGED <<body, prev, plan, event, redisVars, ledger, ledgerState,
                   evidence, ghostVars>>

\* publishNotifications and the audit of the incident; then the 201 answer.
LogIncident(r) ==
    /\ pc[r] = "notify"
    /\ audit' = audit \cup {<<"cargo-custody-incident", r>>}
    /\ GoTo(r, "done")
    /\ UNCHANGED <<body, prev, plan, event, redisVars, ledger, ledgerState,
                   evidence, ghostVars>>

\* The server process ends and is started again.  Requests in flight get no
\* answer.  Redis comes back empty when it lived in the process or is down at
\* the restart (createRedisClient then takes the in-memory one); likewise the
\* ledger and audit stores.
LoseRedis ==
    /\ redisLedger' = [c \in Cargo |-> <<>>]
    /\ redisState' = [c \in Cargo |-> NoState]
    /\ alerts' = {}
    /\ holds' = {}
    /\ epoch' = epoch + 1

LoseLedger ==
    /\ ledger' = [c \in Cargo |-> {}]
    /\ ledgerState' = [c \in Cargo |-> NoState]
    /\ evidence' = {}
    /\ audit' = {}

Crash ==
    /\ crashes < MaxCrashes
    /\ crashes' = crashes + 1
    /\ pc' = [r \in Requests |-> IF r \in InFlight THEN "aborted" ELSE pc[r]]
    /\ \/ RedisMayBeLost /\ LoseRedis
       \/ UNCHANGED <<redisVars, epoch>>
    /\ \/ LedgerMayBeLost /\ LoseLedger
       \/ UNCHANGED durableVars
    /\ UNCHANGED <<body, prev, plan, event, pushed, overlap>>

Step(r) ==
    \/ GetState(r, "get1", "load1", "decide")
    \/ LoadState(r, "load1", "fill1", "decide")
    \/ FillState(r, "fill1", "decide")
    \/ Decide(r)
    \/ GetState(r, "get2", "load2", "latest")
    \/ LoadState(r, "load2", "fill2", "latest")
    \/ FillState(r, "fill2", "latest")
    \/ GetLatestEvent(r)
    \/ PushEvent(r)
    \/ InsertEvent(r)
    \/ SaveEvidence(r)
    \/ SetState(r)
    \/ UpsertState(r)
    \/ LogEvent(r)
    \/ AppendAlert(r)
    \/ OrchestrateCargoIncident(r)
    \/ LogIncident(r)

\* Nothing remains to be done once every request was answered or cut off.
Finished == (\A r \in Requests : pc[r] \in {"done", "aborted"}) /\ UNCHANGED vars

Next == (\E r \in Requests : Begin(r) \/ Step(r)) \/ Crash \/ Finished

Spec == Init /\ [][Next]_vars

\* The event loop runs every continuation whose call has been answered, and
\* every call is answered or ends the process.
FairSpec == Spec /\ \A r \in Requests : WF_vars(Step(r))
-----------------------------------------------------------------------------
\* What a request gets from getState when it runs alone.
CurrentState(c) == IF redisState[c] # NoState THEN redisState[c] ELSE ledgerState[c]

Overlapped(r, q) == <<r, q>> \in overlap
RanAlone(r) == \A q \in Requests \ {r} : cargoOf(q) = cargoOf(r) => ~Overlapped(r, q)

\* The hash links of a cargo fork, two events naming the same predecessor,
\* only between requests that were in flight together, or by starting again
\* at GENESIS after Redis was lost: getLatestEvent and the LPUSH of a request
\* enclose no other push unless the two requests overlap.
ForkNeedsOverlap ==
    \A c \in Cargo : \A e, f \in pushed[c] :
        (e # f /\ e.prev = f.prev) =>
            \/ Overlapped(e.id, f.id)
            \/ e.epoch # f.epoch /\ e.prev = Genesis

\* No acknowledged custody event is forgotten by the custody state unless
\* another request on the cargo overlapped it: a handler whose request was
\* answered stays in touchedBy of whatever state the next reader gets, across
\* crashes, lost Redis data and the write-back of an older durable state.
LostUpdateNeedsOverlap ==
    ~LedgerMayBeLost =>
        \A r \in Requests :
            (pc[r] = "done" /\ RanAlone(r)) => r \in CurrentState(cargoOf(r)).touched

\* While the newest event of the ledger is that of an answered request no
\* other overlapped, the state in force, stop-load decision included, is the
\* one that event computed, whatever was read back or written back since.
LatestEventRules ==
    \A r \in Requests :
        LET c == cargoOf(r) IN
        (pc[r] = "done" /\ RanAlone(r) /\ LatestHash(c) = r)
            => CurrentState(c) = event[r].state

\* A durable event links to a durable event or to GENESIS, except behind a
\* request that has not inserted its event yet or was cut off before it did:
\* Redis is pushed first and the next request links to what it finds there.
GapNeedsCrash ==
    ~LedgerMayBeLost =>
        \A c \in Cargo : \A e \in ledger[c] :
            e.prev # Genesis =>
                \/ pc[e.prev] \in {"insert", "aborted"}
                \/ \E f \in ledger[c] : f.id = e.prev

\* A state is shown, in Redis or in the ledger store, only once the event it
\* is the snapshot of, and its evidence, are in the durable ledger.
StateIsLedgered ==
    ~LedgerMayBeLost =>
        \A c \in Cargo : \A s \in {redisState[c], ledgerState[c]} :
            s # NoState =>
                /\ \E e \in ledger[c] : e.state = s
                /\ body[s.custodian].media => s.custodian \in evidence

\* A reload cleared on one state is recorded against another, with a seal
\* that no longer matches or a score computed before the chain broke, only
\* when another request on the cargo overlapped it.
StaleReloadNeedsOverlap ==
    \A r \in Requests :
        (event[r] # NoEvent /\ body[r].kind = "reload" /\ RanAlone(r)) =>
            /\ event[r].state.action = "CargoReloaded" => sealMatch(body[r], prev[r])
            /\ event[r].state.integrity =
                   computeIntegrityScore(body[r], body[r].action, prev[r])

\* A request answered after it broke the chain left an alert, the incident's
\* holding actions and its audit entry, unless a restart lost Redis since.
AnsweredIncidentHandled ==
    \A r \in Requests :
        (/\ pc[r] = "done" /\ event[r].epoch = epoch
         /\ event[r].state.chainBroken \/ Critical(event[r].state.risk)) =>
            /\ r \in alerts
            /\ cargoOf(r) \in holds
            /\ LedgerMayBeLost \/ <<"cargo-custody-incident", r>> \in audit

\* A critical risk always stops the load: the point tables of computeRisk and
\* computeIntegrityScore are separate, and 84 risk points are reachable with
\* an integrity of 70 and an unbroken chain, one point short of CRITICAL.  A
\* score supplied with the body escapes the rule, and so does a reload whose
\* score was computed before an overlapping request changed the weight.
CriticalStopsLoad ==
    \A r \in Requests :
        (/\ event[r] # NoEvent
         /\ body[r].score = NoScore
         /\ body[r].kind = "reload" => RanAlone(r)) =>
            (Critical(event[r].state.risk) => event[r].state.stopLoad)

\* Every request that arrives is answered or cut off by a crash.
EveryRequestEnds ==
    \A r \in Requests : pc[r] \in Stages ~> pc[r] \in {"done", "aborted"}

\* One writer at a time over a Redis that keeps its data: the pushed events
\* of every cargo are one hash chain that only ever grows at its end,
\* whatever crashes cut requests off and whatever the trimming drops.
Chain == INSTANCE CustodyChain WITH
    chain <- [c \in Cargo |-> {[id |-> e.id, prev |-> e.prev] : e \in pushed[c]}],
    tip <- [c \in Cargo |-> LatestHash(c)]

ImplementsChain == Chain!Spec

-----------------------------------------------------------------------------
\* README.md, Cargo Chain-Of-Custody: "Each custody event is append-only and
\* hash-linked for immutable-style audit behavior."  As one chain: no two
\* events of a cargo follow the same event.
HashLinkedChain ==
    \A c \in Cargo : \A e, f \in pushed[c] : e.prev = f.prev => e = f

\* The same sentence for the durable ledger: only one event of a cargo, its
\* first, has no predecessor.
OneGenesisEvent ==
    \A c \in Cargo : \A e, f \in ledger[c] :
        (e.prev = Genesis /\ f.prev = Genesis) => e = f
=============================================================================
