------------------------- MODULE TelemetryPipeline -------------------------
(***************************************************************************)
(* TelemetryPipeline.process: the way of a temperature reading from MQTT   *)
(* or POST /integrations/iot/http to the exposure state, the digital twin, *)
(* the operational response and the alerts.                                *)
(*                                                                         *)
(* Readings are processed concurrently: MqttConsumer starts process on     *)
(* every message without waiting for the one before it, so two readings of *)
(* a ULD may read the same exposure state, or be overtaken while the       *)
(* weather is looked up.  A call that is rejected sends an MQTT reading to *)
(* the dead-letter list, wherever in the sequence it happens; on the HTTP  *)
(* route nothing catches it and the process ends.                          *)
(***************************************************************************)
EXTENDS ExposureRules, Sequences, FiniteSets

CONSTANTS
    Readings,       \* the readings that are sent
    Body,           \* the content of each may be any member of Body[m]
    MaxInFlight,    \* bound: readings processed at a time
    MaxFailures,    \* bound: rejected calls and crashes
    RedisMayBeLost  \* may a restart find Redis empty?

ASSUME ReadingsAssumption ==
    Body \in [Readings -> SUBSET Reading] /\ \A m \in Readings : Body[m] # {}
ASSUME BoundsAssumption ==
    MaxInFlight \in Nat \ {0} /\ MaxFailures \in Nat /\ RedisMayBeLost \in BOOLEAN

VARIABLES
    pc,             \* pc[m]: the awaited call reading m is at
    body,           \* body[m]: the reading
    previous,       \* previous[m]: the exposure state read before m
    status,         \* status[m]: the exposure state computed from it
    respond,        \* respond[m]: shouldCreateOperationalResponse
    exposure,       \* exposure[u]: uld:<u>:exposure in Redis
    alerts,         \* alerts:history in Redis
    responses,      \* ULDs with an open CriticalBreachWorkflow, in Redis
    twin,           \* twin[u]: one-record:twin:<u>.operationalState in Redis
    jobs,           \* readings whose verification job is queued
    deadLetters,    \* mqtt:dead-letter in Redis
    audit,          \* readings with a telemetry audit event
    failures,       \* rejected calls and crashes so far
    saved,          \* observation: saved[u], the readings whose state was stored
                    \* for u since Redis was last empty,
    overlap         \* and the pairs of readings in flight together

readingVars == <<pc, body, previous, status, respond>>
redisVars == <<exposure, alerts, responses, twin, jobs, deadLetters>>
ghostVars == <<saved, overlap>>
vars == <<readingVars, redisVars, audit, failures, ghostVars>>

\* The calls of a reading in flight, in order; "deadletter" after a rejection.
Stages == {"read", "save", "respond", "twin", "verify", "log",
           "alert", "notify", "deadletter"}

InFlight == {m \in Readings : pc[m] \in Stages}
uldOf(m) == body[m].uld

TypeOK ==
    /\ pc \in [Readings -> Stages \cup {"idle", "done", "dead", "aborted"}]
    /\ body \in [Readings -> Reading]
    /\ previous \in [Readings -> ExposureState \cup {NoExposure}]
    /\ status \in [Readings -> ExposureState \cup {NoExposure}]
    /\ respond \in [Readings -> BOOLEAN]
    /\ exposure \in [Ulds -> ExposureState \cup {NoExposure}]
    /\ alerts \subseteq Readings \X AlertKinds
    /\ responses \subseteq Ulds
    /\ twin \in [Ulds -> ExposureState \cup {NoExposure}]
    /\ jobs \subseteq Readings
    /\ deadLetters \subseteq Readings
    /\ audit \subseteq Readings
    /\ failures \in Nat
    /\ saved \in [Ulds -> Seq(Readings)]
    /\ overlap \subseteq Readings \X Readings

Init ==
    /\ pc = [m \in Readings |-> "idle"]
    /\ body = [m \in Readings |-> CHOOSE b \in Body[m] : TRUE]  \* until Arrive
    /\ previous = [m \in Readings |-> NoExposure]
    /\ status = [m \in Readings |-> NoExposure]
    /\ respond = [m \in Readings |-> FALSE]
    /\ exposure = [u \in Ulds |-> NoExposure]
    /\ alerts = {}
    /\ responses = {}
    /\ twin = [u \in Ulds |-> NoExposure]
    /\ jobs = {}
    /\ deadLetters = {}
    /\ audit = {}
    /\ failures = 0
    /\ saved = [u \in Ulds |-> <<>>]
    /\ overlap = {}
-----------------------------------------------------------------------------
Advance(m, here, next) == pc[m] = here /\ pc' = [pc EXCEPT ![m] = next]

\* A message or request arrives and the weather is asked for.
Arrive(m) ==
    /\ Cardinality(InFlight) < MaxInFlight
    /\ Advance(m, "idle", "read")
    /\ \E b \in Body[m] : body' = [body EXCEPT ![m] = b]
    /\ overlap' = overlap \cup ({m} \X InFlight) \cup (InFlight \X {m})
    /\ UNCHANGED <<previous, status, respond, redisVars, audit, failures, saved>>

\* The weather is known, exposureRepository.getState answers, and the next
\* state is computed from its answer before the risk service is asked.
GetState(m) ==
    /\ Advance(m, "read", "save")
    /\ previous' = [previous EXCEPT ![m] = exposure[uldOf(m)]]
    /\ status' = [status EXCEPT ![m] = computeExposureState(exposure[uldOf(m)], body[m])]
    /\ UNCHANGED <<body, respond, redisVars, audit, failures, ghostVars>>

\* shouldCreateOperationalResponse: a first reading, a new status, or
\* whatever the risk level and the context, which other stands for, add.
shouldCreateOperationalResponse(m, other) ==
    previous[m] = NoExposure \/ previous[m].status # status[m].status \/ other

\* The risk is known: state, fleet status and telemetry are written, three
\* commands on one ordered connection.
SaveState(m) ==
    /\ Advance(m, "save", "respond")
    /\ exposure' = [exposure EXCEPT ![uldOf(m)] = status[m]]
    /\ \E other \in BOOLEAN :
          respond' = [respond EXCEPT ![m] = shouldCreateOperationalResponse(m, other)]
    /\ saved' = [saved EXCEPT ![uldOf(m)] = Append(@, m)]
    /\ UNCHANGED <<body, previous, status, alerts, responses, twin, jobs, deadLetters,
                   audit, failures, overlap>>

\* actionOrchestrator.orchestrate, here only that a breach opens its workflow.
Orchestrate(m) ==
    /\ Advance(m, "respond", "twin")
    /\ responses' = IF respond[m] /\ status[m].status = "BREACH"
                    THEN responses \cup {uldOf(m)} ELSE responses
    /\ UNCHANGED <<body, previous, status, respond, exposure, alerts, twin, jobs,
                   deadLetters, audit, failures, ghostVars>>

\* oneRecordService.upsertTwin, which catches the errors of the remote call.
UpsertTwin(m) ==
    /\ Advance(m, "twin", "verify")
    /\ twin' = [twin EXCEPT ![uldOf(m)] = status[m]]
    /\ UNCHANGED <<body, previous, status, respond, exposure, alerts, responses, jobs,
                   deadLetters, audit, failures, ghostVars>>

EnqueueVerification(m) ==
    /\ Advance(m, "verify", "log")
    /\ jobs' = jobs \cup {m}
    /\ UNCHANGED <<body, previous, status, respond, exposure, alerts, responses, twin,
                   deadLetters, audit, failures, ghostVars>>

\* The timeline entry, the audit event, and the alert decision.
LogTelemetry(m) ==
    /\ Advance(m, "log",
               IF shouldEmitAlert(previous[m].status, status[m].status)
               THEN "alert" ELSE "notify")
    /\ audit' = audit \cup {m}
    /\ UNCHANGED <<body, previous, status, respond, redisVars, failures, ghostVars>>

AppendAlert(m) ==
    /\ Advance(m, "alert", "notify")
    /\ alerts' = alerts \cup {<<m, buildAlert(status[m].status)>>}
    /\ UNCHANGED <<body, previous, status, respond, exposure, responses, twin, jobs,
                   deadLetters, audit, failures, ghostVars>>

\* Mutant of Notify: a rejected notification repeats the end of process.
NotifyWithRetry(m) ==
    /\ Advance(m, "notify", "done") \/ Advance(m, "notify", "log")
    /\ UNCHANGED <<body, previous, status, respond, redisVars, audit, failures, ghostVars>>

\* publishNotifications, and the 202 answer of the HTTP route.
Notify(m) ==
    /\ Advance(m, "notify", "done")
    /\ UNCHANGED <<body, previous, status, respond, redisVars, audit, failures, ghostVars>>

\* The calls that may be rejected: the weather lookup, and every audit insert,
\* whose primary key is the type and the millisecond; orchestrate and
\* publishNotifications make theirs only for a reading that is responded to.
CanBeRejected(m) ==
    \/ pc[m] \in {"read", "log"}
    \/ pc[m] \in {"respond", "notify"} /\ respond[m]

\* The server process ends and is started again; Redis may come back empty.
Restart ==
    /\ pc' = [m \in Readings |-> IF m \in InFlight THEN "aborted" ELSE pc[m]]
    /\ UNCHANGED <<body, previous, status, respond, overlap>>

LoseRedis ==
    /\ exposure' = [u \in Ulds |-> NoExposure]
    /\ twin' = [u \in Ulds |-> NoExposure]
    /\ alerts' = {}
    /\ responses' = {}
    /\ jobs' = {}
    /\ deadLetters' = {}
    /\ saved' = [u \in Ulds |-> <<>>]

\* A rejected audit insert of orchestrate comes before or after the workflow
\* of the breach was stored.
PartialResponse(m) ==
    \/ UNCHANGED responses
    \/ /\ pc[m] = "respond" /\ respond[m] /\ status[m].status = "BREACH"
       /\ responses' = responses \cup {uldOf(m)}

Rejected(m) ==
    /\ failures < MaxFailures
    /\ failures' = failures + 1
    /\ CanBeRejected(m)
    /\ UNCHANGED audit

\* The MQTT handler catches whatever process throws.
FailMqtt(m) ==
    /\ body[m].channel = "mqtt"
    /\ Rejected(m)
    /\ PartialResponse(m)
    /\ pc' = [pc EXCEPT ![m] = "deadletter"]
    /\ UNCHANGED <<body, previous, status, respond, exposure, alerts, twin, jobs,
                   deadLetters, ghostVars>>

\* The HTTP route calls process outside its try block: the rejection is
\* unhandled and ends the server process, with every reading in flight.
FailHttp(m) ==
    /\ body[m].channel = "http"
    /\ Rejected(m)
    /\ Restart
    /\ \/ /\ PartialResponse(m)
          /\ UNCHANGED <<exposure, alerts, twin, jobs, deadLetters, saved>>
       \/ RedisMayBeLost /\ LoseRedis

\* dlqRepository.push.  Nothing ever reads mqtt:dead-letter.
DeadLetter(m) ==
    /\ Advance(m, "deadletter", "dead")
    /\ deadLetters' = deadLetters \cup {m}
    /\ UNCHANGED <<body, previous, status, respond, exposure, alerts, responses, twin,
                   jobs, audit, failures, ghostVars>>

Crash ==
    /\ failures < MaxFailures
    /\ failures' = failures + 1
    /\ Restart
    /\ \/ RedisMayBeLost /\ LoseRedis
       \/ UNCHANGED <<redisVars, saved>>
    /\ UNCHANGED audit

Step(m) ==
    \/ GetState(m) \/ SaveState(m) \/ Orchestrate(m) \/ UpsertTwin(m)
    \/ EnqueueVerification(m) \/ LogTelemetry(m) \/ AppendAlert(m) \/ Notify(m)
    \/ DeadLetter(m)

Finished ==
    /\ \A m \in Readings : pc[m] \in {"done", "dead", "aborted"}
    /\ UNCHANGED vars

Next ==
    \/ \E m \in Readings : Arrive(m) \/ Step(m) \/ FailMqtt(m) \/ FailHttp(m)
    \/ Crash
    \/ Finished

Spec == Init /\ [][Next]_vars

\* Every call is answered, rejected, or timed out by its client.
FairSpec == Spec /\ \A m \in Readings : WF_vars(Step(m))
-----------------------------------------------------------------------------
\* The readings whose state was stored for u.
SavedFor(u) == {saved[u][i] : i \in DOMAIN saved[u]}

\* Some two of the stored readings of u were in flight together.
Interleaved(u) == overlap \cap (SavedFor(u) \X SavedFor(u)) # {}

\* A reading that put its ULD in breach.
Breaches(m) == status[m].status = "BREACH" /\ previous[m].status # "BREACH"

\* A breach is never silent: once the readings that put a ULD in breach are
\* processed, a BREACH alert is stored and the workflow is open, however its
\* readings were interleaved and whatever the status before.  Only the loss
\* of such a reading after its state was stored silences it, and for good:
\* the readings after it see no edge.
BreachIsAnnounced ==
    \A u \in Ulds :
        /\ exposure[u].status = "BREACH"
        /\ \A m \in SavedFor(u) : Breaches(m) => pc[m] = "done"
        => /\ u \in responses
           /\ \E a \in alerts : uldOf(a[1]) = u /\ a[2] = "BREACH"

\* No alert without its reading on the audit trail, which outlives Redis.
AlertIsAudited == \A a \in alerts : a[1] \in audit

\* Exposure never falls: the minutes recorded for a ULD decrease only when
\* Redis is lost or a reading that was overtaken by another stores the state
\* it had computed before.
ExposureNeverFallsAlone ==
    [][\A u \in Ulds : exposure'[u].used < exposure[u].used =>
          \/ exposure'[u] = NoExposure
          \/ \E m \in Readings, n \in SavedFor(u) :
                saved'[u] = Append(saved[u], m) /\ <<m, n>> \in overlap]_vars

InTimeOrder(u) ==
    \A i, j \in DOMAIN saved[u] : i < j => body[saved[u][i]].at < body[saved[u][j]].at

HotWithoutGaps(u) ==
    /\ \A m \in SavedFor(u) : body[m].hot
    /\ \A i \in DOMAIN saved[u] \ {1} :
           body[saved[u][i]].at - body[saved[u][i - 1]].at <= Minutes(MaxGapMinutes)

\* The minutes add up, but for their rounding: over readings stored one after
\* the other in the order of their timestamps, a ULD is charged no more than
\* the time they span and the 5 minutes of the first, and exactly that if all
\* of them were hot and none came late, even when readings in between were
\* rejected; each reading after the first may add or lose half a hundredth of
\* a minute.  That is all of a gap under 0.3 seconds, which counts nothing.
TimeIsCounted ==
    \A u \in Ulds :
        saved[u] # <<>> /\ InTimeOrder(u) /\ ~Interleaved(u)
        => LET span == body[saved[u][Len(saved[u])]].at - body[saved[u][1]].at
               charged == Hundredth * exposure[u].used
               rounding == Half * (Len(saved[u]) - 1)
           IN  /\ charged <= Minutes(5) + span + rounding
               /\ HotWithoutGaps(u) =>
                     charged - (Capped(Minutes(5)) + span) \in -rounding .. rounding

\* A ULD recovers only when nothing was ever counted for it: exposure only
\* accumulates, so OK follows BREACH only under a rule that allows no minute,
\* broken by heat that was rounded away, and never follows AT_RISK.  No other
\* ULD gets the RECOVERY alert that shouldEmitAlert and buildAlert provide.
RecoveryNeedsNoMinutes ==
    \A a \in alerts : a[2] = "RECOVERY" =>
        /\ Allowable[uldOf(a[1])] = 0
        /\ previous[a[1]].status = "BREACH" /\ status[a[1]].used = 0

\* Every reading that arrives is processed, dead-lettered or ended by a crash.
EveryReadingEnds ==
    \A m \in Readings : pc[m] = "read" ~> pc[m] \in {"done", "dead", "aborted"}
=============================================================================
