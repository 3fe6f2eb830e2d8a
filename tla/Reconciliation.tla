--------------------------- MODULE Reconciliation ---------------------------
(***************************************************************************)
(* ReconciliationService and VerificationQueueRepository: the exposure     *)
(* state of a ULD in Redis, its digital twin in Redis, the copy on the ONE *)
(* Record server, and the verification jobs that compare the first with    *)
(* the twin and repair one of them.                                        *)
(*                                                                         *)
(* A job may run while readings are stored, while the state is reset, and, *)
(* on the BullMQ queue, while other jobs of the ULD run.  The local queue  *)
(* of a deployment without Redis runs one job at a time.  Readings are     *)
(* reduced to what these stores see of them; TelemetryPipeline has the     *)
(* rest of their way.                                                      *)
(***************************************************************************)
EXTENDS ExposureRules, Sequences, FiniteSets

CONSTANTS
    Readings,           \* the readings that are sent
    Body,               \* Body[m]: the reading m
    Temperature,        \* Temperature[m]: lastTemperatureCelsius after m
    Deployments,        \* the deployments considered
    DriftMinutes,       \* verification.exposureDriftThresholdMinutes
    DriftCelsius,       \* verification.temperatureDriftThresholdCelsius
    BatchSize,          \* verification.batchSize
    MaxAttempts,        \* attempts of a BullMQ job
    MaxRequests,        \* bound: requests for the status, which enqueue jobs,
                        \* resets, requests for the twin and updates of it
    MaxFailures,        \* bound: crashes, rejections, failed remote calls
    RedisMayBeLost      \* may a restart find Redis empty?

ASSUME SentAssumption ==
    Body \in [Readings -> Reading] /\ Temperature \in [Readings -> Int]
ASSUME DeploymentAssumption == Deployments \subseteq [remote : BOOLEAN, inMemory : BOOLEAN]
ASSUME LimitsAssumption ==
    /\ {DriftMinutes, DriftCelsius, MaxRequests, MaxFailures} \subseteq Nat
    /\ {BatchSize, MaxAttempts} \subseteq Nat \ {0}
    /\ RedisMayBeLost \in BOOLEAN

VARIABLES
    deployment,     \* oneRecord.enabled, redis.isInMemory; never changes
    connected,      \* is the Redis client connected?  It never reconnects
    exposure,       \* exposure[u]: uld:<u>:exposure, and with it, but for a
                    \* reset, the entry of u in fleet:status
    twin,           \* twin[u]: operationalState of one-record:twin:<u>
    remote,         \* remote[u]: operationalState on the ONE Record server
    pc,             \* pc[m]: the awaited call of reading m
    held,           \* held[m]: the state computed for m
    jobs,           \* every verification job ever accepted, with its progress
    queue,          \* the jobs that wait, first to last
    answers,        \* copies that requests for a twin have fetched and not cached
    requests,       \* requests so far
    failures,       \* crashes, rejections and failed remote calls so far
    doubt,          \* observation: ULDs whose last verification was lost,
                    \* dropped or overlapped by another, or whose twin was
                    \* replaced by another copy since
    missed,         \* ULDs with a failed remote call since then,
    missing,        \* ULDs whose state a verification did not find,
    cleared         \* and ULDs without a reading since they were reset

readingVars == <<pc, held>>
redisVars == <<exposure, twin>>
queueVars == <<jobs, queue>>
serverVars == <<deployment, connected, answers>>
counters == <<requests, failures>>
ghostVars == <<doubt, missed, missing, cleared>>
vars == <<serverVars, redisVars, remote, readingVars, queueVars, counters,
          ghostVars>>

\* A stored exposure state: what ExposureRules computes and the temperature,
\* which stands for the temperature and the risk level that are compared.
Stored == [exposure : ExposureState \cup {NoExposure}, temp : Int]
Absent == [exposure |-> NoExposure, temp |-> 0]

\* buildOperationalStateNode: the remote copy has no breachedAt.
buildOperationalStateNode(state) == [state EXCEPT !.exposure.breached = FALSE]

ActiveStages == {"read", "fetch", "cache", "patch", "set", "restore", "audit"}
JobStages == ActiveStages \cup {"waiting", "done", "failed", "lost"}
Job == [uld : Ulds, stage : JobStages, attempts : Nat, disturbed : BOOLEAN,
        state : Stored, copy : Stored]

ReadingStages == {"save", "respond", "set", "verify"}

TypeOK ==
    /\ deployment \in Deployments /\ connected \in BOOLEAN
    /\ exposure \in [Ulds -> Stored]
    /\ twin \in [Ulds -> Stored] /\ remote \in [Ulds -> Stored]
    /\ pc \in [Readings -> ReadingStages \cup {"idle", "ended"}]
    /\ held \in [Readings -> Stored]
    /\ jobs \in Seq(Job)
    /\ queue \in Seq(DOMAIN jobs)
    /\ answers \subseteq [uld : Ulds, copy : Stored]
    /\ requests \in 0 .. MaxRequests /\ failures \in 0 .. MaxFailures
    /\ {doubt, missed, missing, cleared} \subseteq SUBSET Ulds

Init ==
    /\ deployment \in Deployments
    /\ connected = TRUE
    /\ exposure = [u \in Ulds |-> Absent]
    /\ twin = [u \in Ulds |-> Absent] /\ remote = [u \in Ulds |-> Absent]
    /\ pc = [m \in Readings |-> "idle"]
    /\ held = [m \in Readings |-> Absent]
    /\ jobs = <<>> /\ queue = <<>> /\ answers = {}
    /\ requests = 0 /\ failures = 0
    /\ doubt = {} /\ missed = {} /\ missing = {} /\ cleared = {}

uldOf(m) == Body[m].uld
InFlight(u) == {m \in Readings : uldOf(m) = u /\ pc[m] \in ReadingStages}
Active(u) == {j \in DOMAIN jobs : jobs[j].uld = u /\ jobs[j].stage \in ActiveStages}
AllActive == {j \in DOMAIN jobs : jobs[j].stage \in ActiveStages}

\* The verifications of u that are under way see that something was stored.
Disturb(u) ==
    [j \in DOMAIN jobs |->
        IF j \in Active(u) THEN [jobs[j] EXCEPT !.disturbed = TRUE] ELSE jobs[j]]

\* A job, with nothing of what it has read.
NewJob(u, stage, attempts) ==
    [uld |-> u, stage |-> stage, attempts |-> attempts, disturbed |-> FALSE,
     state |-> Absent, copy |-> Absent]
Forget(j, stage) == NewJob(jobs[j].uld, stage, jobs[j].attempts)

\* One more failure, while the bound allows one.
Failure == failures < MaxFailures /\ failures' = failures + 1 /\ UNCHANGED requests

\* One more request, while the bounds allow one.
Request ==
    /\ requests < MaxRequests
    /\ requests' = requests + 1
    /\ UNCHANGED failures
-----------------------------------------------------------------------------
\* A PATCH of the remote copy is answered, or fails before or after the server
\* has applied it; the caller goes on in either case.  A deployment without
\* ONE Record writes nothing.
Write(u, state) ==
    \/ /\ ~deployment.remote
       /\ UNCHANGED <<remote, missed, counters>>
    \/ /\ deployment.remote
       /\ remote' = [remote EXCEPT ![u] = buildOperationalStateNode(state)]
       /\ UNCHANGED <<missed, counters>>
    \/ /\ deployment.remote
       /\ Failure
       /\ \/ UNCHANGED remote
          \/ remote' = [remote EXCEPT ![u] = buildOperationalStateNode(state)]
       /\ missed' = missed \cup {u}

\* exposureRepository.getState and computeExposureState for a reading.
ReadState(m) ==
    /\ connected /\ pc[m] = "idle"
    /\ pc' = [pc EXCEPT ![m] = "save"]
    /\ held' = [held EXCEPT ![m] =
          [exposure |-> computeExposureState(exposure[uldOf(m)].exposure, Body[m]),
           temp |-> Temperature[m]]]
    /\ UNCHANGED <<serverVars, redisVars, remote, queueVars, counters, ghostVars>>

\* saveState and saveLatestFleetStatus, two commands on one ordered connection.
SaveState(m) ==
    /\ connected /\ pc[m] = "save"
    /\ pc' = [pc EXCEPT ![m] = "respond"]
    /\ exposure' = [exposure EXCEPT ![uldOf(m)] = held[m]]
    /\ jobs' = Disturb(uldOf(m))
    /\ cleared' = cleared \ {uldOf(m)}
    /\ UNCHANGED <<serverVars, twin, remote, held, queue, counters, doubt, missed,
                   missing>>

\* The response is orchestrated and upsertTwin has written the remote copy.
UpsertTwin(m) ==
    /\ pc[m] = "respond"
    /\ pc' = [pc EXCEPT ![m] = "set"]
    /\ Write(uldOf(m), held[m])
    /\ UNCHANGED <<serverVars, redisVars, held, queueVars, doubt, missing, cleared>>

SetTwin(m) ==
    /\ connected /\ pc[m] = "set"
    /\ pc' = [pc EXCEPT ![m] = "verify"]
    /\ held' = [held EXCEPT ![m] = Absent]
    /\ twin' = [twin EXCEPT ![uldOf(m)] = held[m]]
    /\ UNCHANGED <<serverVars, exposure, remote, queueVars, counters,
                   ghostVars>>

\* orchestrate is rejected by its audit insert: the reading goes no further.
RejectReading(m) ==
    /\ pc[m] = "respond"
    /\ Failure
    /\ pc' = [pc EXCEPT ![m] = "ended"]
    /\ doubt' = doubt \cup {uldOf(m)}
    /\ UNCHANGED <<serverVars, redisVars, remote, held, queueVars, missed, missing,
                   cleared>>

\* enqueueVerification.  The id of a job is the ULD and the millisecond: BullMQ
\* ignores a job whose id it knows, so that of two jobs of one millisecond the
\* second is dropped, however far the first has come.
Enqueue(u) ==
    \/ /\ jobs' = Append(jobs, NewJob(u, "waiting", 0))
       /\ queue' = Append(queue, Len(jobs) + 1)
       /\ UNCHANGED doubt
    \/ /\ ~deployment.inMemory
       /\ \E j \in DOMAIN jobs :
             /\ jobs[j].uld = u /\ jobs[j].stage # "lost"
             /\ \A i \in j + 1 .. Len(jobs) : jobs[i].uld # u
             /\ doubt' = IF jobs[j].stage = "waiting" THEN doubt ELSE doubt \cup {u}
       /\ UNCHANGED queueVars

EnqueueVerification(m) ==
    /\ pc[m] = "verify"
    /\ pc' = [pc EXCEPT ![m] = "ended"]
    /\ Enqueue(uldOf(m))
    /\ UNCHANGED <<serverVars, redisVars, remote, held, counters, missed, missing,
                   cleared>>

\* GET /uld/:id/status, or GET /fleet for a ULD it lists.
ReadStatus(u) ==
    /\ Request
    /\ Enqueue(u)
    /\ UNCHANGED <<serverVars, redisVars, remote, readingVars, missed, missing,
                   cleared>>

\* POST /uld/:id/reset: the state and the telemetry list, nothing else.
Reset(u) ==
    /\ connected
    /\ Request
    /\ exposure' = [exposure EXCEPT ![u] = Absent]
    /\ cleared' = cleared \cup {u}
    /\ UNCHANGED <<serverVars, twin, remote, readingVars, queueVars, doubt,
                   missed, missing>>

\* GET /ulds/:id fetches the remote copy as a verification does,
FetchAnswer(u) ==
    /\ connected /\ deployment.remote
    /\ Request
    /\ answers' = answers \cup {[uld |-> u, copy |-> remote[u]]}
    /\ UNCHANGED <<deployment, connected, redisVars, remote, readingVars, queueVars,
                   ghostVars>>

\* and puts it in the place of the twin.
CacheAnswer(a) ==
    /\ connected
    /\ answers' = answers \ {a}
    /\ twin' = [twin EXCEPT ![a.uld] = a.copy]
    /\ doubt' = IF a.copy = twin[a.uld] THEN doubt ELSE doubt \cup {a.uld}
    /\ UNCHANGED <<deployment, connected, exposure, remote, readingVars, queueVars,
                   counters, missed, missing, cleared>>

\* PATCH /ulds/:id: a client gives the remote copy a content of its own, here
\* one without an operational state.
UpdateRemote(u) ==
    /\ deployment.remote
    /\ Request
    /\ remote' = [remote EXCEPT ![u] = Absent]
    /\ missed' = missed \cup {u}
    /\ UNCHANGED <<serverVars, redisVars, readingVars, queueVars, doubt, missing,
                   cleared>>
-----------------------------------------------------------------------------
Distance(a, b) == IF a < b THEN b - a ELSE a - b

\* compareStates(redisState, oneRecordState).detected.  Exposures are compared
\* as what they stand for: at a distance of the threshold itself, where the
\* difference of two binary fractions may lie on either side, there is none.
Drift(state, copy) ==
    IF state = Absent \/ copy = Absent THEN state # copy
    ELSE \/ Distance(state.temp, copy.temp) > DriftCelsius
         \/ Distance(state.exposure.used, copy.exposure.used) > 100 * DriftMinutes

\* Mutant of Repair: the twin is taken for the truth.
RepairFromTwin(state, copy) ==
    IF ~Drift(state, copy) THEN "audit" ELSE IF copy = Absent THEN "patch" ELSE "restore"

\* Mutant of Repair: an existing copy is only realigned locally.
RepairLocally(state, copy) ==
    IF ~Drift(state, copy) THEN "audit" ELSE IF state = Absent THEN "restore"
    ELSE IF copy = Absent THEN "patch" ELSE "set"

\* The branches of reconcile: what follows the comparison.
Repair(state, copy) ==
    IF ~Drift(state, copy) THEN "audit" ELSE IF state = Absent THEN "restore" ELSE "patch"

At(j, stage) == j \in DOMAIN jobs /\ jobs[j].stage = stage
Step(j, changed) == jobs' = [jobs EXCEPT ![j] = changed] /\ UNCHANGED queue
GoTo(j, stage) == Step(j, [jobs[j] EXCEPT !.stage = stage])

\* The copy is known: compare it with the state read first and choose.
Compare(j, copy) ==
    Step(j, [jobs[j] EXCEPT !.copy = copy, !.stage = Repair(jobs[j].state, copy)])

\* A worker takes the first job and reads the exposure state.
VerifyGetState(j) ==
    /\ connected
    /\ queue # <<>> /\ j = Head(queue)
    /\ Cardinality(AllActive) < IF deployment.inMemory THEN 1 ELSE BatchSize
    /\ LET u == jobs[j].uld IN
       /\ jobs' = [jobs EXCEPT ![j].stage = "read", ![j].state = exposure[u],
                               ![j].disturbed = FALSE]
       /\ doubt' = IF Active(u) = {} THEN doubt \ {u} ELSE doubt \cup {u}
       /\ missed' = IF Active(u) = {} THEN missed \ {u} ELSE missed
       /\ missing' = IF exposure[u] = Absent THEN missing \cup {u} ELSE missing
    /\ queue' = Tail(queue)
    /\ UNCHANGED <<serverVars, redisVars, remote, readingVars, counters, cleared>>

\* getUld: the cached twin, which is the answer when ONE Record is disabled.
ReadTwin(j) ==
    /\ connected /\ At(j, "read")
    /\ LET copy == twin[jobs[j].uld] IN
       IF deployment.remote
       THEN Step(j, [jobs[j] EXCEPT !.copy = copy, !.stage = "fetch"])
       ELSE Compare(j, copy)
    /\ UNCHANGED <<serverVars, redisVars, remote, readingVars, counters, ghostVars>>

\* The remote copy arrives, which may be an object without a state.
FetchRemote(j) ==
    /\ At(j, "fetch")
    /\ Step(j, [jobs[j] EXCEPT !.copy = remote[jobs[j].uld], !.stage = "cache"])
    /\ UNCHANGED <<serverVars, redisVars, remote, readingVars, counters, ghostVars>>

\* The fetch fails, and the cached twin is used instead.
FetchFails(j) ==
    /\ At(j, "fetch")
    /\ Failure
    /\ Compare(j, jobs[j].copy)
    /\ missed' = missed \cup {jobs[j].uld}
    /\ UNCHANGED <<serverVars, redisVars, remote, readingVars, doubt, missing, cleared>>

\* The copy replaces the twin, whatever a reading has stored there meanwhile.
CacheTwin(j) ==
    /\ connected /\ At(j, "cache")
    /\ twin' = [twin EXCEPT ![jobs[j].uld] = jobs[j].copy]
    /\ Compare(j, jobs[j].copy)
    /\ UNCHANGED <<serverVars, exposure, remote, readingVars, counters,
                   ghostVars>>

\* syncOperationalState writes the state read first to the server ...
PatchRemote(j) ==
    /\ At(j, "patch")
    /\ Write(jobs[j].uld, jobs[j].state)
    /\ GoTo(j, "set")
    /\ UNCHANGED <<serverVars, redisVars, readingVars, doubt, missing, cleared>>

\* Mutant of PatchTwin: the twin is replaced only if the server has the state.
PatchTwinIfSynced(j) ==
    /\ connected /\ At(j, "set")
    /\ twin' = IF jobs[j].uld \in missed THEN twin
               ELSE [twin EXCEPT ![jobs[j].uld] = jobs[j].state]
    /\ GoTo(j, "audit")
    /\ UNCHANGED <<serverVars, exposure, remote, readingVars, counters,
                   ghostVars>>

\* ... and to the twin, even if the server was not reached.
PatchTwin(j) ==
    /\ connected /\ At(j, "set")
    /\ twin' = [twin EXCEPT ![jobs[j].uld] = jobs[j].state]
    /\ GoTo(j, "audit")
    /\ UNCHANGED <<serverVars, exposure, remote, readingVars, counters,
                   ghostVars>>

\* saveState and saveLatestFleetStatus with the state of the twin.
RestoreState(j) ==
    /\ connected /\ At(j, "restore")
    /\ exposure' = [exposure EXCEPT ![jobs[j].uld] = jobs[j].copy]
    /\ jobs' = [Disturb(jobs[j].uld) EXCEPT ![j] = [jobs[j] EXCEPT !.stage = "audit"]]
    /\ UNCHANGED <<queue, serverVars, twin, remote, readingVars, counters, ghostVars>>

\* appendAudit and auditStore.log.  If the insert is rejected, the processor
\* notes the failure and the job counts as processed.
LogVerification(j) ==
    /\ connected /\ At(j, "audit")
    /\ Step(j, Forget(j, "done"))
    /\ UNCHANGED <<serverVars, redisVars, remote, readingVars, counters, ghostVars>>

\* Mutant of FailAttempt: a job is retried without end.
RetryAttempt(j) ==
    /\ ~connected
    /\ \/ jobs[j].stage \in ActiveStages \ {"fetch", "patch"}
       \/ queue # <<>> /\ j = Head(queue)
    /\ jobs' = [jobs EXCEPT ![j] = Forget(j, "waiting")]
    /\ queue' = Append(IF jobs[j].stage = "waiting" THEN Tail(queue) ELSE queue, j)
    /\ UNCHANGED <<serverVars, redisVars, remote, readingVars, counters, ghostVars>>

\* Without a connection every Redis command is rejected, appendFailure too, so
\* that the processor throws and BullMQ tries the job again, or gives it up.
FailAttempt(j) ==
    /\ ~connected
    /\ \/ jobs[j].stage \in ActiveStages \ {"fetch", "patch"}
       \/ queue # <<>> /\ j = Head(queue)
    /\ LET waiting == IF jobs[j].stage = "waiting" THEN Tail(queue) ELSE queue
           attempts == jobs[j].attempts + 1
       IN  IF attempts < MaxAttempts
           THEN /\ jobs' = [jobs EXCEPT ![j] = NewJob(jobs[j].uld, "waiting", attempts)]
                /\ queue' = Append(waiting, j)
                /\ UNCHANGED doubt
           ELSE /\ jobs' = [jobs EXCEPT ![j] = NewJob(jobs[j].uld, "failed", attempts)]
                /\ queue' = waiting
                /\ doubt' = doubt \cup {jobs[j].uld}
    /\ UNCHANGED <<serverVars, redisVars, remote, readingVars, counters, missed,
                   missing, cleared>>
-----------------------------------------------------------------------------
\* The connection to Redis breaks; the client is told not to reconnect.
Disconnect ==
    /\ ~deployment.inMemory /\ connected
    /\ Failure
    /\ connected' = FALSE
    /\ UNCHANGED <<deployment, answers, redisVars, remote, readingVars, queueVars,
                   ghostVars>>

Unfinished == {u \in Ulds : InFlight(u) # {} \/ Active(u) # {}}
                  \cup {jobs[queue[i]].uld : i \in DOMAIN queue}

\* Redis is empty, with the jobs that waited in it or in the process.
LoseRedis ==
    /\ exposure' = [u \in Ulds |-> Absent]
    /\ twin' = [u \in Ulds |-> Absent]
    /\ jobs' = [j \in DOMAIN jobs |-> Forget(j, "lost")]
    /\ queue' = <<>>

\* Redis keeps what it has, and BullMQ starts the active jobs again.
KeepRedis ==
    /\ UNCHANGED redisVars
    /\ jobs' = [j \in DOMAIN jobs |->
          IF j \in AllActive THEN Forget(j, "waiting") ELSE jobs[j]]
    /\ \E order \in [1 .. Cardinality(AllActive) -> AllActive] :
          /\ \A i, k \in DOMAIN order : i # k => order[i] # order[k]
          /\ queue' = queue \o order

\* The process ends and is started again: for any reason, or because a reading
\* or a request was rejected by a Redis client without a connection.
Crash ==
    /\ Failure \/ (~connected /\ UNCHANGED counters)
    /\ connected' = TRUE
    /\ pc' = [m \in Readings |-> IF pc[m] \in ReadingStages THEN "ended" ELSE pc[m]]
    /\ doubt' = doubt \cup Unfinished
    /\ \/ (deployment.inMemory \/ RedisMayBeLost) /\ LoseRedis
       \/ ~deployment.inMemory /\ KeepRedis
    /\ held' = [m \in Readings |-> Absent] /\ answers' = {}
    /\ UNCHANGED <<deployment, remote, missed, missing, cleared>>

ReadingStep(m) ==
    SaveState(m) \/ UpsertTwin(m) \/ SetTwin(m) \/ EnqueueVerification(m)

\* With or without a connection, the worker makes progress with a job.
VerifyStep(j) ==
    \/ VerifyGetState(j) \/ ReadTwin(j) \/ FetchRemote(j) \/ FetchFails(j) \/ CacheTwin(j)
    \/ PatchRemote(j) \/ PatchTwin(j) \/ RestoreState(j) \/ LogVerification(j)
    \/ FailAttempt(j)

Next ==
    \/ \E m \in Readings : ReadState(m) \/ ReadingStep(m) \/ RejectReading(m)
    \/ \E u \in Ulds : ReadStatus(u) \/ Reset(u) \/ FetchAnswer(u) \/ UpdateRemote(u)
    \/ \E a \in answers : CacheAnswer(a)
    \/ \E j \in DOMAIN jobs : VerifyStep(j)
    \/ Disconnect
    \/ Crash

Spec == Init /\ [][Next]_vars

\* The worker goes on while there is a job; nothing else need happen.
FairSpec == Spec /\ WF_vars(\E j \in DOMAIN jobs : VerifyStep(j))
-----------------------------------------------------------------------------
\* No reading and no verification of u is under way.
Quiet(u) ==
    /\ InFlight(u) = {} /\ Active(u) = {}
    /\ \A i \in DOMAIN queue : jobs[queue[i]].uld # u

\* Verification brings state and twin together: once everything about a ULD has
\* settled they do not differ by more than the thresholds, however readings,
\* verifications and resets were interleaved and whatever the server answered,
\* unless the last verification was lost, dropped as a duplicate or overlapped
\* by another one of the ULD, or a request for the twin has since replaced it by
\* an older copy.
VerificationConverges ==
    \A u \in Ulds :
        Quiet(u) /\ u \notin doubt /\ exposure[u] # Absent
        => ~Drift(exposure[u], twin[u])

\* Then the server has the state of the twin, unless a remote call failed or a
\* client updated the copy since the last verification began.
RemoteAgrees ==
    \A u \in Ulds :
        /\ deployment.remote /\ Quiet(u) /\ u \notin doubt \cup missed
        /\ exposure[u] # Absent
        => remote[u] = buildOperationalStateNode(twin[u])

\* The date of a breach is never lost, but with a state that was restored from
\* the server, whose copy does not have it, when a verification found none.
UndatedBreachWasRestored ==
    \A u \in Ulds :
        exposure[u].exposure.status = "BREACH" /\ ~exposure[u].exposure.breached
        => deployment.remote /\ u \in missing

\* A repair never takes minutes from a ULD, unless a reading or another repair
\* stored a state of the ULD since the verification read it.
RepairKeepsMinutes ==
    [][\A j \in DOMAIN jobs :
          LET u == jobs[j].uld IN
          /\ jobs[j].stage # "audit" /\ jobs'[j].stage = "audit"
          /\ exposure'[u].exposure.used < exposure[u].exposure.used
          => jobs[j].disturbed]_vars

\* The backlog of verifications always clears, whatever fails on the way.
BacklogClears == []<>(queue = <<>> /\ AllActive = {})

\* docs/api.md 23: "Clears exposure state and telemetry for a ULD."  A ULD that
\* was reset has no exposure state until its next reading.
ResetClears == \A u \in cleared : exposure[u] = Absent
=============================================================================
