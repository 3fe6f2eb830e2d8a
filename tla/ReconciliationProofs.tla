------------------------ MODULE ReconciliationProofs ------------------------
(***************************************************************************)
(* Theorems about Reconciliation: type correctness, that verification      *)
(* brings the exposure state, the twin and the remote copy together, that  *)
(* only a restored state lacks the date of its breach, and that a repair   *)
(* takes no minutes from a ULD, for any ULDs, readings, requests, jobs,    *)
(* thresholds, deployments and failures.                                   *)
(***************************************************************************)
EXTENDS Reconciliation, FiniteSetTheorems, SequenceTheorems, TLAPS

-----------------------------------------------------------------------------
(***************************************************************************)
(* Lemmas about states, sequences and the operators of the model.          *)
(***************************************************************************)
\* Absent is a state, without a breach and without minutes.
LEMMA AbsentType ==
    /\ Absent \in Stored
    /\ Absent.exposure.status # "BREACH" /\ Absent.exposure.used = 0
    /\ ~Absent.exposure.breached
  BY DEF Absent, Stored, NoExposure

LEMMA StoredType ==
    ASSUME NEW state \in Stored
    PROVE  /\ state = [exposure |-> state.exposure, temp |-> state.temp]
           /\ state.temp \in Int /\ state.exposure.used \in Nat
           /\ state.exposure.at \in Nat \cup {NoTime}
           /\ state.exposure.status \in Statuses /\ state.exposure.breached \in BOOLEAN
           /\ buildOperationalStateNode(state) \in Stored
           /\ ~buildOperationalStateNode(state).exposure.breached
           /\ ~state.exposure.breached => buildOperationalStateNode(state) = state
  <1>1. /\ state.temp \in Int /\ state.exposure \in ExposureState \cup {NoExposure}
        /\ state = [exposure |-> state.exposure, temp |-> state.temp]
    BY DEF Stored
  <1>2. NoExposure \in [used : Nat, at : {NoTime}, status : Statuses, breached : BOOLEAN]
        /\ ~NoExposure.breached
    BY DEF NoExposure, Statuses
  <1> DEFINE bare == [state.exposure EXCEPT !.breached = FALSE]
  <1>3. /\ bare \in ExposureState \cup {NoExposure}
        /\ ~bare.breached /\ (~state.exposure.breached => bare = state.exposure)
        /\ state.exposure.used \in Nat /\ state.exposure.at \in Nat \cup {NoTime}
        /\ state.exposure.status \in Statuses /\ state.exposure.breached \in BOOLEAN
    <2>1. CASE state.exposure \in ExposureState
      BY <2>1 DEF ExposureState
    <2>2. CASE state.exposure = NoExposure
      <3>1. bare = NoExposure
        BY <1>2, <2>2
      <3>2. QED
        BY <1>2, <2>2, <3>1
    <2>3. QED
      BY <1>1, <2>1, <2>2
  <1>4. buildOperationalStateNode(state) = [state EXCEPT !.exposure = bare]
    BY DEF buildOperationalStateNode
  <1> HIDE DEF bare
  <1>5. buildOperationalStateNode(state) = [exposure |-> bare, temp |-> state.temp]
    BY <1>1, <1>4
  <1>6. QED
    BY <1>1, <1>3, <1>5 DEF Stored

LEMMA RoundedType ==
    ASSUME NEW used \in Nat, NEW time \in Nat PROVE toFixed(used, time) \in Nat
  <1> DEFINE sum == Hundredth * used + time
  <1>1. sum \in Nat
    BY DEF Hundredth
  <1>2. toFixed(used, time) \in {sum \div 600, (sum + 300) \div 600}
    BY DEF toFixed, Hundredth, Half
  <1> HIDE DEF sum
  <1>3. sum \div 600 \in Nat /\ (sum + 300) \div 600 \in Nat
    BY <1>1
  <1>4. QED
    BY <1>2, <1>3

\* What a reading makes of any state is a state, whose breach has a date.
LEMMA ComputedType ==
    ASSUME NEW before \in Stored, NEW reading \in Reading
    PROVE  LET after == computeExposureState(before.exposure, reading) IN
           /\ after \in ExposureState
           /\ after.status = "BREACH" => after.breached
  <1> DEFINE previous == before.exposure
             time == increment(previous.at, reading)
             used == toFixed(previous.used, time)
             status == statusOf(used, reading.hot, Allowable[reading.uld])
  <1>1. /\ previous.used \in Nat /\ previous.at \in Nat \cup {NoTime}
        /\ previous.breached \in BOOLEAN
    BY StoredType
  <1>2. reading.uld \in Ulds /\ reading.at \in Nat /\ reading.hot \in BOOLEAN
    BY DEF Reading
  <1>3. time \in Nat
    BY <1>1, <1>2, RuleAssumption DEF increment, elapsedTime, Capped, Minutes, NoTime
  <1>4. used \in Nat
    BY <1>1, <1>3, RoundedType
  <1>5. status \in Statuses
    BY DEF statusOf, Statuses
  <1> DEFINE breached == previous.breached \/ status = "BREACH"
  <1>6. breached \in BOOLEAN /\ (status = "BREACH" => breached)
    BY <1>1
  <1>7. computeExposureState(previous, reading) =
            [used |-> used, at |-> reading.at, status |-> status, breached |-> breached]
    BY DEF computeExposureState
  <1> HIDE DEF used, status, breached
  <1>8. QED
    BY <1>2, <1>4, <1>5, <1>6, <1>7 DEF ExposureState

\* Two equal states do not drift apart.
LEMMA NoDrift ==
    ASSUME NEW state \in Stored PROVE ~Drift(state, state)
  BY StoredType, LimitsAssumption DEF Drift, Distance

LEMMA NodeOfAbsent == buildOperationalStateNode(Absent) = Absent
  BY AbsentType, StoredType

-----------------------------------------------------------------------------
(***************************************************************************)
(* Type correctness.                                                       *)
(***************************************************************************)
Ghosts == doubt \subseteq Ulds /\ missed \subseteq Ulds
              /\ missing \subseteq Ulds /\ cleared \subseteq Ulds

Jobs == jobs \in Seq(Job) /\ queue \in Seq(DOMAIN jobs)

\* The number of the jobs is the length of their list.
LEMMA JobsDomain ==
    ASSUME Jobs
    PROVE  /\ Len(jobs) \in Nat /\ DOMAIN jobs = 1 .. Len(jobs)
           /\ jobs = [j \in DOMAIN jobs |-> jobs[j]]
           /\ \A j \in DOMAIN jobs : jobs[j] \in Job
           /\ queue # <<>> => Head(queue) \in DOMAIN jobs
  BY DEF Jobs

\* A list of jobs whose entries are jobs, and no fewer, types the queue.
LEMMA JobsReplaced ==
    ASSUME Jobs, DOMAIN jobs' = DOMAIN jobs, jobs' = [j \in DOMAIN jobs |-> jobs'[j]],
           \A j \in DOMAIN jobs : jobs'[j] \in Job
    PROVE  jobs' \in Seq(Job)
  <1>1. DOMAIN jobs' = 1 .. Len(jobs) /\ Len(jobs) \in Nat
    BY JobsDomain
  <1>2. jobs' \in [1 .. Len(jobs) -> Job]
    BY <1>1
  <1>3. QED
    BY <1>1, <1>2

\* One job goes on.
LEMMA StepType ==
    ASSUME Jobs, NEW j \in DOMAIN jobs, NEW changed \in Job,
           jobs' = [jobs EXCEPT ![j] = changed], queue' = queue
    PROVE  Jobs'
  <1>1. DOMAIN jobs' = DOMAIN jobs /\ jobs' = [i \in DOMAIN jobs |-> jobs'[i]]
    BY JobsDomain
  <1>2. \A i \in DOMAIN jobs : jobs'[i] \in Job
    BY JobsDomain
  <1>3. QED
    BY <1>1, <1>2, JobsReplaced DEF Jobs

LEMMA JobFields ==
    ASSUME NEW job \in Job
    PROVE  /\ job.uld \in Ulds /\ job.stage \in JobStages /\ job.attempts \in Nat
           /\ job.disturbed \in BOOLEAN /\ job.state \in Stored /\ job.copy \in Stored
           /\ \A stage \in JobStages : [job EXCEPT !.stage = stage] \in Job
           /\ \A stage \in JobStages, copy \in Stored :
                 [job EXCEPT !.copy = copy, !.stage = stage] \in Job
           /\ [job EXCEPT !.disturbed = TRUE] \in Job
  BY DEF Job

LEMMA NewJobType ==
    ASSUME NEW u \in Ulds, NEW stage \in JobStages, NEW attempts \in Nat
    PROVE  NewJob(u, stage, attempts) \in Job
  BY AbsentType DEF NewJob, Job

LEMMA RepairStage ==
    ASSUME NEW state, NEW copy
    PROVE  Repair(state, copy) \in {"audit", "restore", "patch"}
  BY DEF Repair

LEMMA ComparedType ==
    ASSUME Jobs, NEW j \in DOMAIN jobs, NEW copy \in Stored, Compare(j, copy)
    PROVE  Jobs'
  <1>1. Repair(jobs[j].state, copy) \in JobStages
    BY RepairStage DEF JobStages, ActiveStages
  <1>2. [jobs[j] EXCEPT !.copy = copy, !.stage = Repair(jobs[j].state, copy)] \in Job
    BY <1>1, JobsDomain, JobFields
  <1>3. QED
    BY <1>2, StepType DEF Compare, Step

\* The verifications of a ULD are told, and nothing else of them changes.
LEMMA DisturbedJobs ==
    ASSUME Jobs, NEW u
    PROVE  /\ DOMAIN Disturb(u) = DOMAIN jobs
           /\ Disturb(u) = [j \in DOMAIN jobs |-> Disturb(u)[j]]
           /\ \A j \in DOMAIN jobs :
                 /\ Disturb(u)[j] \in Job
                 /\ Disturb(u)[j].uld = jobs[j].uld
                 /\ Disturb(u)[j].stage = jobs[j].stage
                 /\ Disturb(u)[j].state = jobs[j].state
                 /\ Disturb(u)[j].copy = jobs[j].copy
                 /\ Disturb(u)[j].disturbed = (jobs[j].disturbed \/ j \in Active(u))
  <1>1. Disturb(u) = [j \in DOMAIN jobs |->
            IF j \in Active(u) THEN [jobs[j] EXCEPT !.disturbed = TRUE] ELSE jobs[j]]
    BY DEF Disturb
  <1>2. ASSUME NEW job \in Job
        PROVE  LET told == [job EXCEPT !.disturbed = TRUE] IN
               /\ told \in Job /\ told.uld = job.uld /\ told.stage = job.stage
               /\ told.state = job.state /\ told.copy = job.copy /\ told.disturbed = TRUE
    BY DEF Job
  <1>3. \A j \in DOMAIN jobs : jobs[j] \in Job /\ jobs[j].disturbed \in BOOLEAN
    BY JobsDomain, JobFields
  <1> HIDE DEF Job
  <1>4. QED
    BY <1>1, <1>2, <1>3

LEMMA DisturbType ==
    ASSUME Jobs, NEW u, jobs' = Disturb(u), queue' = queue
    PROVE  Jobs'
  <1>1. /\ DOMAIN jobs' = DOMAIN jobs /\ jobs' = [i \in DOMAIN jobs |-> jobs'[i]]
        /\ \A i \in DOMAIN jobs : jobs'[i] \in Job
    BY DisturbedJobs
  <1>2. QED
    BY <1>1, JobsReplaced DEF Jobs

LEMMA EnqueueType ==
    ASSUME Jobs, Ghosts, NEW u \in Ulds, Enqueue(u)
    PROVE  Jobs' /\ doubt' \subseteq Ulds
  <1>1. CASE /\ jobs' = Append(jobs, NewJob(u, "waiting", 0))
             /\ queue' = Append(queue, Len(jobs) + 1)
             /\ UNCHANGED doubt
    <2>1. NewJob(u, "waiting", 0) \in Job
      BY NewJobType DEF JobStages
    <2>2. jobs' \in Seq(Job) /\ Len(jobs') = Len(jobs) + 1 /\ Len(jobs) \in Nat
      BY <1>1, <2>1 DEF Jobs
    <2>3. DOMAIN jobs' = 1 .. (Len(jobs) + 1) /\ DOMAIN jobs = 1 .. Len(jobs)
      BY <2>2 DEF Jobs
    <2>4. DOMAIN jobs \subseteq DOMAIN jobs' /\ Len(jobs) + 1 \in DOMAIN jobs'
      BY <2>2, <2>3
    <2>5. queue \in Seq(DOMAIN jobs')
      BY <2>4 DEF Jobs
    <2>6. QED
      BY <1>1, <2>2, <2>4, <2>5 DEF Jobs, Ghosts
  <1>2. CASE UNCHANGED queueVars /\ (doubt' = doubt \/ doubt' = doubt \cup {u})
    BY <1>2 DEF Jobs, Ghosts, queueVars
  <1>3. QED
    BY <1>1, <1>2 DEF Enqueue

\* A call of the server may change the remote copy of one ULD, and is counted.
LEMMA WriteType ==
    ASSUME remote \in [Ulds -> Stored], requests \in 0 .. MaxRequests,
           failures \in 0 .. MaxFailures, missed \subseteq Ulds,
           NEW u \in Ulds, NEW state \in Stored, Write(u, state)
    PROVE  /\ remote' \in [Ulds -> Stored] /\ missed' \subseteq Ulds
           /\ requests' \in 0 .. MaxRequests /\ failures' \in 0 .. MaxFailures
  <1>1. buildOperationalStateNode(state) \in Stored
    BY StoredType
  <1>2. remote' = remote \/ remote' = [remote EXCEPT ![u] = buildOperationalStateNode(state)]
    BY DEF Write
  <1>3. remote' \in [Ulds -> Stored]
    BY <1>1, <1>2
  <1>4. missed' = missed \/ missed' = missed \cup {u}
    BY DEF Write
  <1>5. UNCHANGED counters \/ Failure
    BY DEF Write
  <1>6. QED
    BY <1>3, <1>4, <1>5, LimitsAssumption DEF Failure, counters

\* The parts of TypeOK.
LEMMA Typed ==
    TypeOK <=>
      /\ deployment \in Deployments /\ connected \in BOOLEAN
      /\ exposure \in [Ulds -> Stored] /\ twin \in [Ulds -> Stored]
      /\ remote \in [Ulds -> Stored]
      /\ pc \in [Readings -> ReadingStages \cup {"idle", "ended"}]
      /\ held \in [Readings -> Stored]
      /\ Jobs /\ Ghosts
      /\ answers \subseteq [uld : Ulds, copy : Stored]
      /\ requests \in 0 .. MaxRequests /\ failures \in 0 .. MaxFailures
  BY DEF TypeOK, Jobs, Ghosts

LEMMA TypedNext ==
    TypeOK' <=>
      /\ deployment' \in Deployments /\ connected' \in BOOLEAN
      /\ exposure' \in [Ulds -> Stored] /\ twin' \in [Ulds -> Stored]
      /\ remote' \in [Ulds -> Stored]
      /\ pc' \in [Readings -> ReadingStages \cup {"idle", "ended"}]
      /\ held' \in [Readings -> Stored]
      /\ Jobs' /\ Ghosts'
      /\ answers' \subseteq [uld : Ulds, copy : Stored]
      /\ requests' \in 0 .. MaxRequests /\ failures' \in 0 .. MaxFailures
  BY DEF TypeOK, Jobs, Ghosts

LEMMA TypeInit == Init => TypeOK
  <1> SUFFICES ASSUME Init PROVE TypeOK
    OBVIOUS
  <1>1. Jobs /\ Ghosts
    BY DEF Init, Jobs, Ghosts
  <1>2. QED
    BY <1>1, Typed, AbsentType, LimitsAssumption DEF Init

\* What a restart does to the stores and the jobs.
LEMMA RestartType ==
    ASSUME Jobs, exposure \in [Ulds -> Stored], twin \in [Ulds -> Stored],
           LoseRedis \/ KeepRedis
    PROVE  Jobs' /\ exposure' \in [Ulds -> Stored] /\ twin' \in [Ulds -> Stored]
  <1>1. ASSUME NEW j \in DOMAIN jobs, NEW stage \in {"lost", "waiting"}
        PROVE  Forget(j, stage) \in Job
    BY JobsDomain, JobFields, NewJobType DEF Forget, JobStages
  <1>2. CASE LoseRedis
    <2>1. /\ DOMAIN jobs' = DOMAIN jobs /\ jobs' = [i \in DOMAIN jobs |-> jobs'[i]]
          /\ \A i \in DOMAIN jobs : jobs'[i] \in Job
          /\ queue' = <<>>
      BY <1>1, <1>2 DEF LoseRedis
    <2>2. jobs' \in Seq(Job)
      BY <2>1, JobsReplaced
    <2>3. QED
      BY <1>2, <2>1, <2>2, AbsentType DEF LoseRedis, Jobs
  <1>3. CASE KeepRedis
    <2>1. /\ DOMAIN jobs' = DOMAIN jobs /\ jobs' = [i \in DOMAIN jobs |-> jobs'[i]]
          /\ \A i \in DOMAIN jobs : jobs'[i] \in Job
      BY <1>1, <1>3, JobsDomain DEF KeepRedis
    <2>2. jobs' \in Seq(Job)
      BY <2>1, JobsReplaced
    <2>3. PICK order \in [1 .. Cardinality(AllActive) -> AllActive] : queue' = queue \o order
      BY <1>3 DEF KeepRedis
    <2>4. Cardinality(AllActive) \in Nat
      <3>1. IsFiniteSet(1 .. Len(jobs))
        <4>1. Len(jobs) \in Int
          BY JobsDomain
        <4>2. QED
          BY <4>1, FS_Interval
      <3>2. AllActive \in SUBSET (1 .. Len(jobs))
        BY JobsDomain DEF AllActive
      <3>3. QED
        BY <3>1, <3>2, FS_Subset, FS_CardinalityType
    <2>5. order \in Seq(DOMAIN jobs)
      BY <2>3, <2>4 DEF AllActive
    <2>6. queue' \in Seq(DOMAIN jobs)
      BY <2>3, <2>5 DEF Jobs
    <2>7. QED
      BY <1>3, <2>1, <2>2, <2>6 DEF KeepRedis, Jobs, redisVars
  <1>4. QED
    BY <1>2, <1>3

\* The types of the queue when a job goes on, is tried again or given up.
LEMMA VerifyType ==
    ASSUME TypeOK, NEW j \in DOMAIN jobs, VerifyStep(j)
    PROVE  TypeOK'
  <1> USE DEF serverVars, redisVars, readingVars, counters, ghostVars
  <1>1. /\ Jobs /\ Ghosts /\ jobs[j] \in Job /\ jobs[j].uld \in Ulds
        /\ exposure \in [Ulds -> Stored] /\ twin \in [Ulds -> Stored]
        /\ remote \in [Ulds -> Stored]
        /\ jobs[j].state \in Stored /\ jobs[j].copy \in Stored
    BY Typed, JobsDomain, JobFields
  <1>2. CASE VerifyGetState(j)
    <2>1. PICK changed : /\ changed = [jobs[j] EXCEPT !.stage = "read",
                                          !.state = exposure[jobs[j].uld], !.disturbed = FALSE]
                         /\ jobs' = [jobs EXCEPT ![j] = changed]
      BY <1>2 DEF VerifyGetState
    <2>2. exposure[jobs[j].uld] \in Stored
      BY <1>1
    <2>3. changed \in Job
      BY <1>1, <2>1, <2>2 DEF Job, JobStages, ActiveStages
    <2>4. /\ DOMAIN jobs' = DOMAIN jobs /\ jobs' = [i \in DOMAIN jobs |-> jobs'[i]]
          /\ \A i \in DOMAIN jobs : jobs'[i] \in Job
      BY <1>1, <2>1, <2>3, JobsDomain
    <2>5. jobs' \in Seq(Job)
      BY <1>1, <2>4, JobsReplaced
    <2>6. queue' \in Seq(DOMAIN jobs)
      BY <1>1, <1>2 DEF VerifyGetState, Jobs
    <2>7. Jobs'
      BY <2>4, <2>5, <2>6 DEF Jobs
    <2>8. Ghosts'
      BY <1>1, <1>2 DEF VerifyGetState, Ghosts
    <2>9. QED
      BY <1>2, <2>7, <2>8, Typed, TypedNext DEF VerifyGetState
  <1>3. CASE ReadTwin(j)
    <2>1. twin[jobs[j].uld] \in Stored
      BY <1>1
    <2>2. CASE deployment.remote
      <3>1. [jobs[j] EXCEPT !.copy = twin[jobs[j].uld], !.stage = "fetch"] \in Job
        BY <1>1, <2>1, JobFields DEF JobStages, ActiveStages
      <3>2. Jobs'
        BY <1>1, <1>3, <2>2, <3>1, StepType DEF ReadTwin, Step
      <3>3. QED
        BY <1>3, <3>2, Typed, TypedNext DEF ReadTwin, Ghosts
    <2>3. CASE ~deployment.remote
      <3>1. Jobs'
        BY <1>1, <1>3, <2>1, <2>3, ComparedType DEF ReadTwin
      <3>2. QED
        BY <1>3, <3>1, Typed, TypedNext DEF ReadTwin, Ghosts
    <2>4. QED
      BY <2>2, <2>3
  <1>4. CASE FetchRemote(j)
    <2>1. remote[jobs[j].uld] \in Stored
      BY <1>1
    <2>2. [jobs[j] EXCEPT !.copy = remote[jobs[j].uld], !.stage = "cache"] \in Job
      BY <1>1, <2>1, JobFields DEF JobStages, ActiveStages
    <2>3. Jobs'
      BY <1>1, <1>4, <2>2, StepType DEF FetchRemote, Step
    <2>4. QED
      BY <1>4, <2>3, Typed, TypedNext DEF FetchRemote, Ghosts
  <1>5. CASE FetchFails(j)
    <2>1. Jobs'
      BY <1>1, <1>5, ComparedType DEF FetchFails
    <2>2. Ghosts' /\ requests' = requests /\ failures' \in 0 .. MaxFailures
      BY <1>1, <1>5, Typed, LimitsAssumption DEF FetchFails, Failure, Ghosts
    <2>3. QED
      BY <1>5, <2>1, <2>2, Typed, TypedNext DEF FetchFails
  <1>6. CASE CacheTwin(j)
    <2>1. Jobs'
      BY <1>1, <1>6, ComparedType DEF CacheTwin
    <2>2. QED
      BY <1>1, <1>6, <2>1, Typed, TypedNext DEF CacheTwin, Ghosts
  <1>7. ASSUME NEW stage \in JobStages, GoTo(j, stage)
        PROVE  Jobs'
    BY <1>1, <1>7, StepType, JobFields DEF GoTo, Step
  <1>8. CASE PatchRemote(j)
    <2>1. Jobs'
      BY <1>7, <1>8 DEF PatchRemote, JobStages, ActiveStages
    <2>2. Write(jobs[j].uld, jobs[j].state)
      BY <1>8 DEF PatchRemote
    <2>3. /\ remote' \in [Ulds -> Stored] /\ missed' \subseteq Ulds
          /\ requests' \in 0 .. MaxRequests /\ failures' \in 0 .. MaxFailures
      BY <1>1, <2>2, WriteType, Typed DEF Ghosts
    <2>4. QED
      BY <1>8, <2>1, <2>3, Typed, TypedNext DEF PatchRemote, Ghosts
  <1>9. CASE PatchTwin(j)
    <2>1. Jobs'
      BY <1>7, <1>9 DEF PatchTwin, JobStages, ActiveStages
    <2>2. QED
      BY <1>1, <1>9, <2>1, Typed, TypedNext DEF PatchTwin, Ghosts
  <1>10. CASE RestoreState(j)
    <2>1. /\ DOMAIN jobs' = DOMAIN jobs /\ jobs' = [i \in DOMAIN jobs |-> jobs'[i]]
          /\ \A i \in DOMAIN jobs : jobs'[i] \in Job
      <3>1. [jobs[j] EXCEPT !.stage = "audit"] \in Job
        BY <1>1, JobFields DEF JobStages, ActiveStages
      <3>2. QED
        BY <1>1, <1>10, <3>1, DisturbedJobs DEF RestoreState
    <2>2. Jobs'
      BY <1>1, <1>10, <2>1, JobsReplaced DEF RestoreState, Jobs
    <2>3. QED
      BY <1>1, <1>10, <2>2, Typed, TypedNext DEF RestoreState, Ghosts
  <1>11. CASE LogVerification(j)
    <2>1. Forget(j, "done") \in Job
      BY <1>1, JobFields, NewJobType DEF Forget, JobStages
    <2>2. Jobs'
      BY <1>1, <1>11, <2>1, StepType DEF LogVerification, Step
    <2>3. QED
      BY <1>11, <2>2, Typed, TypedNext DEF LogVerification, Ghosts
  <1>12. CASE FailAttempt(j)
    <2> DEFINE waiting == IF jobs[j].stage = "waiting" THEN Tail(queue) ELSE queue
               attempts == jobs[j].attempts + 1
    <2>1. waiting \in Seq(DOMAIN jobs)
      <3>1. CASE jobs[j].stage = "waiting"
        <4>1. queue # <<>>
          BY <1>12, <3>1 DEF FailAttempt, ActiveStages
        <4>2. QED
          BY <1>1, <3>1, <4>1 DEF Jobs
      <3>2. CASE jobs[j].stage # "waiting"
        BY <1>1, <3>2 DEF Jobs
      <3>3. QED
        BY <3>1, <3>2
    <2>2. PICK stage \in {"waiting", "failed"} :
             /\ jobs' = [jobs EXCEPT ![j] = NewJob(jobs[j].uld, stage, attempts)]
             /\ queue' \in {waiting, Append(waiting, j)}
             /\ doubt' \in {doubt, doubt \cup {jobs[j].uld}}
      BY <1>12 DEF FailAttempt
    <2>3. NewJob(jobs[j].uld, stage, attempts) \in Job
      <3>1. attempts \in Nat /\ stage \in JobStages
        <4>1. jobs[j].attempts \in Nat
          BY <1>1 DEF Job
        <4>2. QED
          BY <2>2, <4>1 DEF JobStages
      <3> HIDE DEF attempts
      <3>2. QED
        BY <1>1, <3>1, NewJobType
    <2> HIDE DEF waiting, attempts
    <2>4. /\ DOMAIN jobs' = DOMAIN jobs /\ jobs' = [i \in DOMAIN jobs |-> jobs'[i]]
          /\ \A i \in DOMAIN jobs : jobs'[i] \in Job
      BY <1>1, <2>2, <2>3, JobsDomain
    <2>5. jobs' \in Seq(Job) /\ queue' \in Seq(DOMAIN jobs)
      <3>1. Append(waiting, j) \in Seq(DOMAIN jobs)
        BY <2>1
      <3>2. QED
        BY <1>1, <2>1, <2>2, <2>4, <3>1, JobsReplaced
    <2>6. Jobs' /\ Ghosts'
      BY <1>1, <1>12, <2>2, <2>4, <2>5 DEF Jobs, Ghosts, FailAttempt
    <2>7. QED
      BY <1>12, <2>6, Typed, TypedNext DEF FailAttempt
  <1>13. QED
    BY <1>2, <1>3, <1>4, <1>5, <1>6, <1>8, <1>9, <1>10, <1>11, <1>12 DEF VerifyStep

LEMMA TypeStep == TypeOK /\ [Next]_vars => TypeOK'
  <1> SUFFICES ASSUME TypeOK, [Next]_vars PROVE TypeOK'
    OBVIOUS
  <1> USE DEF serverVars, redisVars, readingVars, queueVars, counters, ghostVars
  <1>1. /\ Jobs /\ Ghosts
        /\ exposure \in [Ulds -> Stored] /\ twin \in [Ulds -> Stored]
        /\ remote \in [Ulds -> Stored] /\ held \in [Readings -> Stored]
    BY Typed
  <1>2. \A m \in Readings : uldOf(m) \in Ulds /\ Body[m] \in Reading /\ held[m] \in Stored
    BY <1>1, SentAssumption DEF uldOf, Reading
  <1>3. Request => requests' \in 0 .. MaxRequests /\ failures' = failures
    BY Typed, LimitsAssumption DEF Request
  <1>4. Failure => failures' \in 0 .. MaxFailures /\ requests' = requests
    BY Typed, LimitsAssumption DEF Failure
  <1>5. UNCHANGED <<jobs, queue>> => Jobs'
    BY <1>1 DEF Jobs
  <1>6. ASSUME NEW m \in Readings, ReadState(m) PROVE TypeOK'
    <2>1. exposure[uldOf(m)] \in Stored
      BY <1>1, <1>2
    <2>2. /\ computeExposureState(exposure[uldOf(m)].exposure, Body[m]) \in ExposureState
          /\ Temperature[m] \in Int
      BY <1>2, <2>1, ComputedType, SentAssumption
    <2>3. held' \in [Readings -> Stored]
      BY <1>1, <1>6, <2>2 DEF ReadState, Stored
    <2>4. pc' \in [Readings -> ReadingStages \cup {"idle", "ended"}]
      BY <1>6, Typed DEF ReadState, ReadingStages
    <2>5. QED
      BY <1>5, <1>6, <2>3, <2>4, Typed, TypedNext DEF ReadState, Ghosts
  <1>7. ASSUME NEW m \in Readings, SaveState(m) PROVE TypeOK'
    <2>1. Jobs'
      BY <1>1, <1>7, DisturbType DEF SaveState
    <2>2. pc' \in [Readings -> ReadingStages \cup {"idle", "ended"}]
      BY <1>7, Typed DEF SaveState, ReadingStages
    <2>3. QED
      BY <1>1, <1>2, <1>7, <2>1, <2>2, Typed, TypedNext DEF SaveState, Ghosts
  <1>8. ASSUME NEW m \in Readings, UpsertTwin(m) PROVE TypeOK'
    <2>1. Write(uldOf(m), held[m])
      BY <1>8 DEF UpsertTwin
    <2>2. /\ remote' \in [Ulds -> Stored] /\ missed' \subseteq Ulds
          /\ requests' \in 0 .. MaxRequests /\ failures' \in 0 .. MaxFailures
      BY <1>1, <1>2, <2>1, WriteType, Typed DEF Ghosts
    <2>3. pc' \in [Readings -> ReadingStages \cup {"idle", "ended"}]
      BY <1>8, Typed DEF UpsertTwin, ReadingStages
    <2>4. QED
      BY <1>5, <1>8, <2>2, <2>3, Typed, TypedNext DEF UpsertTwin, Ghosts
  <1>9. ASSUME NEW m \in Readings, SetTwin(m) PROVE TypeOK'
    <2>1. pc' \in [Readings -> ReadingStages \cup {"idle", "ended"}]
      BY <1>9, Typed DEF SetTwin, ReadingStages
    <2>2. held' \in [Readings -> Stored] /\ twin' \in [Ulds -> Stored]
      BY <1>1, <1>2, <1>9, AbsentType DEF SetTwin
    <2>3. QED
      BY <1>5, <1>9, <2>1, <2>2, Typed, TypedNext DEF SetTwin, Ghosts
  <1>10. ASSUME NEW m \in Readings, EnqueueVerification(m) PROVE TypeOK'
    <2>1. Jobs' /\ doubt' \subseteq Ulds
      BY <1>1, <1>2, <1>10, EnqueueType DEF EnqueueVerification
    <2>2. pc' \in [Readings -> ReadingStages \cup {"idle", "ended"}]
      BY <1>10, Typed DEF EnqueueVerification, ReadingStages
    <2>3. QED
      BY <1>10, <2>1, <2>2, Typed, TypedNext DEF EnqueueVerification, Ghosts
  <1>11. ASSUME NEW m \in Readings, RejectReading(m) PROVE TypeOK'
    <2>1. pc' \in [Readings -> ReadingStages \cup {"idle", "ended"}]
      BY <1>11, Typed DEF RejectReading
    <2>2. doubt' \subseteq Ulds
      BY <1>1, <1>2, <1>11 DEF RejectReading, Ghosts
    <2>3. QED
      BY <1>4, <1>5, <1>11, <2>1, <2>2, Typed, TypedNext DEF RejectReading, Ghosts
  <1>12. ASSUME NEW u \in Ulds, ReadStatus(u) PROVE TypeOK'
    <2>1. Jobs' /\ doubt' \subseteq Ulds
      BY <1>1, <1>12, EnqueueType DEF ReadStatus
    <2>2. QED
      BY <1>3, <1>12, <2>1, Typed, TypedNext DEF ReadStatus, Ghosts
  <1>13. ASSUME NEW u \in Ulds, Reset(u) PROVE TypeOK'
    <2>1. exposure' \in [Ulds -> Stored] /\ cleared' \subseteq Ulds
      BY <1>1, <1>13, AbsentType DEF Reset, Ghosts
    <2>2. QED
      BY <1>3, <1>5, <1>13, <2>1, Typed, TypedNext DEF Reset, Ghosts
  <1>14. ASSUME NEW u \in Ulds, FetchAnswer(u) PROVE TypeOK'
    <2>1. [uld |-> u, copy |-> remote[u]] \in [uld : Ulds, copy : Stored]
      BY <1>1
    <2>2. answers' \subseteq [uld : Ulds, copy : Stored]
      BY <1>14, <2>1, Typed DEF FetchAnswer
    <2>3. QED
      BY <1>3, <1>5, <1>14, <2>2, Typed, TypedNext DEF FetchAnswer, Ghosts
  <1>15. ASSUME NEW u \in Ulds, UpdateRemote(u) PROVE TypeOK'
    <2>1. remote' \in [Ulds -> Stored] /\ missed' \subseteq Ulds
      BY <1>1, <1>15, AbsentType DEF UpdateRemote, Ghosts
    <2>2. QED
      BY <1>3, <1>5, <1>15, <2>1, Typed, TypedNext DEF UpdateRemote, Ghosts
  <1>16. ASSUME NEW a \in answers, CacheAnswer(a) PROVE TypeOK'
    <2>1. a.uld \in Ulds /\ a.copy \in Stored
      BY Typed
    <2>2. twin' \in [Ulds -> Stored] /\ doubt' \subseteq Ulds
      BY <1>1, <1>16, <2>1 DEF CacheAnswer, Ghosts
    <2>3. QED
      BY <1>5, <1>16, <2>2, Typed, TypedNext DEF CacheAnswer, Ghosts
  <1>17. ASSUME NEW j \in DOMAIN jobs, VerifyStep(j) PROVE TypeOK'
    BY <1>17, VerifyType
  <1>18. CASE Disconnect
    BY <1>4, <1>5, <1>18, Typed, TypedNext DEF Disconnect, Ghosts
  <1>19. CASE Crash
    <2>1. Jobs' /\ exposure' \in [Ulds -> Stored] /\ twin' \in [Ulds -> Stored]
      BY <1>1, <1>19, RestartType DEF Crash
    <2>2. doubt' \subseteq Ulds
      <3>1. \A j \in DOMAIN jobs : jobs[j].uld \in Ulds
        BY <1>1, JobsDomain, JobFields
      <3>2. \A i \in DOMAIN queue : queue[i] \in DOMAIN jobs
        BY <1>1 DEF Jobs
      <3>3. Unfinished \subseteq Ulds
        BY <3>1, <3>2 DEF Unfinished
      <3>4. QED
        BY <1>1, <1>19, <3>3 DEF Crash, Ghosts
    <2>3. held' \in [Readings -> Stored]
      BY <1>19, AbsentType DEF Crash
    <2>4. pc' \in [Readings -> ReadingStages \cup {"idle", "ended"}]
      BY <1>19, Typed DEF Crash
    <2>5. requests' \in 0 .. MaxRequests /\ failures' \in 0 .. MaxFailures
      BY <1>4, <1>19, Typed DEF Crash
    <2>6. QED
      BY <1>19, <2>1, <2>2, <2>3, <2>4, <2>5, Typed, TypedNext DEF Crash, Ghosts
  <1>20. CASE UNCHANGED vars
    BY <1>5, <1>20, Typed, TypedNext DEF vars, Ghosts
  <1>21. QED
    BY <1>6, <1>7, <1>8, <1>9, <1>10, <1>11, <1>12, <1>13, <1>14, <1>15, <1>16, <1>17,
       <1>18, <1>19, <1>20
    DEF Next, ReadingStep

\* Every variable has its type, in every reachable state.
THEOREM ReconciliationTypeCorrect == Spec => []TypeOK
  BY TypeInit, TypeStep, PTL DEF Spec

-----------------------------------------------------------------------------
(***************************************************************************)
(* Convergence.  A ULD that is not in doubt has at most one verification   *)
(* under way.  Once no reading of it is under way and no job of it waits,  *)
(* that verification is on its way to bring state, twin and remote copy    *)
(* together, each stage having established its part, or they already are.  *)
(***************************************************************************)
Queued(u) == \E i \in DOMAIN queue : jobs[queue[i]].uld = u

\* Another verification of u will follow.
Expected(u) == InFlight(u) # {} \/ Queued(u)

Converged(u) == exposure[u] = Absent \/ ~Drift(exposure[u], twin[u])
Agreed(u) == exposure[u] = Absent \/ remote[u] = buildOperationalStateNode(twin[u])

\* What a verification knows of state and twin,
OnTrack(j) ==
    LET job == jobs[j]
        u == job.uld
    IN  /\ job.stage # "audit" => exposure[u] \in {job.state, Absent}
        /\ job.stage \in {"fetch", "restore"} => job.copy = twin[u]
        /\ job.stage = "audit" => Converged(u)

\* and of the remote copy.
InSync(j) ==
    LET job == jobs[j]
        u == job.uld
    IN  /\ job.stage = "cache" => job.copy = remote[u]
        /\ job.stage = "set" => remote[u] = buildOperationalStateNode(job.state)
        /\ job.stage \in {"restore", "audit"} => remote[u] = buildOperationalStateNode(twin[u])

Settled(u) ==
    u \notin doubt =>
        /\ \A i, j \in Active(u) : i = j
        /\ ~Expected(u) =>
              /\ Active(u) = {} => Converged(u)
              /\ \A j \in Active(u) : OnTrack(j)
              /\ deployment.remote /\ u \notin missed =>
                    /\ Active(u) = {} => Agreed(u)
                    /\ \A j \in Active(u) : InSync(j)

\* A job that waits is in the queue; a restored state was not found.
JobsInv ==
    \A j \in DOMAIN jobs :
        /\ jobs[j].stage = "waiting" => \E i \in DOMAIN queue : queue[i] = j
        /\ jobs[j].stage = "restore" => jobs[j].state = Absent

RemoteInv == \A u \in Ulds : ~remote[u].exposure.breached

SettleInv == JobsInv /\ RemoteInv /\ \A u \in Ulds : Settled(u)

\* The verifications of u that are under way stay as they are.
JobsKept(u) ==
    /\ Active(u)' = Active(u)
    /\ \A j \in Active(u) :
          /\ jobs'[j].uld = jobs[j].uld /\ jobs'[j].stage = jobs[j].stage
          /\ jobs'[j].state = jobs[j].state /\ jobs'[j].copy = jobs[j].copy

LEMMA JobsUnchanged ==
    ASSUME UNCHANGED jobs, NEW u PROVE JobsKept(u)
  BY DEF JobsKept, Active

\* A step that does not touch what is compared leaves a ULD settled.
LEMMA SettledStays ==
    ASSUME NEW u \in Ulds, Settled(u), UNCHANGED deployment, JobsKept(u),
           Expected(u) => Expected(u)',
           exposure'[u] \in {exposure[u], Absent}, twin'[u] = twin[u],
           remote'[u] = remote[u] \/ u \in missed',
           u \in doubt => u \in doubt', u \in missed => u \in missed'
    PROVE  Settled(u)'
  <1> SUFFICES ASSUME u \notin doubt' PROVE Settled(u)'
    BY DEF Settled
  <1>1. Converged(u) => Converged(u)'
    BY DEF Converged
  <1>2. Agreed(u) /\ u \notin missed' => Agreed(u)'
    BY DEF Agreed
  <1>3. \A j \in Active(u) : OnTrack(j) => OnTrack(j)'
    BY <1>1 DEF JobsKept, OnTrack, Active
  <1>4. \A j \in Active(u) : InSync(j) /\ u \notin missed' => InSync(j)'
    BY DEF JobsKept, InSync, Active
  <1>5. QED
    BY <1>1, <1>2, <1>3, <1>4 DEF Settled, JobsKept

\* So does one after which another verification will follow.
LEMMA ExpectedSettles ==
    ASSUME NEW u \in Ulds, Settled(u), Active(u)' \subseteq Active(u),
           u \in doubt => u \in doubt', Expected(u)'
    PROVE  Settled(u)'
  BY DEF Settled

\* The job j that is under way goes on, and no other job is touched.
JobMoves(j) ==
    /\ jobs[j].stage \in ActiveStages
    /\ DOMAIN jobs' = DOMAIN jobs
    /\ jobs'[j].uld = jobs[j].uld
    /\ \A i \in DOMAIN jobs \ {j} :
          /\ jobs'[i].uld = jobs[i].uld /\ jobs'[i].stage = jobs[i].stage
          /\ jobs'[i].state = jobs[i].state /\ jobs'[i].copy = jobs[i].copy

LEMMA MovedJobs ==
    ASSUME Jobs, NEW j \in DOMAIN jobs, JobMoves(j), UNCHANGED <<pc, queue>>
    PROVE  /\ \A u : Expected(u) => Expected(u)'
           /\ \A u : Expected(u)' => Expected(u)
           /\ \A u : u # jobs[j].uld => JobsKept(u)
           /\ j \in Active(jobs[j].uld)
           /\ Active(jobs[j].uld)' =
                  IF jobs'[j].stage \in ActiveStages THEN Active(jobs[j].uld)
                  ELSE Active(jobs[j].uld) \ {j}
  <1>1. \A i \in DOMAIN jobs : jobs'[i].uld = jobs[i].uld
    BY DEF JobMoves
  <1>2. \A i \in DOMAIN queue : queue[i] \in DOMAIN jobs
    BY DEF Jobs
  <1>3. \A u : InFlight(u)' = InFlight(u) /\ (Queued(u)' <=> Queued(u))
    BY <1>1, <1>2 DEF InFlight, Queued
  <1>4. QED
    BY <1>1, <1>3 DEF JobMoves, JobsKept, Active, Expected

\* If it keeps its promises, the ULD stays settled.
LEMMA MoveSettles ==
    ASSUME Jobs, NEW j \in DOMAIN jobs, JobMoves(j), UNCHANGED <<pc, queue, deployment>>,
           NEW u \in Ulds, u = jobs[j].uld, Settled(u),
           u \in doubt => u \in doubt', u \in missed => u \in missed',
           OnTrack(j) =>
               IF jobs'[j].stage \in ActiveStages THEN OnTrack(j)' ELSE Converged(u)',
           deployment.remote /\ u \notin missed' /\ InSync(j) =>
               IF jobs'[j].stage \in ActiveStages THEN InSync(j)' ELSE Agreed(u)'
    PROVE  Settled(u)'
  <1> SUFFICES ASSUME u \notin doubt' PROVE Settled(u)'
    BY DEF Settled
  <1>1. j \in Active(u) /\ \A i \in Active(u) : i = j
    BY MovedJobs DEF Settled
  <1>2. Active(u)' = IF jobs'[j].stage \in ActiveStages THEN {j} ELSE {}
    BY <1>1, MovedJobs DEF JobMoves
  <1>3. Expected(u) => Expected(u)'
    BY MovedJobs
  <1>4. u \notin doubt
    OBVIOUS
  <1>5. ASSUME ~Expected(u)'
        PROVE  /\ Active(u)' = {} => Converged(u)'
               /\ \A i \in Active(u)' : OnTrack(i)'
    <2>1. OnTrack(j)
      BY <1>1, <1>3, <1>4, <1>5 DEF Settled
    <2>2. QED
      BY <1>2, <2>1
  <1>6. ASSUME ~Expected(u)', (deployment.remote)', u \notin missed'
        PROVE  /\ Active(u)' = {} => Agreed(u)'
               /\ \A i \in Active(u)' : InSync(i)'
    <2>1. InSync(j)
      BY <1>1, <1>3, <1>4, <1>6 DEF Settled
    <2>2. QED
      BY <1>2, <1>6, <2>1
  <1>7. \A i, k \in Active(u)' : i = k
    BY <1>2
  <1>8. QED
    BY <1>5, <1>6, <1>7 DEF Settled

LEMMA OthersSettle ==
    ASSUME Jobs, NEW j \in DOMAIN jobs, JobMoves(j), UNCHANGED <<pc, queue, deployment>>,
           NEW u \in Ulds, u # jobs[j].uld, Settled(u),
           exposure'[u] = exposure[u], twin'[u] = twin[u], remote'[u] = remote[u],
           u \in doubt => u \in doubt', u \in missed => u \in missed'
    PROVE  Settled(u)'
  BY MovedJobs, SettledStays

\* What is in a sequence is in what an appended element makes of it,
LEMMA AppendKeeps ==
    ASSUME NEW S, NEW s \in Seq(S), NEW x \in S, NEW t, t = Append(s, x)
    PROVE  /\ \A i \in DOMAIN s : \E k \in DOMAIN t : t[k] = s[i]
           /\ \E k \in DOMAIN t : t[k] = x
  <1>1. /\ DOMAIN s = 1 .. Len(s) /\ Len(s) \in Nat
        /\ Len(t) = Len(s) + 1 /\ t \in Seq(S)
    OBVIOUS
  <1>2. DOMAIN t = 1 .. Len(s) + 1
    BY <1>1
  <1>3. \A i \in DOMAIN s : i \in DOMAIN t /\ t[i] = s[i]
    BY <1>1, <1>2
  <1>4. t[Len(s) + 1] = x /\ Len(s) + 1 \in DOMAIN t
    BY <1>1, <1>2
  <1>5. QED
    BY <1>3, <1>4

\* and, but for its first element, in what is left without that.
LEMMA TailKeeps ==
    ASSUME NEW S, NEW s \in Seq(S), s # <<>>, NEW i \in DOMAIN s, s[i] # Head(s)
    PROVE  \E k \in DOMAIN Tail(s) : Tail(s)[k] = s[i]
  <1>1. /\ DOMAIN s = 1 .. Len(s) /\ Len(s) \in Nat
    OBVIOUS
  <1>2. i - 1 \in 1 .. Len(s) - 1
    BY <1>1
  <1>3. Tail(s)[i - 1] = s[(i - 1) + 1] /\ DOMAIN Tail(s) = 1 .. Len(s) - 1
    BY <1>1, <1>2
  <1>4. (i - 1) + 1 = i
    BY <1>1
  <1>5. QED
    BY <1>2, <1>3, <1>4

\* The comparison: where it leads, given that it sees the twin.
LEMMA ComparedOnTrack ==
    ASSUME TypeOK, NEW j \in DOMAIN jobs, NEW copy \in Stored, NEW u \in Ulds,
           u = jobs[j].uld, Compare(j, copy), jobs[j].stage \in ActiveStages \ {"audit"},
           OnTrack(j), copy = twin'[u], UNCHANGED exposure
    PROVE  OnTrack(j)'
  <1> DEFINE stage == Repair(jobs[j].state, copy)
  <1>1. jobs[j] \in Job /\ jobs' = [jobs EXCEPT ![j] = [jobs[j] EXCEPT !.copy = copy,
                                                                     !.stage = stage]]
    BY Typed, JobsDomain DEF Compare, Step
  <1>2. /\ jobs'[j].uld = u /\ jobs'[j].state = jobs[j].state
        /\ jobs'[j].copy = copy /\ jobs'[j].stage = stage
    BY <1>1 DEF Job
  <1>3. exposure[u] \in {jobs[j].state, Absent}
    BY DEF OnTrack
  <1>4. stage \in {"audit", "restore", "patch"}
    BY RepairStage
  <1>5. stage = "audit" => ~Drift(jobs[j].state, copy)
    BY DEF Repair
  <1> HIDE DEF stage
  <1>6. stage = "audit" => Converged(u)'
    BY <1>3, <1>5 DEF Converged
  <1>7. QED
    BY <1>2, <1>3, <1>4, <1>6 DEF OnTrack

LEMMA ComparedMoves ==
    ASSUME TypeOK, NEW j \in DOMAIN jobs, NEW copy \in Stored, Compare(j, copy),
           jobs[j].stage \in ActiveStages
    PROVE  /\ JobMoves(j) /\ queue' = queue
           /\ jobs'[j].stage \in {"audit", "restore", "patch"}
           /\ jobs'[j].stage = "restore" => jobs'[j].state = Absent
  <1> DEFINE stage == Repair(jobs[j].state, copy)
  <1>1. jobs[j] \in Job /\ jobs' = [jobs EXCEPT ![j] = [jobs[j] EXCEPT !.copy = copy,
                                                                     !.stage = stage]]
    BY Typed, JobsDomain DEF Compare, Step
  <1>2. /\ jobs'[j].uld = jobs[j].uld /\ jobs'[j].state = jobs[j].state
        /\ jobs'[j].stage = stage
    BY <1>1 DEF Job
  <1>3. stage \in {"audit", "restore", "patch"} /\ (stage = "restore" => jobs[j].state = Absent)
    BY RepairStage DEF Repair
  <1> HIDE DEF stage
  <1>4. QED
    BY <1>1, <1>2, <1>3 DEF JobMoves, Compare, Step

\* A job that goes on and keeps its promises leaves everything settled.
LEMMA MoveSettlesAll ==
    ASSUME TypeOK, SettleInv, NEW j \in DOMAIN jobs, JobMoves(j),
           UNCHANGED <<pc, queue, deployment, doubt>>, missed \subseteq missed',
           NEW u \in Ulds, u = jobs[j].uld,
           \A v \in Ulds \ {u} : /\ exposure'[v] = exposure[v] /\ twin'[v] = twin[v]
                                 /\ remote'[v] = remote[v],
           RemoteInv',
           jobs'[j].stage # "waiting",
           jobs'[j].stage = "restore" => jobs'[j].state = Absent,
           OnTrack(j) =>
               IF jobs'[j].stage \in ActiveStages THEN OnTrack(j)' ELSE Converged(u)',
           deployment.remote /\ u \notin missed' /\ InSync(j) =>
               IF jobs'[j].stage \in ActiveStages THEN InSync(j)' ELSE Agreed(u)'
    PROVE  SettleInv'
  <1>1. Jobs
    BY Typed
  <1>2. ASSUME NEW v \in Ulds PROVE Settled(v)'
    <2>1. Settled(v)
      BY DEF SettleInv
    <2>2. CASE v = u
      BY <1>1, <2>1, <2>2, MoveSettles
    <2>3. CASE v # u
      BY <1>1, <2>1, <2>3, OthersSettle
    <2>4. QED
      BY <2>2, <2>3
  <1>3. JobsInv'
    BY DEF SettleInv, JobsInv, JobMoves
  <1>4. QED
    BY <1>2, <1>3 DEF SettleInv

LEMMA BareNode ==
    ASSUME TypeOK, RemoteInv, NEW u \in Ulds
    PROVE  buildOperationalStateNode(remote[u]) = remote[u]
  <1>1. remote[u] \in Stored
    BY Typed
  <1>2. QED
    BY <1>1, StoredType DEF RemoteInv

\* What a job becomes when it only changes its stage.
LEMMA GoesTo ==
    ASSUME TypeOK, NEW j \in DOMAIN jobs, NEW stage, GoTo(j, stage),
           jobs[j].stage \in ActiveStages
    PROVE  /\ JobMoves(j) /\ queue' = queue
           /\ jobs'[j].uld = jobs[j].uld /\ jobs'[j].stage = stage
           /\ jobs'[j].state = jobs[j].state /\ jobs'[j].copy = jobs[j].copy
  <1>1. jobs[j] \in Job /\ jobs' = [jobs EXCEPT ![j] = [jobs[j] EXCEPT !.stage = stage]]
    BY Typed, JobsDomain DEF GoTo, Step
  <1>2. /\ jobs'[j].uld = jobs[j].uld /\ jobs'[j].stage = stage
        /\ jobs'[j].state = jobs[j].state /\ jobs'[j].copy = jobs[j].copy
    BY <1>1 DEF Job
  <1>3. QED
    BY <1>1, <1>2 DEF JobMoves, GoTo, Step

LEMMA ReadTwinSettles ==
    ASSUME TypeOK, SettleInv, NEW j \in DOMAIN jobs, ReadTwin(j)
    PROVE  SettleInv'
  <1> USE DEF serverVars, redisVars, readingVars, counters, ghostVars
  <1>1. PICK u \in Ulds : u = jobs[j].uld
    BY Typed, JobsDomain, JobFields
  <1>2. /\ UNCHANGED <<pc, deployment, doubt, missed, exposure, twin, remote>>
        /\ jobs[j].stage = "read" /\ jobs[j] \in Job /\ twin[u] \in Stored
    BY <1>1, Typed, JobsDomain DEF ReadTwin, At
  <1>3. RemoteInv'
    BY <1>2 DEF SettleInv, RemoteInv
  <1>4. CASE deployment.remote
    <2>1. jobs' = [jobs EXCEPT ![j] = [jobs[j] EXCEPT !.copy = twin[u], !.stage = "fetch"]]
          /\ queue' = queue
      BY <1>1, <1>4 DEF ReadTwin, Step
    <2>2. /\ jobs'[j].uld = jobs[j].uld /\ jobs'[j].stage = "fetch"
          /\ jobs'[j].state = jobs[j].state /\ jobs'[j].copy = twin[u]
      BY <1>2, <2>1 DEF Job
    <2>3. JobMoves(j)
      BY <1>2, <2>1, <2>2 DEF JobMoves, ActiveStages
    <2>4. OnTrack(j) => OnTrack(j)'
      BY <1>1, <1>2, <2>2 DEF OnTrack
    <2>5. InSync(j)'
      BY <2>2 DEF InSync
    <2>6. QED
      BY <1>1, <1>2, <1>3, <2>1, <2>2, <2>3, <2>4, <2>5, MoveSettlesAll DEF ActiveStages
  <1>5. CASE ~deployment.remote
    <2>1. Compare(j, twin[u])
      BY <1>1, <1>5 DEF ReadTwin
    <2>2. /\ JobMoves(j) /\ queue' = queue
          /\ jobs'[j].stage \in {"audit", "restore", "patch"}
          /\ jobs'[j].stage = "restore" => jobs'[j].state = Absent
      BY <1>2, <2>1, ComparedMoves DEF ActiveStages
    <2>3. OnTrack(j) => OnTrack(j)'
      BY <1>1, <1>2, <2>1, ComparedOnTrack DEF ActiveStages
    <2>4. QED
      BY <1>1, <1>2, <1>3, <1>5, <2>2, <2>3, MoveSettlesAll DEF ActiveStages
  <1>6. QED
    BY <1>4, <1>5

LEMMA FetchSettles ==
    ASSUME TypeOK, SettleInv, NEW j \in DOMAIN jobs, FetchRemote(j) \/ FetchFails(j)
    PROVE  SettleInv'
  <1> USE DEF serverVars, redisVars, readingVars, counters, ghostVars
  <1>1. PICK u \in Ulds : u = jobs[j].uld
    BY Typed, JobsDomain, JobFields
  <1>2. /\ UNCHANGED <<pc, deployment, doubt, exposure, twin, remote>>
        /\ jobs[j].stage = "fetch" /\ jobs[j] \in Job /\ jobs[j].copy \in Stored
    BY <1>1, Typed, JobsDomain, JobFields DEF FetchRemote, FetchFails, At
  <1>3. RemoteInv'
    BY <1>2 DEF SettleInv, RemoteInv
  <1>4. CASE FetchRemote(j)
    <2>1. /\ jobs' = [jobs EXCEPT ![j] = [jobs[j] EXCEPT !.copy = remote[u],
                                                       !.stage = "cache"]]
          /\ queue' = queue /\ missed' = missed
      BY <1>1, <1>4 DEF FetchRemote, Step
    <2>2. /\ jobs'[j].uld = jobs[j].uld /\ jobs'[j].stage = "cache"
          /\ jobs'[j].state = jobs[j].state /\ jobs'[j].copy = remote[u]
      BY <1>2, <2>1 DEF Job
    <2>3. JobMoves(j)
      BY <1>2, <2>1, <2>2 DEF JobMoves, ActiveStages
    <2>4. OnTrack(j) => OnTrack(j)'
      BY <1>1, <1>2, <2>2 DEF OnTrack
    <2>5. InSync(j)'
      BY <1>1, <1>2, <2>2 DEF InSync
    <2>6. QED
      BY <1>1, <1>2, <1>3, <2>1, <2>2, <2>3, <2>4, <2>5, MoveSettlesAll DEF ActiveStages
  <1>5. CASE FetchFails(j)
    <2>1. Compare(j, jobs[j].copy) /\ missed' = missed \cup {u}
      BY <1>1, <1>5 DEF FetchFails
    <2>2. /\ JobMoves(j) /\ queue' = queue
          /\ jobs'[j].stage \in {"audit", "restore", "patch"}
          /\ jobs'[j].stage = "restore" => jobs'[j].state = Absent
      BY <1>2, <2>1, ComparedMoves DEF ActiveStages
    <2>3. OnTrack(j) => OnTrack(j)'
      <3>1. OnTrack(j) => jobs[j].copy = twin'[u]
        BY <1>1, <1>2 DEF OnTrack
      <3>2. QED
        BY <1>1, <1>2, <2>1, <3>1, ComparedOnTrack DEF ActiveStages
    <2>4. QED
      BY <1>1, <1>2, <1>3, <2>1, <2>2, <2>3, MoveSettlesAll DEF ActiveStages
  <1>6. QED
    BY <1>4, <1>5

LEMMA CacheSettles ==
    ASSUME TypeOK, SettleInv, NEW j \in DOMAIN jobs, CacheTwin(j)
    PROVE  SettleInv'
  <1> USE DEF serverVars, redisVars, readingVars, counters, ghostVars
  <1>1. PICK u \in Ulds : u = jobs[j].uld
    BY Typed, JobsDomain, JobFields
  <1>2. /\ UNCHANGED <<pc, deployment, doubt, missed, exposure, remote>>
        /\ twin' = [twin EXCEPT ![u] = jobs[j].copy] /\ twin \in [Ulds -> Stored]
        /\ jobs[j].stage = "cache" /\ jobs[j] \in Job /\ jobs[j].copy \in Stored
        /\ Compare(j, jobs[j].copy)
    BY <1>1, Typed, JobsDomain, JobFields DEF CacheTwin, At
  <1>3. RemoteInv'
    BY <1>2 DEF SettleInv, RemoteInv
  <1>4. /\ JobMoves(j) /\ queue' = queue
        /\ jobs'[j].stage \in {"audit", "restore", "patch"}
        /\ jobs'[j].stage = "restore" => jobs'[j].state = Absent
    BY <1>2, ComparedMoves DEF ActiveStages
  <1>5. OnTrack(j) => OnTrack(j)'
    BY <1>1, <1>2, ComparedOnTrack DEF ActiveStages
  <1>6. InSync(j) => InSync(j)'
    <2>1. InSync(j) => jobs[j].copy = remote[u]
      BY <1>1, <1>2 DEF InSync
    <2>2. buildOperationalStateNode(remote[u]) = remote[u]
      BY BareNode DEF SettleInv
    <2>3. jobs'[j].uld = u
      BY <1>1, <1>4 DEF JobMoves
    <2>4. QED
      BY <1>2, <1>4, <2>1, <2>2, <2>3 DEF InSync
  <1>7. \A v \in Ulds \ {u} : twin'[v] = twin[v]
    BY <1>2
  <1>8. QED
    BY <1>1, <1>2, <1>3, <1>4, <1>5, <1>6, <1>7, MoveSettlesAll DEF ActiveStages

LEMMA PatchRemoteSettles ==
    ASSUME TypeOK, SettleInv, NEW j \in DOMAIN jobs, PatchRemote(j)
    PROVE  SettleInv'
  <1> USE DEF serverVars, redisVars, readingVars, counters, ghostVars
  <1>1. PICK u \in Ulds : u = jobs[j].uld
    BY Typed, JobsDomain, JobFields
  <1> DEFINE node == buildOperationalStateNode(jobs[j].state)
  <1>2. /\ UNCHANGED <<pc, deployment, doubt, exposure, twin>>
        /\ remote \in [Ulds -> Stored]
        /\ jobs[j].stage = "patch" /\ ~node.exposure.breached
        /\ GoTo(j, "set") /\ Write(u, jobs[j].state)
    BY <1>1, Typed, JobsDomain, JobFields, StoredType DEF PatchRemote, At
  <1>3. /\ JobMoves(j) /\ queue' = queue
        /\ jobs'[j].uld = jobs[j].uld /\ jobs'[j].stage = "set"
        /\ jobs'[j].state = jobs[j].state /\ jobs'[j].copy = jobs[j].copy
    BY <1>2, GoesTo DEF ActiveStages
  <1> HIDE DEF node
  <1>4. /\ remote' = remote \/ remote' = [remote EXCEPT ![u] = node]
        /\ missed \subseteq missed'
        /\ deployment.remote /\ u \notin missed' => remote'[u] = node
    BY <1>2 DEF Write, node
  <1>5. RemoteInv' /\ \A v \in Ulds \ {u} : remote'[v] = remote[v]
    BY <1>2, <1>4 DEF SettleInv, RemoteInv
  <1>6. OnTrack(j) => OnTrack(j)'
    BY <1>1, <1>2, <1>3 DEF OnTrack
  <1>7. deployment.remote /\ u \notin missed' => InSync(j)'
    BY <1>1, <1>3, <1>4 DEF InSync, node
  <1>8. QED
    BY <1>1, <1>2, <1>3, <1>4, <1>5, <1>6, <1>7, MoveSettlesAll DEF ActiveStages

LEMMA PatchTwinSettles ==
    ASSUME TypeOK, SettleInv, NEW j \in DOMAIN jobs, PatchTwin(j)
    PROVE  SettleInv'
  <1> USE DEF serverVars, redisVars, readingVars, counters, ghostVars
  <1>1. PICK u \in Ulds : u = jobs[j].uld
    BY Typed, JobsDomain, JobFields
  <1>2. /\ UNCHANGED <<pc, deployment, doubt, missed, exposure, remote>>
        /\ twin' = [twin EXCEPT ![u] = jobs[j].state] /\ twin \in [Ulds -> Stored]
        /\ jobs[j].stage = "set" /\ jobs[j].state \in Stored
        /\ GoTo(j, "audit")
    BY <1>1, Typed, JobsDomain, JobFields DEF PatchTwin, At
  <1>3. /\ JobMoves(j) /\ queue' = queue
        /\ jobs'[j].uld = jobs[j].uld /\ jobs'[j].stage = "audit"
        /\ jobs'[j].state = jobs[j].state /\ jobs'[j].copy = jobs[j].copy
    BY <1>2, GoesTo DEF ActiveStages
  <1>4. twin'[u] = jobs[j].state /\ \A v \in Ulds \ {u} : twin'[v] = twin[v]
    BY <1>2
  <1>5. RemoteInv'
    BY <1>2 DEF SettleInv, RemoteInv
  <1>6. OnTrack(j) => OnTrack(j)'
    <2>1. ~Drift(jobs[j].state, jobs[j].state)
      BY <1>2, NoDrift
    <2>2. OnTrack(j) => Converged(u)'
      BY <1>1, <1>2, <1>4, <2>1 DEF OnTrack, Converged
    <2>3. QED
      BY <1>1, <1>3, <2>2 DEF OnTrack
  <1>7. InSync(j) => InSync(j)'
    BY <1>1, <1>2, <1>3, <1>4 DEF InSync
  <1>8. QED
    BY <1>1, <1>2, <1>3, <1>4, <1>5, <1>6, <1>7, MoveSettlesAll DEF ActiveStages

LEMMA RestoredJob ==
    ASSUME TypeOK, NEW j \in DOMAIN jobs, RestoreState(j)
    PROVE  /\ JobMoves(j) /\ UNCHANGED queue
           /\ jobs'[j].uld = jobs[j].uld /\ jobs'[j].stage = "audit"
           /\ jobs'[j].state = jobs[j].state /\ jobs'[j].copy = jobs[j].copy
  <1>1. Jobs /\ jobs[j] \in Job
    BY Typed, JobsDomain
  <1>2. /\ jobs[j].stage = "restore" /\ queue' = queue
        /\ jobs' = [Disturb(jobs[j].uld) EXCEPT ![j] = [jobs[j] EXCEPT !.stage = "audit"]]
    BY DEF RestoreState, At
  <1>3. /\ DOMAIN jobs' = DOMAIN jobs /\ jobs'[j] = [jobs[j] EXCEPT !.stage = "audit"]
        /\ \A i \in DOMAIN jobs \ {j} :
              /\ jobs'[i].uld = jobs[i].uld /\ jobs'[i].stage = jobs[i].stage
              /\ jobs'[i].state = jobs[i].state /\ jobs'[i].copy = jobs[i].copy
    BY <1>1, <1>2, DisturbedJobs
  <1>4. /\ jobs'[j].uld = jobs[j].uld /\ jobs'[j].stage = "audit"
        /\ jobs'[j].state = jobs[j].state /\ jobs'[j].copy = jobs[j].copy
    BY <1>1, <1>3 DEF Job
  <1>5. QED
    BY <1>2, <1>3, <1>4 DEF JobMoves, ActiveStages

LEMMA RestoreSettles ==
    ASSUME TypeOK, SettleInv, NEW j \in DOMAIN jobs, RestoreState(j)
    PROVE  SettleInv'
  <1> USE DEF serverVars, redisVars, readingVars, counters, ghostVars
  <1>1. PICK u \in Ulds : u = jobs[j].uld
    BY Typed, JobsDomain, JobFields
  <1>2. /\ UNCHANGED <<pc, deployment, doubt, missed, twin, remote>>
        /\ exposure' = [exposure EXCEPT ![u] = jobs[j].copy]
        /\ exposure \in [Ulds -> Stored]
        /\ jobs[j].stage = "restore" /\ jobs[j].copy \in Stored
    BY <1>1, Typed, JobsDomain, JobFields DEF RestoreState, At
  <1>3. /\ JobMoves(j) /\ queue' = queue
        /\ jobs'[j].uld = jobs[j].uld /\ jobs'[j].stage = "audit"
    BY RestoredJob
  <1>4. exposure'[u] = jobs[j].copy /\ \A v \in Ulds \ {u} : exposure'[v] = exposure[v]
    BY <1>2
  <1>5. RemoteInv'
    BY <1>2 DEF SettleInv, RemoteInv
  <1>6. OnTrack(j) => OnTrack(j)'
    <2>1. ~Drift(jobs[j].copy, jobs[j].copy)
      BY <1>2, NoDrift
    <2>2. OnTrack(j) => Converged(u)'
      BY <1>1, <1>2, <1>4, <2>1 DEF OnTrack, Converged
    <2>3. QED
      BY <1>1, <1>3, <2>2 DEF OnTrack
  <1>7. InSync(j) => InSync(j)'
    BY <1>1, <1>2, <1>3 DEF InSync
  <1>8. QED
    BY <1>1, <1>2, <1>3, <1>4, <1>5, <1>6, <1>7, MoveSettlesAll DEF ActiveStages

LEMMA LogSettles ==
    ASSUME TypeOK, SettleInv, NEW j \in DOMAIN jobs, LogVerification(j)
    PROVE  SettleInv'
  <1> USE DEF serverVars, redisVars, readingVars, counters, ghostVars
  <1>1. PICK u \in Ulds : u = jobs[j].uld
    BY Typed, JobsDomain, JobFields
  <1>2. /\ UNCHANGED <<pc, deployment, doubt, missed, exposure, twin, remote>>
        /\ jobs[j].stage = "audit" /\ queue' = queue
        /\ jobs' = [jobs EXCEPT ![j] = Forget(j, "done")]
    BY DEF LogVerification, At, Step
  <1>3. jobs'[j].uld = jobs[j].uld /\ jobs'[j].stage = "done"
    BY <1>2 DEF Forget, NewJob
  <1>4. JobMoves(j)
    BY <1>2, <1>3 DEF JobMoves, ActiveStages
  <1>5. RemoteInv'
    BY <1>2 DEF SettleInv, RemoteInv
  <1>6. OnTrack(j) => Converged(u)'
    BY <1>1, <1>2 DEF OnTrack, Converged
  <1>7. InSync(j) => Agreed(u)'
    BY <1>1, <1>2 DEF InSync, Agreed
  <1>8. QED
    BY <1>1, <1>2, <1>3, <1>4, <1>5, <1>6, <1>7, MoveSettlesAll DEF ActiveStages

\* A queue that loses no job but j still holds the jobs of the other ULDs.
LEMMA QueueKept ==
    ASSUME Jobs, NEW j \in DOMAIN jobs, DOMAIN jobs' = DOMAIN jobs,
           \A i \in DOMAIN jobs : jobs'[i].uld = jobs[i].uld,
           \A i \in DOMAIN queue :
               queue[i] # j => \E k \in DOMAIN queue' : queue'[k] = queue[i],
           UNCHANGED pc, NEW u, u # jobs[j].uld
    PROVE  Expected(u) => Expected(u)'
  <1>1. ASSUME Queued(u) PROVE Queued(u)'
    <2>1. PICK i \in DOMAIN queue : jobs[queue[i]].uld = u
      BY <1>1 DEF Queued
    <2>2. queue[i] # j /\ queue[i] \in DOMAIN jobs
      BY <2>1 DEF Jobs
    <2>3. PICK k \in DOMAIN queue' : queue'[k] = queue[i]
      BY <2>2
    <2>4. jobs'[queue'[k]].uld = u
      BY <2>1, <2>2, <2>3
    <2>5. QED
      BY <2>4 DEF Queued
  <1>2. InFlight(u)' = InFlight(u)
    BY DEF InFlight
  <1>3. QED
    BY <1>1, <1>2 DEF Expected

LEMMA GetStateSettles ==
    ASSUME TypeOK, SettleInv, NEW j \in DOMAIN jobs, VerifyGetState(j)
    PROVE  SettleInv'
  <1> USE DEF serverVars, redisVars, readingVars, counters, ghostVars
  <1>1. PICK u \in Ulds : u = jobs[j].uld
    BY Typed, JobsDomain, JobFields
  <1>2. /\ UNCHANGED <<pc, deployment, exposure, twin, remote>>
        /\ Jobs /\ queue # <<>> /\ j = Head(queue) /\ queue' = Tail(queue)
        /\ jobs' = [jobs EXCEPT ![j] = [jobs[j] EXCEPT !.stage = "read",
                                          !.state = exposure[u], !.disturbed = FALSE]]
        /\ doubt' = IF Active(u) = {} THEN doubt \ {u} ELSE doubt \cup {u}
        /\ missed' = IF Active(u) = {} THEN missed \ {u} ELSE missed
        /\ jobs[j] \in Job
    BY <1>1, Typed, JobsDomain DEF VerifyGetState
  <1>3. /\ DOMAIN jobs' = DOMAIN jobs
        /\ jobs'[j].uld = u /\ jobs'[j].stage = "read" /\ jobs'[j].state = exposure[u]
        /\ \A i \in DOMAIN jobs \ {j} : jobs'[i] = jobs[i]
    BY <1>1, <1>2 DEF Job
  <1>4. \A i \in DOMAIN queue :
            queue[i] # j => \E k \in DOMAIN queue' : queue'[k] = queue[i]
    BY <1>2, TailKeeps DEF Jobs
  <1>5. ASSUME NEW v \in Ulds, v # u PROVE Settled(v)'
    <2>1. JobsKept(v)
      BY <1>1, <1>3, <1>5 DEF JobsKept, Active
    <2>2. Expected(v) => Expected(v)'
      BY <1>1, <1>2, <1>3, <1>4, <1>5, QueueKept
    <2>3. Settled(v)
      BY DEF SettleInv
    <2>4. QED
      BY <1>2, <1>5, <2>1, <2>2, <2>3, SettledStays
  <1>6. Settled(u)'
    <2>1. CASE Active(u) = {}
      <3>1. Active(u)' = {j}
        BY <1>1, <1>3, <2>1 DEF Active, ActiveStages
      <3>2. OnTrack(j)' /\ InSync(j)'
        BY <1>2, <1>3 DEF OnTrack, InSync
      <3>3. QED
        BY <3>1, <3>2 DEF Settled
    <2>2. CASE Active(u) # {}
      BY <1>2, <2>2 DEF Settled
    <2>3. QED
      BY <2>1, <2>2
  <1>7. JobsInv'
    <2>1. ASSUME NEW i \in DOMAIN jobs, jobs'[i].stage = "waiting"
          PROVE  \E k \in DOMAIN queue' : queue'[k] = i
      <3>1. i # j /\ jobs[i].stage = "waiting"
        BY <1>3, <2>1
      <3>2. PICK k \in DOMAIN queue : queue[k] = i
        BY <3>1 DEF SettleInv, JobsInv
      <3>3. QED
        BY <1>4, <3>1, <3>2
    <2>2. QED
      BY <1>3, <2>1 DEF SettleInv, JobsInv
  <1>8. QED
    BY <1>2, <1>5, <1>6, <1>7 DEF SettleInv, RemoteInv

LEMMA FailSettles ==
    ASSUME TypeOK, SettleInv, NEW j \in DOMAIN jobs, FailAttempt(j)
    PROVE  SettleInv'
  <1> USE DEF serverVars, redisVars, readingVars, counters, ghostVars
  <1>1. PICK u \in Ulds : u = jobs[j].uld
    BY Typed, JobsDomain, JobFields
  <1> DEFINE waiting == IF jobs[j].stage = "waiting" THEN Tail(queue) ELSE queue
             attempts == jobs[j].attempts + 1
  <1>2. PICK stage \in {"waiting", "failed"} :
           /\ jobs' = [jobs EXCEPT ![j] = NewJob(u, stage, attempts)]
           /\ stage = "waiting" => queue' = Append(waiting, j) /\ doubt' = doubt
           /\ stage = "failed" => queue' = waiting /\ doubt' = doubt \cup {u}
    BY <1>1 DEF FailAttempt
  <1>3. /\ UNCHANGED <<pc, deployment, exposure, twin, remote, missed>> /\ Jobs
        /\ jobs[j].stage = "waiting" => queue # <<>> /\ j = Head(queue)
    BY Typed DEF FailAttempt, ActiveStages
  <1>4. /\ DOMAIN jobs' = DOMAIN jobs
        /\ jobs'[j].uld = u /\ jobs'[j].stage = stage
        /\ \A i \in DOMAIN jobs \ {j} : jobs'[i] = jobs[i]
    BY <1>2 DEF NewJob
  <1>5. /\ waiting \in Seq(DOMAIN jobs)
        /\ \A i \in DOMAIN queue :
              queue[i] # j => \E k \in DOMAIN waiting : waiting[k] = queue[i]
    <2>1. CASE jobs[j].stage = "waiting"
      BY <1>3, <2>1, TailKeeps DEF Jobs
    <2>2. CASE jobs[j].stage # "waiting"
      BY <1>3, <2>2 DEF Jobs
    <2>3. QED
      BY <2>1, <2>2
  <1> HIDE DEF waiting, attempts
  <1>6. /\ \A k \in DOMAIN waiting : \E i \in DOMAIN queue' : queue'[i] = waiting[k]
        /\ stage = "waiting" => \E i \in DOMAIN queue' : queue'[i] = j
    <2>1. CASE stage = "waiting"
      BY <1>2, <1>5, <2>1, AppendKeeps
    <2>2. CASE stage = "failed"
      BY <1>2, <2>2
    <2>3. QED
      BY <2>1, <2>2
  <1>7. \A i \in DOMAIN queue :
            queue[i] # j => \E k \in DOMAIN queue' : queue'[k] = queue[i]
    BY <1>5, <1>6
  <1>8. ASSUME NEW v \in Ulds, v # u PROVE Settled(v)'
    <2>1. JobsKept(v)
      BY <1>1, <1>4, <1>8 DEF JobsKept, Active
    <2>2. Expected(v) => Expected(v)'
      BY <1>1, <1>3, <1>4, <1>7, <1>8, QueueKept
    <2>3. Settled(v) /\ (v \in doubt => v \in doubt')
      BY <1>2 DEF SettleInv
    <2>4. QED
      BY <1>3, <1>8, <2>1, <2>2, <2>3, SettledStays
  <1>9. Settled(u)'
    <2>1. CASE stage = "waiting"
      <3>1. Active(u)' \subseteq Active(u)
        BY <1>4, <2>1 DEF Active, ActiveStages
      <3>2. Queued(u)'
        BY <1>4, <1>6, <2>1 DEF Queued
      <3>3. Settled(u)
        BY DEF SettleInv
      <3>4. QED
        BY <1>2, <2>1, <3>1, <3>2, <3>3, ExpectedSettles DEF Expected
    <2>2. CASE stage = "failed"
      BY <1>2, <2>2 DEF Settled
    <2>3. QED
      BY <2>1, <2>2
  <1>10. JobsInv'
    <2>1. ASSUME NEW i \in DOMAIN jobs, jobs'[i].stage = "waiting"
          PROVE  \E k \in DOMAIN queue' : queue'[k] = i
      <3>1. CASE i = j
        BY <1>4, <1>6, <2>1, <3>1
      <3>2. CASE i # j
        <4>1. PICK k \in DOMAIN queue : queue[k] = i
          BY <1>4, <2>1, <3>2 DEF SettleInv, JobsInv
        <4>2. QED
          BY <1>7, <3>2, <4>1
      <3>3. QED
        BY <3>1, <3>2
    <2>2. QED
      BY <1>4, <2>1 DEF SettleInv, JobsInv
  <1>11. QED
    BY <1>3, <1>8, <1>9, <1>10 DEF SettleInv, RemoteInv

LEMMA VerifySettles ==
    ASSUME TypeOK, SettleInv, NEW j \in DOMAIN jobs, VerifyStep(j)
    PROVE  SettleInv'
  BY GetStateSettles, ReadTwinSettles, FetchSettles, CacheSettles, PatchRemoteSettles,
     PatchTwinSettles, RestoreSettles, LogSettles, FailSettles
  DEF VerifyStep

\* A request for a verification is kept for later, unless the last one of the
\* ULD waits, or is noted as dropped.
LEMMA EnqueueSettles ==
    ASSUME TypeOK, SettleInv, NEW u \in Ulds, Enqueue(u),
           UNCHANGED <<deployment, exposure, twin, remote, missed>>,
           \A v \in Ulds \ {u} : InFlight(v)' = InFlight(v)
    PROVE  SettleInv'
  <1>1. Jobs
    BY Typed
  <1>2. CASE /\ jobs' = Append(jobs, NewJob(u, "waiting", 0))
             /\ queue' = Append(queue, Len(jobs) + 1)
             /\ UNCHANGED doubt
    <2> DEFINE new == Len(jobs) + 1
    <2>1. NewJob(u, "waiting", 0) \in Job
      BY NewJobType DEF JobStages
    <2>2. /\ DOMAIN jobs = 1 .. Len(jobs) /\ Len(jobs) \in Nat
          /\ DOMAIN jobs' = 1 .. Len(jobs) + 1
          /\ \A i \in DOMAIN jobs : jobs'[i] = jobs[i]
          /\ jobs'[new] = NewJob(u, "waiting", 0)
      <3>1. jobs \in Seq(Job)
        BY <1>1 DEF Jobs
      <3>2. QED
        BY <1>2, <2>1, <3>1
    <2>3. DOMAIN jobs' = DOMAIN jobs \cup {new} /\ new \notin DOMAIN jobs
      BY <2>2
    <2>4. jobs'[new].uld = u /\ jobs'[new].stage = "waiting"
      BY <2>2 DEF NewJob
    <2> HIDE DEF new
    <2>5. /\ \A i \in DOMAIN queue : \E k \in DOMAIN queue' : queue'[k] = queue[i]
          /\ \E k \in DOMAIN queue' : queue'[k] = new
          /\ \A i \in DOMAIN queue : queue[i] \in DOMAIN jobs
      <3>1. queue \in Seq(DOMAIN jobs')
        BY <1>1, <2>3 DEF Jobs
      <3>2. new \in DOMAIN jobs' /\ queue' = Append(queue, new)
        BY <1>2, <2>3 DEF new
      <3>3. QED
        BY <1>1, <3>1, <3>2, AppendKeeps DEF Jobs
    <2>6. \A v : JobsKept(v)
      BY <2>2, <2>3, <2>4 DEF JobsKept, Active, ActiveStages
    <2>7. \A v : Queued(v) => Queued(v)'
      BY <2>2, <2>5 DEF Queued
    <2>8. Queued(u)'
      BY <2>4, <2>5 DEF Queued
    <2>9. ASSUME NEW v \in Ulds PROVE Settled(v)'
      <3>1. Settled(v)
        BY DEF SettleInv
      <3>2. Expected(v) => Expected(v)'
        BY <2>7, <2>8 DEF Expected
      <3>3. QED
        BY <1>2, <2>6, <3>1, <3>2, SettledStays
    <2>10. JobsInv'
      BY <2>2, <2>3, <2>4, <2>5 DEF SettleInv, JobsInv
    <2>11. QED
      BY <2>9, <2>10 DEF SettleInv, RemoteInv
  <1>3. CASE /\ UNCHANGED queueVars
             /\ \E j \in DOMAIN jobs :
                   /\ jobs[j].uld = u
                   /\ doubt' = IF jobs[j].stage = "waiting" THEN doubt ELSE doubt \cup {u}
    <2>1. UNCHANGED <<jobs, queue>>
      BY <1>3 DEF queueVars
    <2>2. PICK j \in DOMAIN jobs :
             /\ jobs[j].uld = u
             /\ doubt' = IF jobs[j].stage = "waiting" THEN doubt ELSE doubt \cup {u}
      BY <1>3
    <2>3. \A v : JobsKept(v) /\ (Queued(v)' <=> Queued(v))
      BY <2>1 DEF JobsKept, Active, Queued
    <2>4. ASSUME NEW v \in Ulds, v # u PROVE Settled(v)'
      <3>1. Settled(v) /\ (v \in doubt => v \in doubt')
        BY <2>2 DEF SettleInv
      <3>2. Expected(v) => Expected(v)'
        BY <2>3, <2>4 DEF Expected
      <3>3. QED
        BY <2>3, <3>1, <3>2, SettledStays
    <2>5. Settled(u)'
      <3>1. CASE jobs[j].stage = "waiting"
        <4>1. Queued(u)
          BY <2>2, <3>1 DEF SettleInv, JobsInv, Queued
        <4>2. Settled(u) /\ Expected(u)' /\ Active(u)' = Active(u) /\ doubt' = doubt
          BY <2>2, <2>3, <3>1, <4>1 DEF SettleInv, Expected, JobsKept
        <4>3. QED
          BY <4>2, ExpectedSettles
      <3>2. CASE jobs[j].stage # "waiting"
        BY <2>2, <3>2 DEF Settled
      <3>3. QED
        BY <3>1, <3>2
    <2>6. QED
      BY <2>1, <2>4, <2>5 DEF SettleInv, RemoteInv, JobsInv
  <1>4. QED
    BY <1>2, <1>3 DEF Enqueue

\* A step of a reading, whose ULD still expects its verification.
LEMMA ReadingSettles ==
    ASSUME TypeOK, SettleInv, NEW m \in Readings, NEW u \in Ulds, u = uldOf(m),
           pc'[m] \in ReadingStages,
           \A n \in Readings \ {m} : pc'[n] = pc[n],
           UNCHANGED <<queue, deployment, doubt>>, missed \subseteq missed',
           DOMAIN jobs' = DOMAIN jobs,
           \A j \in DOMAIN jobs :
               /\ jobs'[j].uld = jobs[j].uld /\ jobs'[j].stage = jobs[j].stage
               /\ jobs'[j].state = jobs[j].state /\ jobs'[j].copy = jobs[j].copy,
           \A v \in Ulds \ {u} : /\ exposure'[v] = exposure[v] /\ twin'[v] = twin[v]
                                 /\ remote'[v] = remote[v],
           RemoteInv'
    PROVE  SettleInv'
  <1>1. \A v : JobsKept(v)
    BY DEF JobsKept, Active
  <1>2. \A i \in DOMAIN queue : queue[i] \in DOMAIN jobs
    BY Typed DEF Jobs
  <1>3. \A v : Queued(v) => Queued(v)'
    BY <1>2 DEF Queued
  <1>4. m \in InFlight(u)' /\ \A v : v # u => InFlight(v) \subseteq InFlight(v)'
    BY DEF InFlight, uldOf
  <1>5. ASSUME NEW v \in Ulds PROVE Settled(v)'
    <2>1. Settled(v)
      BY DEF SettleInv
    <2>2. CASE v = u
      <3>1. Expected(u)' /\ Active(u)' = Active(u)
        BY <1>1, <1>4 DEF Expected, JobsKept
      <3>2. QED
        BY <2>1, <2>2, <3>1, ExpectedSettles
    <2>3. CASE v # u
      <3>1. Expected(v) => Expected(v)'
        BY <1>3, <1>4, <2>3 DEF Expected
      <3>2. QED
        BY <1>1, <2>1, <2>3, <3>1, SettledStays
    <2>4. QED
      BY <2>2, <2>3
  <1>6. JobsInv'
    BY DEF SettleInv, JobsInv
  <1>7. QED
    BY <1>5, <1>6 DEF SettleInv

\* A request that touches neither readings nor jobs.
LEMMA RequestSettles ==
    ASSUME TypeOK, SettleInv, UNCHANGED <<pc, jobs, queue, deployment>>,
           missed \subseteq missed', doubt \subseteq doubt',
           \A u \in Ulds : /\ exposure'[u] \in {exposure[u], Absent}
                           /\ twin'[u] = twin[u] \/ u \in doubt'
                           /\ remote'[u] = remote[u] \/ u \in missed',
           RemoteInv'
    PROVE  SettleInv'
  <1>1. ASSUME NEW u \in Ulds PROVE Settled(u)'
    <2>1. Settled(u) /\ JobsKept(u) /\ (Expected(u) => Expected(u)')
      BY JobsUnchanged DEF SettleInv, Expected, InFlight, Queued
    <2>2. CASE twin'[u] = twin[u]
      BY <2>1, <2>2, SettledStays
    <2>3. CASE u \in doubt'
      BY <2>3 DEF Settled
    <2>4. QED
      BY <2>2, <2>3
  <1>2. QED
    BY <1>1 DEF SettleInv, JobsInv

\* A list of as many different members as a finite set has names them all.
LEMMA OrderIsFull ==
    ASSUME NEW S, IsFiniteSet(S), NEW order \in [1 .. Cardinality(S) -> S],
           \A i, k \in DOMAIN order : i # k => order[i] # order[k]
    PROVE  \A x \in S : \E i \in DOMAIN order : order[i] = x
  <1> DEFINE n == Cardinality(S)
             T == {order[i] : i \in 1 .. n}
  <1>1. n \in Nat
    BY FS_CardinalityType
  <1>2. T \in SUBSET S
    OBVIOUS
  <1>3. order \in Bijection(1 .. n, T)
    <2>1. order \in [1 .. n -> T] /\ IsInjective(order)
      BY DEF IsInjective
    <2>2. \A x \in T : \E i \in 1 .. n : order[i] = x
      OBVIOUS
    <2> HIDE DEF T
    <2>3. QED
      BY <2>1, <2>2 DEF Bijection, Injection, Surjection
  <1>4. Cardinality(T) = n
    <2> HIDE DEF T, n
    <2>1. ExistsBijection(1 .. n, T)
      BY <1>3 DEF ExistsBijection
    <2>2. QED
      BY <1>1, <2>1, FS_CountingElements
  <1>5. T = S
    BY <1>2, <1>4, FS_Subset
  <1>6. QED
    BY <1>5

\* A restart leaves in doubt what was not finished, and the rest as it was.
LEMMA CrashSettles ==
    ASSUME TypeOK, SettleInv, Crash
    PROVE  SettleInv'
  <1>1. Jobs /\ jobs \in Seq(Job) /\ pc \in [Readings -> ReadingStages \cup {"idle", "ended"}]
    BY Typed DEF Jobs
  <1>2. /\ UNCHANGED <<deployment, remote, missed>>
        /\ doubt' = doubt \cup Unfinished
        /\ LoseRedis \/ KeepRedis
    BY DEF Crash
  <1>3. /\ DOMAIN jobs' = DOMAIN jobs
        /\ \A j \in DOMAIN jobs : /\ jobs'[j].stage \notin ActiveStages
                                  /\ jobs'[j].stage # "restore"
    BY DEF Crash, LoseRedis, KeepRedis, Forget, NewJob, AllActive, ActiveStages
  <1>4. ASSUME NEW u \in Ulds PROVE Settled(u)'
    <2> SUFFICES ASSUME u \notin doubt' PROVE Settled(u)'
      BY DEF Settled
    <2>1. u \notin doubt /\ ~Expected(u) /\ Active(u) = {}
      BY <1>2 DEF Unfinished, Expected, Queued
    <2>2. Active(u)' = {}
      BY <1>3 DEF Active
    <2>3. exposure'[u] = Absent \/ (exposure'[u] = exposure[u] /\ twin'[u] = twin[u])
      BY <1>2 DEF LoseRedis, KeepRedis, redisVars
    <2>4. Converged(u)'
      BY <2>1, <2>3 DEF SettleInv, Settled, Converged
    <2>5. deployment.remote /\ u \notin missed => Agreed(u)'
      BY <1>2, <2>1, <2>3 DEF SettleInv, Settled, Agreed
    <2>6. QED
      BY <1>2, <2>2, <2>4, <2>5 DEF Settled
  <1>5. JobsInv'
    <2>1. CASE LoseRedis
      BY <2>1 DEF LoseRedis, Forget, NewJob, JobsInv
    <2>2. CASE KeepRedis
      <3>1. PICK order :
               /\ order \in [1 .. Cardinality(AllActive) -> AllActive]
               /\ \A i, k \in DOMAIN order : i # k => order[i] # order[k]
               /\ queue' = queue \o order
        BY <2>2 DEF KeepRedis
      <3>2. /\ Cardinality(AllActive) \in Nat /\ IsFiniteSet(AllActive)
        <4>1. IsFiniteSet(1 .. Len(jobs))
          <5>1. Len(jobs) \in Int
            BY <1>1
          <5>2. QED
            BY <5>1, FS_Interval
        <4>2. AllActive \in SUBSET (1 .. Len(jobs))
          BY <1>1 DEF AllActive
        <4>3. QED
          BY <4>1, <4>2, FS_Subset, FS_CardinalityType
      <3>3. PICK S : order \in Seq(S) /\ queue \in Seq(S)
        <4>1. AllActive \subseteq DOMAIN jobs
          BY DEF AllActive
        <4>2. order \in [1 .. Cardinality(AllActive) -> DOMAIN jobs]
          BY <3>1, <4>1
        <4>3. order \in Seq(DOMAIN jobs)
          BY <3>2, <4>2
        <4>4. queue \in Seq(DOMAIN jobs)
          BY <1>1 DEF Jobs
        <4>5. QED
          BY <4>3, <4>4
      <3>4. /\ \A i \in DOMAIN queue : \E k \in DOMAIN queue' : queue'[k] = queue[i]
            /\ \A i \in DOMAIN order : \E k \in DOMAIN queue' : queue'[k] = order[i]
        <4>1. /\ DOMAIN queue = 1 .. Len(queue) /\ Len(queue) \in Nat
              /\ DOMAIN order = 1 .. Len(order) /\ Len(order) \in Nat
              /\ Len(queue') = Len(queue) + Len(order) /\ queue' \in Seq(S)
              /\ \A i \in 1 .. Len(queue) : queue'[i] = queue[i]
              /\ \A i \in 1 .. Len(order) : queue'[Len(queue) + i] = order[i]
          BY <3>1, <3>3
        <4>2. /\ DOMAIN queue' = 1 .. Len(queue) + Len(order)
              /\ 1 .. Len(queue) \subseteq 1 .. Len(queue) + Len(order)
              /\ \A i \in 1 .. Len(order) : Len(queue) + i \in 1 .. Len(queue) + Len(order)
          BY <4>1
        <4>3. QED
          BY <4>1, <4>2
      <3>5. \A j \in AllActive : \E i \in DOMAIN order : order[i] = j
        BY <3>1, <3>2, OrderIsFull
      <3>6. ASSUME NEW j \in DOMAIN jobs, jobs'[j].stage = "waiting"
            PROVE  \E i \in DOMAIN queue' : queue'[i] = j
        <4>1. CASE j \in AllActive
          BY <3>4, <3>5, <4>1
        <4>2. CASE j \notin AllActive
          <5>1. jobs[j].stage = "waiting"
            BY <2>2, <3>6, <4>2 DEF KeepRedis
          <5>2. QED
            BY <3>4, <5>1 DEF SettleInv, JobsInv
        <4>3. QED
          BY <4>1, <4>2
      <3>7. QED
        BY <1>3, <3>6 DEF JobsInv
    <2>3. QED
      BY <1>2, <2>1, <2>2
  <1>6. QED
    BY <1>2, <1>4, <1>5 DEF SettleInv, RemoteInv

LEMMA SettleInit == Init => SettleInv
  <1> SUFFICES ASSUME Init PROVE SettleInv
    OBVIOUS
  <1>0. \A u \in Ulds : exposure[u] = Absent /\ remote[u] = Absent
    BY DEF Init
  <1>1. /\ \A u \in Ulds : Active(u) = {} /\ exposure[u] = Absent
        /\ \A u \in Ulds : ~remote[u].exposure.breached
    BY <1>0, AbsentType DEF Init, Active
  <1>2. JobsInv
    BY DEF Init, JobsInv
  <1>3. QED
    BY <1>1, <1>2 DEF SettleInv, RemoteInv, Settled, Converged, Agreed

LEMMA SettleStep == TypeOK /\ SettleInv /\ [Next]_vars => SettleInv'
  <1> SUFFICES ASSUME TypeOK, SettleInv, [Next]_vars PROVE SettleInv'
    OBVIOUS
  <1> USE DEF serverVars, redisVars, readingVars, queueVars, counters, ghostVars
  <1>1. \A m \in Readings : uldOf(m) \in Ulds
    BY SentAssumption DEF uldOf, Reading
  <1>2. /\ exposure \in [Ulds -> Stored] /\ twin \in [Ulds -> Stored]
        /\ remote \in [Ulds -> Stored] /\ held \in [Readings -> Stored] /\ Jobs
        /\ pc \in [Readings -> ReadingStages \cup {"idle", "ended"}]
    BY Typed
  <1>3. UNCHANGED remote => RemoteInv'
    BY DEF SettleInv, RemoteInv
  <1>4. ASSUME NEW m \in Readings, ReadState(m) PROVE SettleInv'
    <2>1. /\ pc'[m] \in ReadingStages /\ \A n \in Readings \ {m} : pc'[n] = pc[n]
      BY <1>2, <1>4 DEF ReadState, ReadingStages
    <2>2. QED
      BY <1>1, <1>3, <1>4, <2>1, ReadingSettles DEF ReadState
  <1>5. ASSUME NEW m \in Readings, SaveState(m) PROVE SettleInv'
    <2>1. /\ pc'[m] \in ReadingStages /\ \A n \in Readings \ {m} : pc'[n] = pc[n]
          /\ \A v \in Ulds \ {uldOf(m)} : exposure'[v] = exposure[v]
      BY <1>1, <1>2, <1>5 DEF SaveState, ReadingStages
    <2>2. /\ DOMAIN jobs' = DOMAIN jobs
          /\ \A j \in DOMAIN jobs :
                /\ jobs'[j].uld = jobs[j].uld /\ jobs'[j].stage = jobs[j].stage
                /\ jobs'[j].state = jobs[j].state /\ jobs'[j].copy = jobs[j].copy
      BY <1>2, <1>5, DisturbedJobs DEF SaveState
    <2>3. QED
      BY <1>1, <1>3, <1>5, <2>1, <2>2, ReadingSettles DEF SaveState
  <1>6. ASSUME NEW m \in Readings, UpsertTwin(m) PROVE SettleInv'
    <2> DEFINE node == buildOperationalStateNode(held[m])
    <2>1. /\ pc'[m] \in ReadingStages /\ \A n \in Readings \ {m} : pc'[n] = pc[n]
      BY <1>2, <1>6 DEF UpsertTwin, ReadingStages
    <2>2. ~node.exposure.breached
      BY <1>2, StoredType
    <2> HIDE DEF node
    <2>3. /\ missed \subseteq missed'
          /\ remote' = remote \/ remote' = [remote EXCEPT ![uldOf(m)] = node]
      BY <1>6 DEF UpsertTwin, Write, node
    <2>4. RemoteInv' /\ \A v \in Ulds \ {uldOf(m)} : remote'[v] = remote[v]
      BY <1>1, <1>2, <2>2, <2>3 DEF SettleInv, RemoteInv
    <2>5. QED
      BY <1>1, <1>6, <2>1, <2>3, <2>4, ReadingSettles DEF UpsertTwin
  <1>7. ASSUME NEW m \in Readings, SetTwin(m) PROVE SettleInv'
    <2>1. /\ pc'[m] \in ReadingStages /\ \A n \in Readings \ {m} : pc'[n] = pc[n]
          /\ \A v \in Ulds \ {uldOf(m)} : twin'[v] = twin[v]
      BY <1>1, <1>2, <1>7 DEF SetTwin, ReadingStages
    <2>2. QED
      BY <1>1, <1>3, <1>7, <2>1, ReadingSettles DEF SetTwin
  <1>8. ASSUME NEW m \in Readings, EnqueueVerification(m) PROVE SettleInv'
    <2>1. \A v \in Ulds \ {uldOf(m)} : InFlight(v)' = InFlight(v)
      BY <1>2, <1>8 DEF EnqueueVerification, InFlight, uldOf
    <2>2. QED
      BY <1>1, <1>8, <2>1, EnqueueSettles DEF EnqueueVerification
  <1>9. ASSUME NEW m \in Readings, RejectReading(m) PROVE SettleInv'
    <2>1. ASSUME NEW v \in Ulds PROVE Settled(v)'
      <3>1. CASE v = uldOf(m)
        BY <1>9, <3>1 DEF RejectReading, Settled
      <3>2. CASE v # uldOf(m)
        <4>1. InFlight(v)' = InFlight(v)
          BY <1>2, <1>9, <3>2 DEF RejectReading, InFlight, uldOf
        <4>2. Settled(v) /\ JobsKept(v) /\ (Expected(v) => Expected(v)')
          BY <1>9, <4>1, JobsUnchanged DEF RejectReading, SettleInv, Expected, Queued
        <4>3. QED
          BY <1>9, <4>2, SettledStays DEF RejectReading
      <3>3. QED
        BY <3>1, <3>2
    <2>2. QED
      BY <1>3, <1>9, <2>1 DEF RejectReading, SettleInv, JobsInv
  <1>10. ASSUME NEW u \in Ulds, ReadStatus(u) PROVE SettleInv'
    BY <1>10, EnqueueSettles DEF ReadStatus, InFlight
  <1>11. ASSUME NEW u \in Ulds, Reset(u) PROVE SettleInv'
    <2>1. \A v \in Ulds : exposure'[v] \in {exposure[v], Absent}
      BY <1>2, <1>11 DEF Reset
    <2>2. QED
      BY <1>3, <1>11, <2>1, RequestSettles DEF Reset
  <1>12. ASSUME NEW u \in Ulds, FetchAnswer(u) PROVE SettleInv'
    BY <1>3, <1>12, RequestSettles DEF FetchAnswer
  <1>13. ASSUME NEW u \in Ulds, UpdateRemote(u) PROVE SettleInv'
    <2>1. /\ \A v \in Ulds : remote'[v] = remote[v] \/ v \in missed'
          /\ RemoteInv'
      BY <1>2, <1>13, AbsentType DEF UpdateRemote, SettleInv, RemoteInv
    <2>2. QED
      BY <1>13, <2>1, RequestSettles DEF UpdateRemote
  <1>14. ASSUME NEW a \in answers, CacheAnswer(a) PROVE SettleInv'
    <2>1. \A v \in Ulds : twin'[v] = twin[v] \/ v \in doubt'
      BY <1>2, <1>14 DEF CacheAnswer
    <2>2. doubt \subseteq doubt'
      BY <1>14 DEF CacheAnswer
    <2>3. QED
      BY <1>3, <1>14, <2>1, <2>2, RequestSettles DEF CacheAnswer
  <1>15. ASSUME NEW j \in DOMAIN jobs, VerifyStep(j) PROVE SettleInv'
    BY <1>15, VerifySettles
  <1>16. CASE Disconnect
    BY <1>3, <1>16, RequestSettles DEF Disconnect
  <1>17. CASE Crash
    BY <1>17, CrashSettles
  <1>18. CASE UNCHANGED vars
    BY <1>3, <1>18, RequestSettles DEF vars
  <1>19. QED
    BY <1>4, <1>5, <1>6, <1>7, <1>8, <1>9, <1>10, <1>11, <1>12, <1>13, <1>14, <1>15, <1>16,
       <1>17, <1>18
    DEF Next, ReadingStep

LEMMA SettledConverges ==
    ASSUME SettleInv PROVE VerificationConverges /\ RemoteAgrees
  BY DEF SettleInv, Settled, Expected, Queued, Quiet, Converged, Agreed,
         VerificationConverges, RemoteAgrees

\* Verification brings state and twin together, in every reachable state in
\* which a ULD has settled and its last verification was not lost.
THEOREM ConvergenceSafety == Spec => []VerificationConverges
  <1>1. Init => TypeOK /\ SettleInv
    BY TypeInit, SettleInit
  <1>2. TypeOK /\ SettleInv /\ [Next]_vars => (TypeOK /\ SettleInv)'
    BY TypeStep, SettleStep
  <1>3. SettleInv => VerificationConverges
    BY SettledConverges
  <1>4. QED
    BY <1>1, <1>2, <1>3, PTL DEF Spec

\* Then the server has the state of the twin, unless a remote call failed.
THEOREM RemoteSafety == Spec => []RemoteAgrees
  <1>1. Init => TypeOK /\ SettleInv
    BY TypeInit, SettleInit
  <1>2. TypeOK /\ SettleInv /\ [Next]_vars => (TypeOK /\ SettleInv)'
    BY TypeStep, SettleStep
  <1>3. SettleInv => RemoteAgrees
    BY SettledConverges
  <1>4. QED
    BY <1>1, <1>2, <1>3, PTL DEF Spec

-----------------------------------------------------------------------------
(***************************************************************************)
(* The date of a breach, and the minutes a repair restores.  What a        *)
(* verification under way has read is the state of its ULD, unless that    *)
(* was reset or stored since; where nothing was read, nothing was found.   *)
(***************************************************************************)
Dated(state) == state.exposure.status = "BREACH" => state.exposure.breached

\* Readings date their breaches, and so does everything without a server.
StatesDated ==
    /\ \A m \in Readings : Dated(held[m])
    /\ ~deployment.remote =>
          \A u \in Ulds : Dated(exposure[u]) /\ Dated(twin[u]) /\ Dated(remote[u])
    /\ ~deployment.remote => answers = {}

JobsDated ==
    \A j \in DOMAIN jobs :
        /\ jobs[j].stage \in ActiveStages /\ jobs[j].state = Absent => jobs[j].uld \in missing
        /\ jobs[j].stage = "restore" => jobs[j].state = Absent
        /\ ~deployment.remote => Dated(jobs[j].state) /\ Dated(jobs[j].copy)

DateInv == StatesDated /\ JobsDated /\ UndatedBreachWasRestored

\* What a verification that nobody disturbed has read.
FreshInv ==
    \A j \in DOMAIN jobs :
        jobs[j].stage \in ActiveStages \ {"audit"} /\ ~jobs[j].disturbed
        => exposure[jobs[j].uld] \in {jobs[j].state, Absent}

LEMMA AbsentDated == Dated(Absent)
  BY AbsentType DEF Dated

LEMMA DateInit == Init => DateInv /\ FreshInv
  <1> SUFFICES ASSUME Init PROVE DateInv /\ FreshInv
    OBVIOUS
  <1>1. /\ \A m \in Readings : held[m] = Absent
        /\ \A u \in Ulds : exposure[u] = Absent /\ twin[u] = Absent /\ remote[u] = Absent
        /\ DOMAIN jobs = {} /\ answers = {}
    BY DEF Init
  <1>2. QED
    BY <1>1, AbsentDated DEF DateInv, StatesDated, JobsDated, FreshInv, Dated,
                             UndatedBreachWasRestored

\* One job changes, and with it perhaps the state or the twin of its ULD.
LEMMA JobDated ==
    ASSUME TypeOK, DateInv, NEW j \in DOMAIN jobs, UNCHANGED <<deployment, held>>,
           ~deployment.remote => remote' = remote,
           answers' = answers, missing \subseteq missing',
           DOMAIN jobs' = DOMAIN jobs, jobs'[j].uld = jobs[j].uld,
           \A i \in DOMAIN jobs \ {j} :
               /\ jobs'[i].uld = jobs[i].uld /\ jobs'[i].stage = jobs[i].stage
               /\ jobs'[i].state = jobs[i].state /\ jobs'[i].copy = jobs[i].copy,
           jobs'[j].stage \in ActiveStages /\ jobs'[j].state = Absent
               => jobs[j].uld \in missing',
           jobs'[j].stage = "restore" => jobs'[j].state = Absent,
           ~deployment.remote => Dated(jobs'[j].state) /\ Dated(jobs'[j].copy),
           \A u \in Ulds : \/ exposure'[u] = exposure[u]
                           \/ /\ u = jobs[j].uld /\ exposure'[u] = jobs[j].copy
                              /\ jobs[j].stage = "restore",
           \A u \in Ulds : \/ twin'[u] = twin[u]
                           \/ u = jobs[j].uld /\ twin'[u] \in {jobs[j].state, jobs[j].copy}
    PROVE  DateInv'
  <1>1. jobs[j].stage = "restore" => jobs[j].uld \in missing
    BY DEF DateInv, JobsDated, ActiveStages
  <1>2. ~deployment.remote => Dated(jobs[j].state) /\ Dated(jobs[j].copy)
    BY DEF DateInv, JobsDated
  <1>3. StatesDated'
    BY <1>2 DEF DateInv, StatesDated
  <1>4. JobsDated'
    BY DEF DateInv, JobsDated
  <1>5. UndatedBreachWasRestored'
    <2> SUFFICES ASSUME NEW u \in Ulds, ~Dated(exposure'[u])
                 PROVE  deployment.remote /\ u \in missing'
      BY DEF UndatedBreachWasRestored, Dated
    <2>1. deployment.remote
      BY <1>3 DEF StatesDated
    <2>2. CASE exposure'[u] = exposure[u]
      BY <2>1, <2>2 DEF DateInv, UndatedBreachWasRestored, Dated
    <2>3. CASE exposure'[u] # exposure[u]
      BY <1>1, <2>1, <2>3
    <2>4. QED
      BY <2>2, <2>3
  <1>6. QED
    BY <1>3, <1>4, <1>5 DEF DateInv

\* One job changes, and nothing is stored but by its restore.
LEMMA JobFresh ==
    ASSUME TypeOK, FreshInv, NEW j \in DOMAIN jobs,
           DOMAIN jobs' = DOMAIN jobs, jobs'[j].uld = jobs[j].uld,
           \/ jobs'[j].disturbed = jobs[j].disturbed /\ jobs'[j].state = jobs[j].state
           \/ jobs'[j].stage \notin ActiveStages \ {"audit"},
           jobs'[j].stage \in ActiveStages => jobs[j].stage \in ActiveStages \ {"audit"},
           \A i \in DOMAIN jobs \ {j} : jobs'[i] = jobs[i],
           UNCHANGED exposure
    PROVE  FreshInv'
  BY DEF FreshInv

LEMMA VerifyDated ==
    ASSUME TypeOK, DateInv, FreshInv, NEW j \in DOMAIN jobs, VerifyStep(j)
    PROVE  DateInv' /\ FreshInv'
  <1> USE DEF serverVars, redisVars, readingVars, counters, ghostVars
  <1>1. PICK u \in Ulds : u = jobs[j].uld
    BY Typed, JobsDomain, JobFields
  <1>2. /\ Jobs /\ jobs[j] \in Job
        /\ exposure \in [Ulds -> Stored] /\ twin \in [Ulds -> Stored]
        /\ remote \in [Ulds -> Stored]
    BY Typed, JobsDomain
  <1>3. jobs[j].stage \in ActiveStages /\ jobs[j].state = Absent => u \in missing
    BY <1>1 DEF DateInv, JobsDated
  <1>4. ~deployment.remote =>
            /\ Dated(jobs[j].state) /\ Dated(jobs[j].copy)
            /\ Dated(exposure[u]) /\ Dated(twin[u]) /\ Dated(remote[u])
    BY DEF DateInv, JobsDated, StatesDated
  <1>5. ASSUME NEW copy, Compare(j, copy), jobs[j].stage \in ActiveStages \ {"audit"},
               ~deployment.remote => Dated(copy),
               ~deployment.remote => remote' = remote,
               UNCHANGED <<deployment, held, answers, missing, exposure>>,
               \A v \in Ulds : twin'[v] = twin[v] \/ (v = u /\ twin'[v] = jobs[j].copy)
        PROVE  DateInv' /\ FreshInv'
    <2> DEFINE stage == Repair(jobs[j].state, copy)
    <2>1. jobs' = [jobs EXCEPT ![j] = [jobs[j] EXCEPT !.copy = copy, !.stage = stage]]
      BY <1>5 DEF Compare, Step
    <2>2. /\ jobs'[j].uld = u /\ jobs'[j].state = jobs[j].state
          /\ jobs'[j].copy = copy /\ jobs'[j].stage = stage
          /\ jobs'[j].disturbed = jobs[j].disturbed
          /\ DOMAIN jobs' = DOMAIN jobs
          /\ \A i \in DOMAIN jobs \ {j} : jobs'[i] = jobs[i]
      BY <1>1, <1>2, <2>1 DEF Job
    <2>3. stage = "restore" => jobs[j].state = Absent
      BY DEF Repair
    <2> HIDE DEF stage
    <2>4. DateInv'
      BY <1>1, <1>3, <1>4, <1>5, <2>2, <2>3, JobDated
    <2>5. FreshInv'
      BY <1>1, <1>5, <2>2, JobFresh
    <2>6. QED
      BY <2>4, <2>5
  <1>6. ASSUME NEW stage, GoTo(j, stage), stage # "restore",
               jobs[j].stage \in ActiveStages \ {"audit"},
               ~deployment.remote => remote' = remote,
               UNCHANGED <<deployment, held, answers, missing, exposure>>,
               \A v \in Ulds : twin'[v] = twin[v] \/ (v = u /\ twin'[v] = jobs[j].state)
        PROVE  DateInv' /\ FreshInv'
    <2>1. /\ jobs'[j].uld = u /\ jobs'[j].state = jobs[j].state
          /\ jobs'[j].copy = jobs[j].copy /\ jobs'[j].stage = stage
          /\ jobs'[j].disturbed = jobs[j].disturbed
          /\ DOMAIN jobs' = DOMAIN jobs
          /\ \A i \in DOMAIN jobs \ {j} : jobs'[i] = jobs[i]
      BY <1>1, <1>2, <1>6 DEF Job, GoTo, Step
    <2>2. DateInv'
      BY <1>1, <1>3, <1>4, <1>6, <2>1, JobDated
    <2>3. FreshInv'
      BY <1>1, <1>6, <2>1, JobFresh
    <2>4. QED
      BY <2>2, <2>3
  <1>7. CASE VerifyGetState(j)
    <2>1. /\ jobs' = [jobs EXCEPT ![j] = [jobs[j] EXCEPT !.stage = "read",
                                            !.state = exposure[u], !.disturbed = FALSE]]
          /\ UNCHANGED <<deployment, held, answers, exposure, twin, remote>>
          /\ missing' = IF exposure[u] = Absent THEN missing \cup {u} ELSE missing
      BY <1>1, <1>7 DEF VerifyGetState
    <2>2. /\ jobs'[j].uld = u /\ jobs'[j].state = exposure[u]
          /\ jobs'[j].copy = jobs[j].copy /\ jobs'[j].stage = "read"
          /\ DOMAIN jobs' = DOMAIN jobs
          /\ \A i \in DOMAIN jobs \ {j} : jobs'[i] = jobs[i]
      BY <1>1, <1>2, <2>1 DEF Job
    <2>3. DateInv'
      BY <1>1, <1>4, <2>1, <2>2, JobDated
    <2>4. FreshInv'
      BY <2>1, <2>2 DEF FreshInv
    <2>5. QED
      BY <2>3, <2>4
  <1>8. ASSUME NEW copy, NEW stage \in {"fetch", "cache"}, jobs[j].stage \in {"read", "fetch"},
               jobs' = [jobs EXCEPT ![j] = [jobs[j] EXCEPT !.copy = copy, !.stage = stage]],
               ~deployment.remote => Dated(copy),
               UNCHANGED <<deployment, held, answers, missing, exposure, twin, remote>>
        PROVE  DateInv' /\ FreshInv'
    <2>1. /\ jobs'[j].uld = u /\ jobs'[j].state = jobs[j].state
          /\ jobs'[j].copy = copy /\ jobs'[j].stage = stage
          /\ jobs'[j].disturbed = jobs[j].disturbed
          /\ DOMAIN jobs' = DOMAIN jobs
          /\ \A i \in DOMAIN jobs \ {j} : jobs'[i] = jobs[i]
      BY <1>1, <1>2, <1>8 DEF Job
    <2>2. jobs[j].stage \in ActiveStages \ {"audit"} /\ stage # "restore"
      BY <1>8 DEF ActiveStages
    <2>3. DateInv'
      BY <1>1, <1>3, <1>4, <1>8, <2>1, <2>2, JobDated
    <2>4. FreshInv'
      BY <1>1, <1>8, <2>1, <2>2, JobFresh
    <2>5. QED
      BY <2>3, <2>4
  <1>9. CASE ReadTwin(j)
    BY <1>1, <1>4, <1>5, <1>8, <1>9 DEF ReadTwin, At, Step, ActiveStages
  <1>10. CASE FetchRemote(j)
    BY <1>1, <1>4, <1>8, <1>10 DEF FetchRemote, At, Step
  <1>11. CASE FetchFails(j)
    BY <1>4, <1>5, <1>11 DEF FetchFails, At, ActiveStages
  <1>12. CASE CacheTwin(j)
    <2>1. \A v \in Ulds : twin'[v] = twin[v] \/ (v = u /\ twin'[v] = jobs[j].copy)
      BY <1>1, <1>2, <1>12 DEF CacheTwin
    <2>2. QED
      BY <1>4, <1>5, <1>12, <2>1 DEF CacheTwin, At, ActiveStages
  <1>13. CASE PatchRemote(j)
    <2>1. ~deployment.remote => remote' = remote
      BY <1>13 DEF PatchRemote, Write
    <2>2. QED
      BY <1>6, <1>13, <2>1 DEF PatchRemote, At, ActiveStages
  <1>14. CASE PatchTwin(j)
    <2>1. \A v \in Ulds : twin'[v] = twin[v] \/ (v = u /\ twin'[v] = jobs[j].state)
      BY <1>1, <1>2, <1>14 DEF PatchTwin
    <2>2. QED
      BY <1>6, <1>14, <2>1 DEF PatchTwin, At, ActiveStages
  <1>15. CASE RestoreState(j)
    <2>1. /\ UNCHANGED <<deployment, held, answers, missing, twin, remote>>
          /\ exposure' = [exposure EXCEPT ![u] = jobs[j].copy]
          /\ jobs[j].stage = "restore"
          /\ jobs' = [Disturb(u) EXCEPT ![j] = [jobs[j] EXCEPT !.stage = "audit"]]
      BY <1>1, <1>15 DEF RestoreState, At
    <2>2. /\ jobs'[j].uld = jobs[j].uld /\ jobs'[j].stage = "audit"
          /\ jobs'[j].state = jobs[j].state /\ jobs'[j].copy = jobs[j].copy
          /\ DOMAIN jobs' = DOMAIN jobs
          /\ \A i \in DOMAIN jobs \ {j} : jobs'[i] = Disturb(u)[i]
      <3>1. jobs'[j] = [jobs[j] EXCEPT !.stage = "audit"] /\ DOMAIN jobs' = DOMAIN jobs
            /\ \A i \in DOMAIN jobs \ {j} : jobs'[i] = Disturb(u)[i]
        BY <1>2, <2>1, DisturbedJobs
      <3>2. QED
        BY <1>2, <3>1 DEF Job
    <2>3. \A i \in DOMAIN jobs \ {j} :
             /\ jobs'[i].uld = jobs[i].uld /\ jobs'[i].stage = jobs[i].stage
             /\ jobs'[i].state = jobs[i].state /\ jobs'[i].copy = jobs[i].copy
             /\ jobs'[i].disturbed = (jobs[i].disturbed \/ i \in Active(u))
      BY <1>2, <2>2, DisturbedJobs
    <2>4. \A v \in Ulds : exposure'[v] = exposure[v] \/ (v = u /\ exposure'[v] = jobs[j].copy)
      BY <1>2, <2>1
    <2>5. DateInv'
      BY <1>1, <1>3, <1>4, <2>1, <2>2, <2>3, <2>4, JobDated DEF ActiveStages
    <2>6. ASSUME NEW i \in DOMAIN jobs, jobs'[i].stage \in ActiveStages \ {"audit"},
                 ~jobs'[i].disturbed
          PROVE  exposure'[jobs'[i].uld] \in {jobs'[i].state, Absent}
      <3>1. i # j
        BY <2>2, <2>6
      <3>2. i \notin Active(u) /\ ~jobs[i].disturbed /\ jobs[i].stage \in ActiveStages \ {"audit"}
        BY <2>3, <2>6, <3>1
      <3>3. jobs[i].uld # u /\ jobs[i].uld \in Ulds
        BY <1>2, <3>2, JobsDomain, JobFields DEF Active
      <3>4. QED
        BY <2>3, <2>4, <3>1, <3>2, <3>3 DEF FreshInv
    <2>7. QED
      BY <2>2, <2>5, <2>6 DEF FreshInv
  <1>16. ASSUME NEW stage \in {"waiting", "failed", "done"}, NEW attempts,
                jobs' = [jobs EXCEPT ![j] = NewJob(u, stage, attempts)],
                UNCHANGED <<deployment, held, answers, missing, exposure, twin, remote>>
         PROVE  DateInv' /\ FreshInv'
    <2>1. /\ jobs'[j].uld = u /\ jobs'[j].state = Absent
          /\ jobs'[j].copy = Absent /\ jobs'[j].stage = stage
          /\ DOMAIN jobs' = DOMAIN jobs
          /\ \A i \in DOMAIN jobs \ {j} : jobs'[i] = jobs[i]
      BY <1>16 DEF NewJob
    <2>2. DateInv'
      BY <1>1, <1>16, <2>1, AbsentDated, JobDated DEF ActiveStages
    <2>3. FreshInv'
      BY <1>1, <1>16, <2>1, JobFresh DEF ActiveStages
    <2>4. QED
      BY <2>2, <2>3
  <1>17. CASE LogVerification(j)
    BY <1>1, <1>16, <1>17 DEF LogVerification, Step, Forget
  <1>18. CASE FailAttempt(j)
    BY <1>1, <1>16, <1>18 DEF FailAttempt
  <1>19. QED
    BY <1>7, <1>9, <1>10, <1>11, <1>12, <1>13, <1>14, <1>15, <1>17, <1>18 DEF VerifyStep

\* Steps that leave the jobs alone, or only tell them of a stored state.
LEMMA StatesKept ==
    ASSUME TypeOK, DateInv, FreshInv, UNCHANGED deployment,
           ~deployment.remote => answers' = {},
           \A m \in Readings : Dated(held'[m]),
           missing \subseteq missing',
           DOMAIN jobs' = DOMAIN jobs,
           \A j \in DOMAIN jobs :
               /\ jobs'[j].uld = jobs[j].uld /\ jobs'[j].stage = jobs[j].stage
               /\ jobs'[j].state = jobs[j].state /\ jobs'[j].copy = jobs[j].copy
               /\ jobs[j].disturbed => jobs'[j].disturbed,
           \A u \in Ulds :
               \/ exposure'[u] \in {exposure[u], Absent}
               \/ /\ Dated(exposure'[u])
                  /\ \A j \in DOMAIN jobs : j \in Active(u) => jobs'[j].disturbed,
           ~deployment.remote => \A u \in Ulds : Dated(twin'[u]) /\ Dated(remote'[u])
    PROVE  DateInv' /\ FreshInv'
  <1>1. /\ ~deployment.remote => \A u \in Ulds : Dated(exposure[u])
        /\ \A u \in Ulds : ~Dated(exposure[u]) => deployment.remote /\ u \in missing
    BY DEF DateInv, StatesDated, UndatedBreachWasRestored, Dated
  <1>2. ASSUME NEW u \in Ulds, ~Dated(exposure'[u])
        PROVE  deployment.remote /\ u \in missing'
    BY <1>1, <1>2, AbsentDated
  <1>3. StatesDated'
    BY <1>2 DEF StatesDated
  <1>4. JobsDated'
    BY DEF DateInv, JobsDated
  <1>5. UndatedBreachWasRestored'
    BY <1>2 DEF UndatedBreachWasRestored, Dated
  <1>6. ASSUME NEW j \in DOMAIN jobs, jobs'[j].stage \in ActiveStages \ {"audit"},
               ~jobs'[j].disturbed
        PROVE  exposure'[jobs'[j].uld] \in {jobs'[j].state, Absent}
    <2>1. /\ jobs[j].stage \in ActiveStages \ {"audit"} /\ ~jobs[j].disturbed
          /\ j \in Active(jobs[j].uld) /\ jobs[j].uld \in Ulds
      BY <1>6, Typed, JobsDomain, JobFields DEF Active
    <2>2. exposure'[jobs[j].uld] \in {exposure[jobs[j].uld], Absent}
      BY <1>6, <2>1
    <2>3. QED
      BY <2>1, <2>2 DEF FreshInv
  <1>7. QED
    BY <1>3, <1>4, <1>5, <1>6 DEF DateInv, FreshInv

\* A new job has read nothing.
LEMMA EnqueueDated ==
    ASSUME TypeOK, DateInv, FreshInv, NEW u \in Ulds, Enqueue(u),
           UNCHANGED <<deployment, held, answers, missing, exposure, twin, remote>>
    PROVE  DateInv' /\ FreshInv'
  <1>1. CASE jobs' = Append(jobs, NewJob(u, "waiting", 0))
    <2>1. NewJob(u, "waiting", 0) \in Job /\ jobs \in Seq(Job)
      BY NewJobType, Typed DEF JobStages, Jobs
    <2>2. /\ DOMAIN jobs = 1 .. Len(jobs) /\ Len(jobs) \in Nat
          /\ DOMAIN jobs' = 1 .. Len(jobs) + 1
          /\ \A i \in DOMAIN jobs : jobs'[i] = jobs[i]
          /\ jobs'[Len(jobs) + 1] = NewJob(u, "waiting", 0)
      BY <1>1, <2>1
    <2>3. /\ \A i \in DOMAIN jobs' : \/ i \in DOMAIN jobs /\ jobs'[i] = jobs[i]
                                     \/ jobs'[i] = NewJob(u, "waiting", 0)
      BY <2>2
    <2>4. LET new == NewJob(u, "waiting", 0) IN
          new.stage \notin ActiveStages /\ new.stage # "restore"
              /\ new.state = Absent /\ new.copy = Absent
      BY DEF NewJob, ActiveStages
    <2>5. JobsDated'
      BY <2>3, <2>4, AbsentDated DEF DateInv, JobsDated
    <2>6. FreshInv'
      BY <2>3, <2>4 DEF FreshInv
    <2>7. QED
      BY <2>5, <2>6 DEF DateInv, StatesDated, UndatedBreachWasRestored
  <1>2. CASE UNCHANGED queueVars
    BY <1>2 DEF queueVars, DateInv, StatesDated, JobsDated, UndatedBreachWasRestored, FreshInv
  <1>3. QED
    BY <1>1, <1>2 DEF Enqueue

LEMMA DateStep ==
    TypeOK /\ DateInv /\ FreshInv /\ [Next]_vars => (DateInv /\ FreshInv)'
  <1> SUFFICES ASSUME TypeOK, DateInv, FreshInv, [Next]_vars
               PROVE  DateInv' /\ FreshInv'
    OBVIOUS
  <1> USE DEF serverVars, redisVars, readingVars, queueVars, counters, ghostVars
  <1>1. \A m \in Readings : uldOf(m) \in Ulds /\ Body[m] \in Reading
    BY SentAssumption DEF uldOf, Reading
  <1>2. /\ exposure \in [Ulds -> Stored] /\ twin \in [Ulds -> Stored]
        /\ remote \in [Ulds -> Stored] /\ held \in [Readings -> Stored] /\ Jobs
    BY Typed
  <1>3. /\ \A m \in Readings : Dated(held[m])
        /\ ~deployment.remote =>
              \A u \in Ulds : Dated(exposure[u]) /\ Dated(twin[u]) /\ Dated(remote[u])
        /\ ~deployment.remote => answers = {}
    BY DEF DateInv, StatesDated
  <1>4. ASSUME NEW m \in Readings, ReadState(m) PROVE DateInv' /\ FreshInv'
    <2>1. Dated(held'[m])
      <3>1. exposure[uldOf(m)] \in Stored
        BY <1>1, <1>2
      <3>2. held'[m] = [exposure |-> computeExposureState(exposure[uldOf(m)].exposure, Body[m]),
                        temp |-> Temperature[m]]
        BY <1>2, <1>4 DEF ReadState
      <3>3. QED
        BY <1>1, <3>1, <3>2, ComputedType DEF Dated
    <2>2. \A n \in Readings : Dated(held'[n])
      BY <1>2, <1>3, <1>4, <2>1 DEF ReadState
    <2>3. QED
      BY <1>3, <1>4, <2>2, StatesKept DEF ReadState
  <1>5. ASSUME NEW m \in Readings, SaveState(m) PROVE DateInv' /\ FreshInv'
    <2>1. \A u \in Ulds : exposure'[u] = exposure[u] \/ (u = uldOf(m) /\ exposure'[u] = held[m])
      BY <1>1, <1>2, <1>5 DEF SaveState
    <2>2. /\ DOMAIN jobs' = DOMAIN jobs
          /\ \A j \in DOMAIN jobs :
                /\ jobs'[j].uld = jobs[j].uld /\ jobs'[j].stage = jobs[j].stage
                /\ jobs'[j].state = jobs[j].state /\ jobs'[j].copy = jobs[j].copy
                /\ jobs'[j].disturbed = (jobs[j].disturbed \/ j \in Active(uldOf(m)))
      BY <1>2, <1>5, DisturbedJobs DEF SaveState
    <2>3. QED
      BY <1>3, <1>5, <2>1, <2>2, StatesKept DEF SaveState
  <1>6. ASSUME NEW m \in Readings, UpsertTwin(m) PROVE DateInv' /\ FreshInv'
    <2>1. ~deployment.remote => remote' = remote
      BY <1>6 DEF UpsertTwin, Write
    <2>2. QED
      BY <1>3, <1>6, <2>1, StatesKept DEF UpsertTwin
  <1>7. ASSUME NEW m \in Readings, SetTwin(m) PROVE DateInv' /\ FreshInv'
    <2>1. \A u \in Ulds : twin'[u] = twin[u] \/ twin'[u] = held[m]
      BY <1>1, <1>2, <1>7 DEF SetTwin
    <2>2. \A n \in Readings : held'[n] = held[n] \/ held'[n] = Absent
      BY <1>2, <1>7 DEF SetTwin
    <2>3. \A n \in Readings : Dated(held'[n])
      BY <1>3, <2>2, AbsentDated
    <2>4. QED
      BY <1>3, <1>7, <2>1, <2>3, StatesKept DEF SetTwin
  <1>8. ASSUME NEW m \in Readings, EnqueueVerification(m) PROVE DateInv' /\ FreshInv'
    BY <1>1, <1>8, EnqueueDated DEF EnqueueVerification
  <1>9. ASSUME NEW m \in Readings, RejectReading(m) PROVE DateInv' /\ FreshInv'
    BY <1>3, <1>9, StatesKept DEF RejectReading
  <1>10. ASSUME NEW u \in Ulds, ReadStatus(u) PROVE DateInv' /\ FreshInv'
    BY <1>10, EnqueueDated DEF ReadStatus
  <1>11. ASSUME NEW u \in Ulds, Reset(u) PROVE DateInv' /\ FreshInv'
    <2>1. \A v \in Ulds : exposure'[v] \in {exposure[v], Absent}
      BY <1>2, <1>11 DEF Reset
    <2>2. QED
      BY <1>3, <1>11, <2>1, StatesKept DEF Reset
  <1>12. ASSUME NEW u \in Ulds, FetchAnswer(u) PROVE DateInv' /\ FreshInv'
    BY <1>3, <1>12, StatesKept DEF FetchAnswer
  <1>13. ASSUME NEW u \in Ulds, UpdateRemote(u) PROVE DateInv' /\ FreshInv'
    BY <1>3, <1>13, StatesKept DEF UpdateRemote
  <1>14. ASSUME NEW a \in answers, CacheAnswer(a) PROVE DateInv' /\ FreshInv'
    <2>1. deployment.remote
      BY <1>3
    <2>2. QED
      BY <1>3, <1>14, <2>1, StatesKept DEF CacheAnswer
  <1>15. ASSUME NEW j \in DOMAIN jobs, VerifyStep(j) PROVE DateInv' /\ FreshInv'
    BY <1>15, VerifyDated
  <1>16. CASE Disconnect
    BY <1>3, <1>16, StatesKept DEF Disconnect
  <1>17. CASE Crash
    <2>1. /\ UNCHANGED <<deployment, remote, missing>> /\ answers' = {}
          /\ \A m \in Readings : Dated(held'[m])
          /\ LoseRedis \/ KeepRedis
      BY <1>17, AbsentDated DEF Crash
    <2>2. /\ DOMAIN jobs' = DOMAIN jobs
          /\ \A j \in DOMAIN jobs :
                /\ jobs'[j].stage \notin ActiveStages /\ jobs'[j].stage # "restore"
                /\ jobs'[j].uld = jobs[j].uld
                /\ \/ jobs'[j].state = Absent /\ jobs'[j].copy = Absent
                   \/ jobs'[j].state = jobs[j].state /\ jobs'[j].copy = jobs[j].copy
      BY <2>1 DEF LoseRedis, KeepRedis, Forget, NewJob, AllActive, ActiveStages
    <2>3. \A u \in Ulds : \/ exposure'[u] = Absent /\ twin'[u] = Absent
                          \/ exposure'[u] = exposure[u] /\ twin'[u] = twin[u]
      BY <2>1 DEF LoseRedis, KeepRedis
    <2>4. StatesDated'
      BY <1>3, <2>1, <2>3, AbsentDated DEF StatesDated
    <2>5. JobsDated'
      BY <2>1, <2>2, AbsentDated DEF DateInv, JobsDated
    <2>6. UndatedBreachWasRestored'
      BY <2>1, <2>3, AbsentDated DEF DateInv, UndatedBreachWasRestored, Dated
    <2>7. FreshInv'
      BY <2>2 DEF FreshInv
    <2>8. QED
      BY <2>4, <2>5, <2>6, <2>7 DEF DateInv
  <1>18. CASE UNCHANGED vars
    BY <1>3, <1>18, StatesKept DEF vars
  <1>19. QED
    BY <1>4, <1>5, <1>6, <1>7, <1>8, <1>9, <1>10, <1>11, <1>12, <1>13, <1>14, <1>15, <1>16,
       <1>17, <1>18
    DEF Next, ReadingStep

\* The date of a breach is lost only with a state that was restored from the
\* server.
THEOREM DateSafety == Spec => []UndatedBreachWasRestored
  <1>1. Init => TypeOK /\ DateInv /\ FreshInv
    BY TypeInit, DateInit
  <1>2. TypeOK /\ DateInv /\ FreshInv /\ [Next]_vars => (TypeOK /\ DateInv /\ FreshInv)'
    BY TypeStep, DateStep
  <1>3. DateInv => UndatedBreachWasRestored
    BY DEF DateInv
  <1>4. QED
    BY <1>1, <1>2, <1>3, PTL DEF Spec

\* What RepairKeepsMinutes says of a step.
MinutesKept ==
    \A j \in DOMAIN jobs :
        LET u == jobs[j].uld IN
        /\ jobs[j].stage # "audit" /\ jobs'[j].stage = "audit"
        /\ exposure'[u].exposure.used < exposure[u].exposure.used
        => jobs[j].disturbed

\* Of the steps that store a state only a repair brings a job to its audit, and
\* it restores a state where there was none.
LEMMA MinutesStep ==
    TypeOK /\ DateInv /\ FreshInv /\ [Next]_vars => [MinutesKept]_vars
  <1> SUFFICES ASSUME TypeOK, DateInv, FreshInv, Next PROVE MinutesKept
    OBVIOUS
  <1> USE DEF serverVars, redisVars, readingVars, queueVars, counters, ghostVars
  <1>1. exposure \in [Ulds -> Stored] /\ Jobs
    BY Typed
  <1>2. ASSUME UNCHANGED exposure PROVE MinutesKept
    <2>1. \A u \in Ulds : exposure[u].exposure.used \in Nat
      BY <1>1, StoredType
    <2>2. \A j \in DOMAIN jobs : jobs[j].uld \in Ulds
      BY <1>1, JobsDomain, JobFields
    <2>3. QED
      BY <1>2, <2>1, <2>2 DEF MinutesKept
  <1>3. ASSUME \A j \in DOMAIN jobs : jobs'[j].stage = "audit" => jobs[j].stage = "audit"
        PROVE  MinutesKept
    BY <1>3 DEF MinutesKept
  <1>4. ASSUME NEW m \in Readings,
               ReadState(m) \/ ReadingStep(m) \/ RejectReading(m)
        PROVE  MinutesKept
    <2>1. CASE SaveState(m)
      BY <1>1, <1>3, <2>1, DisturbedJobs DEF SaveState
    <2>2. CASE ~SaveState(m)
      BY <1>2, <1>4, <2>2
      DEF ReadingStep, ReadState, UpsertTwin, SetTwin, EnqueueVerification, RejectReading
    <2>3. QED
      BY <2>1, <2>2
  <1>5. ASSUME NEW u \in Ulds,
               ReadStatus(u) \/ Reset(u) \/ FetchAnswer(u) \/ UpdateRemote(u)
        PROVE  MinutesKept
    <2>1. CASE Reset(u)
      BY <1>3, <2>1 DEF Reset
    <2>2. CASE ~Reset(u)
      BY <1>2, <1>5, <2>2 DEF ReadStatus, FetchAnswer, UpdateRemote
    <2>3. QED
      BY <2>1, <2>2
  <1>6. ASSUME NEW a \in answers, CacheAnswer(a) PROVE MinutesKept
    BY <1>2, <1>6 DEF CacheAnswer
  <1>7. ASSUME NEW i \in DOMAIN jobs, RestoreState(i) PROVE MinutesKept
    <2>1. PICK u \in Ulds : u = jobs[i].uld
      BY <1>1, JobsDomain, JobFields
    <2>2. /\ exposure' = [exposure EXCEPT ![u] = jobs[i].copy]
          /\ jobs' = [Disturb(u) EXCEPT ![i] = [jobs[i] EXCEPT !.stage = "audit"]]
          /\ jobs[i].stage = "restore" /\ jobs[i].copy \in Stored
      BY <1>1, <1>7, <2>1, JobsDomain, JobFields DEF RestoreState, At
    <2>3. \A j \in DOMAIN jobs : j # i => jobs'[j].stage = jobs[j].stage
      BY <1>1, <2>2, DisturbedJobs
    <2>4. exposure'[u].exposure.used \in Nat
      BY <1>1, <2>2, StoredType
    <2>5. ~jobs[i].disturbed => exposure[u] = Absent
      BY <2>1, <2>2 DEF DateInv, JobsDated, FreshInv, ActiveStages
    <2>6. ~jobs[i].disturbed => ~(exposure'[u].exposure.used < exposure[u].exposure.used)
      BY <2>4, <2>5, AbsentType
    <2>7. QED
      BY <2>1, <2>3, <2>6 DEF MinutesKept
  <1>8. ASSUME NEW j \in DOMAIN jobs, VerifyStep(j), ~RestoreState(j) PROVE MinutesKept
    <2>1. UNCHANGED exposure
      BY <1>8 DEF VerifyStep, VerifyGetState, ReadTwin, FetchRemote, FetchFails, CacheTwin,
                  PatchRemote, PatchTwin, LogVerification, FailAttempt
    <2>2. QED
      BY <1>2, <2>1
  <1>9. CASE Disconnect
    BY <1>2, <1>9 DEF Disconnect
  <1>10. CASE Crash
    <2>1. \A j \in DOMAIN jobs : jobs'[j].stage # "audit"
      BY <1>10 DEF Crash, LoseRedis, KeepRedis, Forget, NewJob, AllActive, ActiveStages
    <2>2. QED
      BY <1>3, <2>1
  <1>11. QED
    BY <1>4, <1>5, <1>6, <1>7, <1>8, <1>9, <1>10 DEF Next

\* A repair never takes minutes from a ULD, unless a state of the ULD was stored
\* since the verification read it.
THEOREM RepairSafety == Spec => RepairKeepsMinutes
  <1>1. Init => TypeOK /\ DateInv /\ FreshInv
    BY TypeInit, DateInit
  <1>2. TypeOK /\ DateInv /\ FreshInv /\ [Next]_vars => (TypeOK /\ DateInv /\ FreshInv)'
    BY TypeStep, DateStep
  <1>3. QED
    BY <1>1, <1>2, MinutesStep, PTL DEF Spec, RepairKeepsMinutes, MinutesKept

=============================================================================
