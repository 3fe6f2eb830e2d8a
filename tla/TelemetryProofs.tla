-------------------------- MODULE TelemetryProofs --------------------------
(***************************************************************************)
(* Exposure only accumulates, for any constants of TelemetryPipeline: a    *)
(* RECOVERY alert is stored only where nothing was counted, the minutes of *)
(* a ULD fall only when Redis is lost or a reading stores a state another  *)
(* one has overtaken, and they add up but for their rounding.              *)
(***************************************************************************)
EXTENDS TelemetryPipeline, TLAPS

AnyExposure == ExposureState \cup {NoExposure}

(***************************************************************************)
(* What one reading does to the state it is judged against.                *)
(***************************************************************************)
\* Rounding takes nothing away, adds or loses at most half a hundredth, and
\* leaves whole hundredths as they are.
LEMMA Rounding ==
    ASSUME NEW used \in Nat, NEW time \in Nat
    PROVE  LET rounded == toFixed(used, time) IN
           /\ rounded \in Nat /\ rounded >= used
           /\ Hundredth * rounded - (Hundredth * used + time) \in -Half .. Half
           /\ \A k \in Nat : time = Hundredth * k => rounded = used + k
  <1> DEFINE sum == Hundredth * used + time
  <1>1. sum \in Nat /\ sum >= 600 * used
    BY DEF Hundredth
  <1>2. toFixed(used, time) \in {sum \div 600, (sum + 300) \div 600}
        /\ (toFixed(used, time) = sum \div 600 => sum % 600 = 300
                                     \/ sum \div 600 = (sum + 300) \div 600)
    BY DEF toFixed, Hundredth, Half
  <1> HIDE DEF sum
  <1>3. /\ sum = 600 * (sum \div 600) + (sum % 600)
        /\ sum \div 600 \in Nat /\ sum % 600 \in 0 .. 599
    BY <1>1
  <1>4. /\ sum + 300 = 600 * ((sum + 300) \div 600) + ((sum + 300) % 600)
        /\ (sum + 300) \div 600 \in Nat /\ (sum + 300) % 600 \in 0 .. 599
    BY <1>1
  <1> DEFINE rounded == toFixed(used, time)
  <1>5. rounded \in Nat /\ 600 * rounded - sum \in -300 .. 300
    BY <1>1, <1>2, <1>3, <1>4
  <1> HIDE DEF rounded
  <1>6. rounded >= used
    BY <1>1, <1>5
  <1>7. ASSUME NEW k \in Nat, time = Hundredth * k PROVE rounded = used + k
    <2>1. sum = 600 * (used + k)
      BY <1>7 DEF sum, Hundredth
    <2>2. QED
      BY <1>5, <2>1
  <1>8. QED
    BY <1>5, <1>6, <1>7 DEF rounded, sum, Hundredth, Half

LEMMA IncrementType ==
    ASSUME NEW prior \in Nat \cup {NoTime}, NEW reading \in Reading
    PROVE  increment(prior, reading) \in Nat
  BY RuleAssumption
  DEF increment, elapsedTime, Capped, Minutes, Reading, NoTime

\* The status of a state is one its minutes account for, unless its rule allows
\* none and nothing was counted.
Accounted(state, u) ==
    /\ state.status = "BREACH" =>
          state.used > 100 * Allowable[u] \/ (Allowable[u] = 0 /\ state.used = 0)
    /\ state.status = "AT_RISK" =>
          Allowable[u] > 0 /\ state.used >= Allowable[u] * WarningPercent

LEMMA StatusIsAccounted ==
    ASSUME NEW used \in Nat, NEW hot \in BOOLEAN, NEW allowable \in Nat
    PROVE  LET judged == statusOf(used, hot, allowable) IN
           /\ judged \in Statuses
           /\ judged = "BREACH" => used > 100 * allowable \/ (allowable = 0 /\ used = 0)
           /\ judged = "AT_RISK" => allowable > 0 /\ used >= allowable * WarningPercent
           /\ used > 100 * allowable => judged = "BREACH"
           /\ allowable > 0 /\ used >= allowable * WarningPercent => judged # "OK"
  BY DEF statusOf, Statuses

LEMMA NewStateType ==
    ASSUME NEW before \in AnyExposure, NEW reading \in Reading
    PROVE  /\ computeExposureState(before, reading) \in ExposureState
           /\ computeExposureState(before, reading).used >= before.used
           /\ before.used \in Nat
  <1> DEFINE used == toFixed(before.used, increment(before.at, reading))
             next == statusOf(used, reading.hot, Allowable[reading.uld])
  <1>1. /\ before.at \in Nat \cup {NoTime} /\ before.used \in Nat
        /\ before.breached \in BOOLEAN
    <2>1. CASE before \in ExposureState
      BY <2>1 DEF ExposureState
    <2>2. CASE before = NoExposure
      BY <2>2 DEF NoExposure
    <2>3. QED
      BY <2>1, <2>2 DEF AnyExposure
  <1>2. used \in Nat /\ used >= before.used
    <2>1. increment(before.at, reading) \in Nat
      BY <1>1, IncrementType
    <2>2. QED
      BY <1>1, <2>1, Rounding
  <1>3. next \in Statuses
    BY DEF statusOf, Statuses
  <1>4. reading.at \in Nat
    BY DEF Reading
  <1>5. computeExposureState(before, reading) =
            [used |-> used, at |-> reading.at, status |-> next,
             breached |-> before.breached \/ next = "BREACH"]
    BY DEF computeExposureState
  <1> HIDE DEF used, next
  <1>6. QED
    BY <1>1, <1>2, <1>3, <1>4, <1>5 DEF ExposureState

\* Only a breach that nothing was counted for may be followed by OK.
Recovers(before, after, u) ==
    /\ Allowable[u] = 0
    /\ before.status = "BREACH" /\ after.used = 0

LEMMA StatusRarelyImproves ==
    ASSUME NEW before \in AnyExposure, NEW reading \in Reading,
           Accounted(before, reading.uld)
    PROVE  LET after == computeExposureState(before, reading) IN
           /\ Accounted(after, reading.uld)
           /\ before.status # "OK" /\ after.status = "OK" =>
                 Recovers(before, after, reading.uld)
  <1> DEFINE allowable == Allowable[reading.uld]
             after == computeExposureState(before, reading)
             used == after.used
  <1>1. /\ before.used \in Nat /\ before.status \in Statuses
    BY DEF AnyExposure, ExposureState, NoExposure, Statuses
  <1>2. used \in Nat /\ used >= before.used
    BY NewStateType DEF ExposureState
  <1>3. allowable \in Nat /\ reading.hot \in BOOLEAN /\ WarningPercent \in Nat
    BY RuleAssumption DEF Reading
  <1>4. after.status = statusOf(used, reading.hot, allowable)
    BY DEF computeExposureState
  <1> HIDE DEF allowable, after, used
  <1>5. /\ after.status = "BREACH" => used > 100 * allowable \/ (allowable = 0 /\ used = 0)
        /\ after.status = "AT_RISK" => allowable > 0 /\ used >= allowable * WarningPercent
        /\ used > 100 * allowable => after.status = "BREACH"
        /\ allowable > 0 /\ used >= allowable * WarningPercent => after.status # "OK"
    BY <1>2, <1>3, <1>4, StatusIsAccounted
  <1>6. Accounted(after, reading.uld)
    BY <1>5 DEF Accounted, allowable, used
  <1>7. ASSUME before.status = "BREACH", after.status = "OK"
        PROVE  Recovers(before, after, reading.uld)
    <2>1. before.used > 100 * allowable \/ (allowable = 0 /\ before.used = 0)
      BY <1>7 DEF Accounted, allowable
    <2>2. allowable = 0 /\ used = 0
      BY <1>1, <1>2, <1>3, <1>5, <1>7, <2>1
    <2>3. QED
      BY <1>7, <2>2 DEF Recovers, allowable, used
  <1>8. ASSUME before.status = "AT_RISK" PROVE after.status # "OK"
    <2> DEFINE threshold == allowable * WarningPercent
    <2>1. threshold \in Int
      BY <1>3
    <2>2. allowable > 0 /\ before.used >= threshold
      BY <1>8 DEF Accounted, allowable
    <2> HIDE DEF threshold
    <2>3. used >= threshold
      BY <1>1, <1>2, <2>1, <2>2
    <2>4. QED
      BY <2>2, <2>3, <1>5 DEF threshold
  <1>9. QED
    BY <1>1, <1>6, <1>7, <1>8 DEF Statuses, after
-----------------------------------------------------------------------------
(***************************************************************************)
(* Type correctness.                                                       *)
(***************************************************************************)
LEMMA AlertType ==
    ASSUME NEW after \in Statuses PROVE buildAlert(after) \in AlertKinds
  BY DEF buildAlert, AlertKinds, Statuses

LEMMA AnyExposureType ==
    ASSUME NEW state \in AnyExposure
    PROVE  state.used \in Nat /\ state.status \in Statuses
  <1>1. CASE state \in ExposureState
    BY <1>1 DEF ExposureState
  <1>2. CASE state = NoExposure
    BY <1>2 DEF NoExposure, Statuses
  <1>3. QED
    BY <1>1, <1>2 DEF AnyExposure

LEMMA TypeInit == Init => TypeOK
  <1> SUFFICES ASSUME Init PROVE TypeOK
    OBVIOUS
  <1>1. body \in [Readings -> Reading]
    BY ReadingsAssumption DEF Init
  <1>2. QED
    BY <1>1 DEF Init, TypeOK

LEMMA RedisLossType ==
    ASSUME LoseRedis
    PROVE  /\ exposure' \in [Ulds -> ExposureState \cup {NoExposure}]
           /\ twin' \in [Ulds -> ExposureState \cup {NoExposure}]
           /\ alerts' \subseteq Readings \X AlertKinds
           /\ responses' \subseteq Ulds
           /\ jobs' \subseteq Readings
           /\ deadLetters' \subseteq Readings
           /\ saved' \in [Ulds -> Seq(Readings)]
  BY DEF LoseRedis

LEMMA TypeStep == TypeOK /\ [Next]_vars => TypeOK'
  <1> SUFFICES ASSUME TypeOK, [Next]_vars PROVE TypeOK'
    OBVIOUS
  <1> USE DEF TypeOK, Advance, Stages, InFlight, redisVars, ghostVars
  <1>1. ASSUME NEW m \in Readings, Arrive(m) PROVE TypeOK'
    <2>1. PICK b \in Body[m] : body' = [body EXCEPT ![m] = b]
      BY <1>1 DEF Arrive
    <2>2. b \in Reading
      BY <2>1, ReadingsAssumption
    <2>3. QED
      BY <1>1, <2>1, <2>2 DEF Arrive
  <1>2. ASSUME NEW m \in Readings, GetState(m) PROVE TypeOK'
    <2>1. uldOf(m) \in Ulds
      BY DEF uldOf, Reading
    <2>2. computeExposureState(exposure[uldOf(m)], body[m]) \in ExposureState
      BY <2>1, NewStateType DEF AnyExposure
    <2>3. QED
      BY <1>2, <2>1, <2>2 DEF GetState
  <1>3. ASSUME NEW m \in Readings, SaveState(m) PROVE TypeOK'
    <2>1. uldOf(m) \in Ulds
      BY DEF uldOf, Reading
    <2>2. PICK other \in BOOLEAN :
              respond' = [respond EXCEPT ![m] = shouldCreateOperationalResponse(m, other)]
      BY <1>3 DEF SaveState
    <2>3. shouldCreateOperationalResponse(m, other) \in BOOLEAN
      BY Zenon DEF shouldCreateOperationalResponse
    <2>4. respond' \in [Readings -> BOOLEAN]
      BY <2>2, <2>3
    <2>5. Append(saved[uldOf(m)], m) \in Seq(Readings)
      BY <2>1
    <2>6. saved' \in [Ulds -> Seq(Readings)]
      BY <1>3, <2>1, <2>5 DEF SaveState
    <2>7. QED
      BY <1>3, <2>1, <2>4, <2>6 DEF SaveState
  <1>4. ASSUME NEW m \in Readings, Orchestrate(m) PROVE TypeOK'
    BY <1>4 DEF Orchestrate, uldOf, Reading
  <1>5. ASSUME NEW m \in Readings, UpsertTwin(m) PROVE TypeOK'
    BY <1>5 DEF UpsertTwin, uldOf, Reading
  <1>6. ASSUME NEW m \in Readings, EnqueueVerification(m) PROVE TypeOK'
    BY <1>6 DEF EnqueueVerification
  <1>7. ASSUME NEW m \in Readings, LogTelemetry(m) PROVE TypeOK'
    BY <1>7 DEF LogTelemetry
  <1>8. ASSUME NEW m \in Readings, AppendAlert(m) PROVE TypeOK'
    <2>1. buildAlert(status[m].status) \in AlertKinds
      BY AnyExposureType, AlertType DEF AnyExposure
    <2>2. QED
      BY <1>8, <2>1 DEF AppendAlert
  <1>9. ASSUME NEW m \in Readings, Notify(m) PROVE TypeOK'
    BY <1>9 DEF Notify
  <1>10. ASSUME NEW m \in Readings, DeadLetter(m) PROVE TypeOK'
    BY <1>10 DEF DeadLetter
  <1>11. ASSUME NEW m \in Readings, FailMqtt(m) PROVE TypeOK'
    BY <1>11 DEF FailMqtt, Rejected, PartialResponse, uldOf, Reading
  <1>12. ASSUME NEW m \in Readings, FailHttp(m) PROVE TypeOK'
    <2>1. CASE LoseRedis
      BY <1>12, <2>1, RedisLossType DEF FailHttp, Rejected, Restart
    <2>2. CASE /\ PartialResponse(m)
               /\ UNCHANGED <<exposure, alerts, twin, jobs, deadLetters, saved>>
      BY <1>12, <2>2 DEF FailHttp, Rejected, Restart, PartialResponse, uldOf, Reading
    <2>3. QED
      BY <1>12, <2>1, <2>2 DEF FailHttp
  <1>13. CASE Crash
    <2>1. CASE LoseRedis
      BY <1>13, <2>1, RedisLossType DEF Crash, Restart
    <2>2. CASE UNCHANGED <<redisVars, saved>>
      BY <1>13, <2>2 DEF Crash, Restart
    <2>3. QED
      BY <1>13, <2>1, <2>2 DEF Crash
  <1>14. CASE Finished \/ UNCHANGED vars
    BY <1>14 DEF Finished, vars, readingVars
  <1>15. QED
    BY <1>1, <1>2, <1>3, <1>4, <1>5, <1>6, <1>7, <1>8, <1>9, <1>10, <1>11, <1>12,
       <1>13, <1>14
    DEF Next, Step

\* The type invariant of the pipeline: minutes stay natural numbers, and every
\* record keeps its shape.
THEOREM ReadingsTypeCorrect == Spec => []TypeOK
  BY TypeInit, TypeStep, PTL DEF Spec
-----------------------------------------------------------------------------
(***************************************************************************)
(* Recoveries.                                                             *)
(***************************************************************************)
\* Every stored or computed status is accounted for by its minutes, and a
\* judgement improves on the status it started from only where nothing was
\* counted; an alert is about a reading that was judged, on its edge.
Improves(m) == Recovers(previous[m], status[m], uldOf(m))

SoundInv ==
    /\ \A u \in Ulds : Accounted(exposure[u], u)
    /\ \A m \in Readings :
          /\ pc[m] \in {"idle", "read"} => previous[m].status = "OK"
          /\ pc[m] = "save" => Accounted(status[m], uldOf(m))
          /\ previous[m].status # "OK" /\ status[m].status = "OK" => Improves(m)
          /\ pc[m] = "alert" => shouldEmitAlert(previous[m].status, status[m].status)
    /\ \A a \in alerts :
          /\ pc[a[1]] \notin {"idle", "read"}
          /\ a[2] = "RECOVERY" => Improves(a[1])

LEMMA NoExposureAccounted == \A u \in Ulds : Accounted(NoExposure, u)
  BY DEF Accounted, NoExposure

LEMMA SoundInit == Init => SoundInv
  <1>1. SUFFICES ASSUME Init PROVE SoundInv
    OBVIOUS
  <1>2. /\ \A m \in Readings : pc[m] = "idle" /\ previous[m].status = "OK"
        /\ \A u \in Ulds : exposure[u] = NoExposure
        /\ alerts = {}
    BY <1>1 DEF Init, NoExposure
  <1>3. QED
    BY <1>2, NoExposureAccounted DEF SoundInv

\* A restart leaves no reading in flight and no new alert.
LEMMA SoundRestart ==
    ASSUME TypeOK, SoundInv, Restart,
           LoseRedis \/ (exposure' = exposure /\ alerts' = alerts)
    PROVE  SoundInv'
  <1>1. \A m \in Readings :
            pc'[m] \notin Stages /\ (pc'[m] = "idle" => pc[m] = "idle")
    BY DEF Restart, InFlight, TypeOK, Stages
  <1>2. \A u \in Ulds : Accounted(exposure'[u], u)
    <2>1. CASE LoseRedis
      BY <2>1, NoExposureAccounted DEF LoseRedis
    <2>2. CASE exposure' = exposure
      BY <2>2 DEF SoundInv
    <2>3. QED
      BY <2>1, <2>2
  <1>3. alerts' \subseteq alerts /\ \A a \in alerts : a[1] \in Readings
    BY DEF LoseRedis, TypeOK
  <1>4. UNCHANGED <<previous, status, body>>
    BY DEF Restart
  <1>5. \A m \in Readings : Improves(m)' = Improves(m)
    BY <1>4 DEF Improves, uldOf, Recovers
  <1>6. QED
    BY <1>1, <1>2, <1>3, <1>4, <1>5 DEF SoundInv, Stages

\* A step that judges no reading, stores no state and adds no alert.
LEMMA SoundQuiet ==
    ASSUME TypeOK, SoundInv,
           UNCHANGED <<body, previous, status, alerts>>,
           \A u \in Ulds : exposure'[u] = exposure[u] \/ Accounted(exposure'[u], u),
           \A m \in Readings :
              /\ pc'[m] = "save" => pc[m] = "save"
              /\ pc'[m] \in {"idle", "read"} => pc[m] \in {"idle", "read"}
              /\ pc'[m] = "alert" => pc[m] = "alert"
                    \/ shouldEmitAlert(previous[m].status, status[m].status)
    PROVE  SoundInv'
  <1>1. \A m \in Readings : Improves(m)' = Improves(m) /\ uldOf(m)' = uldOf(m)
    BY DEF Improves, uldOf, Recovers
  <1>2. \A u \in Ulds : Accounted(exposure'[u], u)
    BY DEF SoundInv
  <1>3. \A a \in alerts : a[1] \in Readings
    BY DEF TypeOK
  <1>4. QED
    BY <1>1, <1>2, <1>3 DEF SoundInv

LEMMA SoundStep == TypeOK /\ SoundInv /\ [Next]_vars => SoundInv'
  <1> SUFFICES ASSUME TypeOK, SoundInv, [Next]_vars PROVE SoundInv'
    OBVIOUS
  <1> USE DEF Advance, redisVars, ghostVars
  <1>1. ASSUME NEW m \in Readings, Arrive(m) PROVE SoundInv'
    <2>1. /\ pc[m] = "idle" /\ pc' = [pc EXCEPT ![m] = "read"]
          /\ UNCHANGED <<previous, status, exposure, alerts>>
          /\ \A n \in Readings \ {m} : body'[n] = body[n]
          /\ \A a \in alerts : a[1] \in Readings
      BY <1>1 DEF Arrive, TypeOK
    <2>2. /\ previous[m].status = "OK" /\ pc'[m] = "read" /\ \A a \in alerts : a[1] # m
          /\ \A n \in Readings \ {m} : pc'[n] = pc[n] /\ uldOf(n)' = uldOf(n)
      BY <2>1 DEF SoundInv, TypeOK, uldOf
    <2>3. \A n \in Readings \ {m} : Improves(n)' <=> Improves(n)
      BY <2>1, <2>2 DEF Improves, Recovers
    <2>4. QED
      BY <2>1, <2>2, <2>3 DEF SoundInv
  <1>2. ASSUME NEW m \in Readings, GetState(m) PROVE SoundInv'
    <2> DEFINE before == exposure[uldOf(m)]
               after == computeExposureState(before, body[m])
    <2>1. uldOf(m) \in Ulds /\ body[m] \in Reading /\ before \in AnyExposure
      BY DEF TypeOK, uldOf, Reading, AnyExposure
    <2>2. Accounted(before, body[m].uld)
      BY <2>1 DEF SoundInv, uldOf
    <2>3. /\ Accounted(after, uldOf(m))
          /\ before.status # "OK" /\ after.status = "OK" => Recovers(before, after, uldOf(m))
      BY <2>1, <2>2, StatusRarelyImproves DEF uldOf
    <2>4. /\ pc[m] = "read"
          /\ pc' = [pc EXCEPT ![m] = "save"] /\ UNCHANGED <<body, exposure, alerts>>
          /\ previous' = [previous EXCEPT ![m] = before]
          /\ status' = [status EXCEPT ![m] = after]
      BY <1>2 DEF GetState
    <2> HIDE DEF before, after
    <2>5. /\ \A n \in Readings : uldOf(n)' = uldOf(n)
          /\ \A a \in alerts : a[1] \in Readings /\ a[1] # m
      BY <2>4 DEF uldOf, TypeOK, SoundInv
    <2>6. /\ pc'[m] = "save" /\ previous'[m] = before /\ status'[m] = after
          /\ \A n \in Readings \ {m} :
                /\ pc'[n] = pc[n] /\ previous'[n] = previous[n] /\ status'[n] = status[n]
      BY <2>4 DEF TypeOK
    <2>7. /\ Improves(m)' <=> Recovers(before, after, uldOf(m))
          /\ \A n \in Readings \ {m} : Improves(n)' <=> Improves(n)
      BY <2>5, <2>6 DEF Improves, Recovers
    <2>8. ASSUME NEW n \in Readings
          PROVE  /\ pc'[n] \in {"idle", "read"} => previous'[n].status = "OK"
                 /\ pc'[n] = "save" => Accounted(status'[n], uldOf(n)')
                 /\ previous'[n].status # "OK" /\ status'[n].status = "OK" => Improves(n)'
                 /\ pc'[n] = "alert" =>
                        shouldEmitAlert(previous'[n].status, status'[n].status)
      <3>1. CASE n = m
        BY <2>3, <2>5, <2>6, <2>7, <3>1
      <3>2. CASE n # m
        BY <2>5, <2>6, <2>7, <3>2 DEF SoundInv
      <3>3. QED
        BY <3>1, <3>2
    <2>9. \A a \in alerts : pc'[a[1]] \notin {"idle", "read"}
                             /\ (a[2] = "RECOVERY" => Improves(a[1])')
      BY <2>5, <2>6, <2>7 DEF SoundInv
    <2>10. QED
      BY <2>4, <2>8, <2>9 DEF SoundInv
  <1>3. ASSUME NEW m \in Readings, SaveState(m) PROVE SoundInv'
    <2>1. Accounted(status[m], uldOf(m))
      BY <1>3 DEF SaveState, SoundInv
    <2>2. \A u \in Ulds : exposure'[u] = exposure[u] \/ Accounted(exposure'[u], u)
      BY <1>3, <2>1 DEF SaveState, TypeOK
    <2>3. QED
      BY <1>3, <2>2, SoundQuiet DEF SaveState, TypeOK
  <1>4. ASSUME NEW m \in Readings,
               \/ Orchestrate(m) \/ UpsertTwin(m) \/ EnqueueVerification(m)
               \/ LogTelemetry(m) \/ Notify(m) \/ DeadLetter(m) \/ FailMqtt(m)
        PROVE  SoundInv'
    BY <1>4, SoundQuiet
    DEF Orchestrate, UpsertTwin, EnqueueVerification, LogTelemetry, Notify, DeadLetter,
        FailMqtt, TypeOK
  <1>5. ASSUME NEW m \in Readings, AppendAlert(m) PROVE SoundInv'
    <2> DEFINE alert == <<m, buildAlert(status[m].status)>>
    <2>1. status[m].status \in Statuses
      BY AnyExposureType DEF TypeOK, AnyExposure
    <2>2. buildAlert(status[m].status) = "RECOVERY" => status[m].status = "OK"
      BY <2>1 DEF buildAlert, Statuses
    <2>3. buildAlert(status[m].status) = "RECOVERY" => Improves(m)
      <3>1. shouldEmitAlert(previous[m].status, status[m].status)
        BY <1>5 DEF AppendAlert, SoundInv
      <3>2. QED
        BY <2>2, <3>1 DEF shouldEmitAlert, SoundInv
    <2>4. /\ alerts' = alerts \cup {alert} /\ pc' = [pc EXCEPT ![m] = "notify"]
          /\ UNCHANGED <<body, previous, status, exposure>>
          /\ \A a \in alerts : a[1] \in Readings
      BY <1>5 DEF AppendAlert, TypeOK
    <2>5. \A n \in Readings : Improves(n)' = Improves(n) /\ uldOf(n)' = uldOf(n)
      BY <2>4 DEF Improves, uldOf, Recovers
    <2>6. alert[1] = m /\ alert[2] = buildAlert(status[m].status)
      OBVIOUS
    <2> HIDE DEF alert
    <2>7. ASSUME NEW a \in alerts'
          PROVE  /\ pc'[a[1]] \notin {"idle", "read"}
                 /\ a[2] = "RECOVERY" => Improves(a[1])'
      <3>1. CASE a = alert
        BY <2>3, <2>4, <2>5, <2>6, <3>1 DEF TypeOK
      <3>2. CASE a \in alerts
        BY <2>4, <2>5, <3>2 DEF SoundInv, TypeOK
      <3>3. QED
        BY <2>4, <3>1, <3>2
    <2>8. QED
      BY <2>4, <2>5, <2>7 DEF SoundInv, TypeOK
  <1>6. ASSUME NEW m \in Readings, FailHttp(m) PROVE SoundInv'
    BY <1>6, SoundRestart DEF FailHttp
  <1>7. CASE Crash
    BY <1>7, SoundRestart DEF Crash
  <1>8. CASE Finished \/ UNCHANGED vars
    BY <1>8, SoundQuiet DEF Finished, vars, readingVars
  <1>9. QED
    BY <1>1, <1>2, <1>3, <1>4, <1>5, <1>6, <1>7, <1>8
    DEF Next, Step

\* A ULD that came at risk or in breach is judged OK again only if nothing was
\* ever counted for it, under a rule that allows no minute: for any other the
\* RECOVERY branch of the alerts is dead code.
THEOREM NoOtherRecovery == Spec => []RecoveryNeedsNoMinutes
  <1>1. Init => TypeOK /\ SoundInv
    BY TypeInit, SoundInit
  <1>2. TypeOK /\ SoundInv /\ [Next]_vars => (TypeOK /\ SoundInv)'
    BY TypeStep, SoundStep
  <1>3. SoundInv => RecoveryNeedsNoMinutes
    BY DEF SoundInv, Improves, Recovers, RecoveryNeedsNoMinutes
  <1>4. QED
    BY <1>1, <1>2, <1>3, PTL DEF Spec
-----------------------------------------------------------------------------
(***************************************************************************)
(* Lost minutes.  A reading about to store its state was judged against    *)
(* the state stored now, unless another one has stored its own meanwhile.  *)
(***************************************************************************)
InFlightOverlap == \A m, n \in InFlight : m # n => <<m, n>> \in overlap

Overtaken(m) == \E n \in SavedFor(uldOf(m)) : <<m, n>> \in overlap

JudgedOnStored ==
    \A m \in Readings : pc[m] = "save" =>
        /\ status[m] = computeExposureState(previous[m], body[m])
        /\ exposure[uldOf(m)] = previous[m] \/ Overtaken(m)

OvertakeInv == InFlightOverlap /\ JudgedOnStored

LEMMA OvertakeInit == Init => OvertakeInv
  BY DEF Init, OvertakeInv, InFlightOverlap, InFlight, JudgedOnStored, Stages

LEMMA AppendSaved ==
    ASSUME NEW s \in Seq(Readings), NEW m \in Readings
    PROVE  /\ {Append(s, m)[i] : i \in DOMAIN Append(s, m)}
                  = {s[i] : i \in DOMAIN s} \cup {m}
           /\ {s[i] : i \in DOMAIN s} \subseteq Readings
  <1>1. /\ DOMAIN Append(s, m) = 1 .. (Len(s) + 1)
        /\ DOMAIN s = 1 .. Len(s) /\ Len(s) \in Nat
        /\ \A i \in 1 .. Len(s) : Append(s, m)[i] = s[i] /\ s[i] \in Readings
        /\ Append(s, m)[Len(s) + 1] = m
    OBVIOUS
  <1>2. ASSUME NEW x \in {Append(s, m)[i] : i \in DOMAIN Append(s, m)}
        PROVE  x \in {s[i] : i \in DOMAIN s} \cup {m}
    BY <1>1
  <1>3. ASSUME NEW x \in {s[i] : i \in DOMAIN s}
        PROVE  x \in {Append(s, m)[i] : i \in DOMAIN Append(s, m)} /\ x \in Readings
    BY <1>1
  <1>4. m \in {Append(s, m)[i] : i \in DOMAIN Append(s, m)}
    BY <1>1
  <1>5. QED
    BY <1>2, <1>3, <1>4

\* A step that starts no reading, judges none and stores no state.
Quiet ==
    /\ UNCHANGED <<body, previous, status, exposure, saved, overlap>>
    /\ \A m \in Readings :
          /\ pc'[m] \in Stages => pc[m] \in Stages
          /\ pc'[m] = "save" => pc[m] = "save"

LEMMA OvertakenKept ==
    ASSUME NEW n \in Readings, Overtaken(n), UNCHANGED saved, body'[n] = body[n],
           overlap \subseteq overlap'
    PROVE  Overtaken(n)'
  <1>1. PICK k \in SavedFor(uldOf(n)) : <<n, k>> \in overlap
    BY DEF Overtaken
  <1>2. uldOf(n)' = uldOf(n)
    BY DEF uldOf
  <1>3. SavedFor(uldOf(n))' = SavedFor(uldOf(n))
    BY <1>2 DEF SavedFor
  <1>4. QED
    BY <1>1, <1>3 DEF Overtaken

LEMMA OvertakeQuiet == OvertakeInv /\ Quiet => OvertakeInv'
  <1> SUFFICES ASSUME OvertakeInv, Quiet PROVE OvertakeInv'
    OBVIOUS
  <1>1. InFlightOverlap'
    BY DEF Quiet, OvertakeInv, InFlightOverlap, InFlight
  <1>2. JudgedOnStored'
    BY OvertakenKept DEF Quiet, OvertakeInv, JudgedOnStored, uldOf
  <1>3. QED
    BY <1>1, <1>2 DEF OvertakeInv

LEMMA OvertakeRestart ==
    ASSUME TypeOK, Restart PROVE OvertakeInv'
  <1>1. \A m \in Readings : pc'[m] \notin Stages
    BY DEF Restart, InFlight, TypeOK, Stages
  <1>2. QED
    BY <1>1 DEF OvertakeInv, InFlightOverlap, InFlight, JudgedOnStored, Stages

LEMMA OvertakeStep == TypeOK /\ OvertakeInv /\ [Next]_vars => OvertakeInv'
  <1> SUFFICES ASSUME TypeOK, OvertakeInv, [Next]_vars PROVE OvertakeInv'
    OBVIOUS
  <1> USE DEF Advance
  <1>1. ASSUME NEW m \in Readings, Arrive(m) PROVE OvertakeInv'
    <2>1. /\ pc[m] = "idle" /\ pc' = [pc EXCEPT ![m] = "read"]
          /\ overlap' = overlap \cup ({m} \X InFlight) \cup (InFlight \X {m})
          /\ UNCHANGED <<previous, status, exposure, saved>>
          /\ \A n \in Readings \ {m} : body'[n] = body[n]
      BY <1>1 DEF Arrive, redisVars, TypeOK
    <2>2. InFlight' = InFlight \cup {m} /\ m \notin InFlight
      BY <2>1 DEF InFlight, TypeOK, Stages
    <2>3. InFlightOverlap'
      BY <2>1, <2>2 DEF OvertakeInv, InFlightOverlap
    <2>4. ASSUME NEW n \in Readings, pc'[n] = "save"
          PROVE  /\ n # m /\ pc[n] = "save" /\ uldOf(n)' = uldOf(n)
                 /\ Overtaken(n) => Overtaken(n)'
      <3>1. n # m /\ pc[n] = "save" /\ body'[n] = body[n]
        BY <2>1, <2>4 DEF TypeOK
      <3>2. QED
        BY <2>1, <3>1, OvertakenKept DEF uldOf
    <2>5. JudgedOnStored'
      BY <2>1, <2>4 DEF OvertakeInv, JudgedOnStored, uldOf
    <2>6. QED
      BY <2>3, <2>5 DEF OvertakeInv
  <1>2. ASSUME NEW m \in Readings, GetState(m) PROVE OvertakeInv'
    <2>1. /\ pc[m] = "read" /\ pc' = [pc EXCEPT ![m] = "save"]
          /\ previous' = [previous EXCEPT ![m] = exposure[uldOf(m)]]
          /\ status' = [status EXCEPT ![m] = computeExposureState(exposure[uldOf(m)], body[m])]
          /\ UNCHANGED <<body, exposure, saved, overlap>>
      BY <1>2 DEF GetState, redisVars, ghostVars
    <2>2. InFlight' = InFlight
      BY <2>1 DEF InFlight, TypeOK, Stages
    <2>3. InFlightOverlap'
      BY <2>1, <2>2 DEF OvertakeInv, InFlightOverlap
    <2>4. JudgedOnStored'
      BY <2>1 DEF OvertakeInv, JudgedOnStored, uldOf, Overtaken, SavedFor, TypeOK
    <2>5. QED
      BY <2>3, <2>4 DEF OvertakeInv
  <1>3. ASSUME NEW m \in Readings, SaveState(m) PROVE OvertakeInv'
    <2>1. /\ pc[m] = "save" /\ pc' = [pc EXCEPT ![m] = "respond"]
          /\ exposure' = [exposure EXCEPT ![uldOf(m)] = status[m]]
          /\ saved' = [saved EXCEPT ![uldOf(m)] = Append(saved[uldOf(m)], m)]
          /\ UNCHANGED <<body, previous, status, overlap>>
      BY <1>3 DEF SaveState
    <2>2. InFlight' = InFlight
      BY <2>1 DEF InFlight, TypeOK, Stages
    <2>3. InFlightOverlap'
      BY <2>1, <2>2 DEF OvertakeInv, InFlightOverlap
    <2>4. ASSUME NEW n \in Readings, pc'[n] = "save"
          PROVE  /\ status'[n] = computeExposureState(previous'[n], body'[n])
                 /\ exposure'[uldOf(n)'] = previous'[n] \/ Overtaken(n)'
      <3>1. n # m /\ pc[n] = "save" /\ uldOf(n)' = uldOf(n)
        BY <2>1, <2>4 DEF TypeOK, uldOf
      <3>2. /\ uldOf(n) \in Ulds /\ uldOf(m) \in Ulds
            /\ saved[uldOf(m)] \in Seq(Readings)
        BY DEF TypeOK, uldOf, Reading
      <3>3. /\ status[n] = computeExposureState(previous[n], body[n])
            /\ exposure[uldOf(n)] = previous[n] \/ Overtaken(n)
        BY <3>1 DEF OvertakeInv, JudgedOnStored
      <3>4. CASE uldOf(n) = uldOf(m)
        <4>1. <<n, m>> \in overlap
          BY <2>1, <3>1 DEF OvertakeInv, InFlightOverlap, InFlight, Stages
        <4>2. saved'[uldOf(n)] = Append(saved[uldOf(m)], m)
          BY <2>1, <3>2, <3>4 DEF TypeOK
        <4>3. m \in SavedFor(uldOf(n))'
          BY <3>1, <3>2, <4>2, AppendSaved DEF SavedFor
        <4>4. QED
          BY <2>1, <3>1, <3>3, <4>1, <4>3 DEF Overtaken
      <3>5. CASE uldOf(n) # uldOf(m)
        <4>1. /\ saved'[uldOf(n)] = saved[uldOf(n)]
              /\ exposure'[uldOf(n)] = exposure[uldOf(n)]
          BY <2>1, <3>2, <3>5 DEF TypeOK
        <4>2. QED
          BY <2>1, <3>1, <3>3, <4>1 DEF Overtaken, SavedFor
      <3>6. QED
        BY <3>4, <3>5
    <2>5. QED
      BY <2>3, <2>4 DEF OvertakeInv, JudgedOnStored
  <1>4. ASSUME NEW m \in Readings,
               \/ Orchestrate(m) \/ UpsertTwin(m) \/ EnqueueVerification(m)
               \/ LogTelemetry(m) \/ AppendAlert(m) \/ Notify(m)
               \/ DeadLetter(m) \/ FailMqtt(m)
        PROVE  OvertakeInv'
    <2>1. Quiet
      BY <1>4
      DEF Quiet, TypeOK, Stages, redisVars, ghostVars, Orchestrate, UpsertTwin,
          EnqueueVerification, LogTelemetry, AppendAlert, Notify, DeadLetter, FailMqtt,
          Rejected, CanBeRejected
    <2>2. QED
      BY <2>1, OvertakeQuiet
  <1>5. ASSUME NEW m \in Readings, FailHttp(m) PROVE OvertakeInv'
    BY <1>5, OvertakeRestart DEF FailHttp
  <1>6. CASE Crash
    BY <1>6, OvertakeRestart DEF Crash
  <1>7. CASE Finished \/ UNCHANGED vars
    BY <1>7, OvertakeQuiet DEF Finished, vars, readingVars, redisVars, ghostVars, Quiet
  <1>8. QED
    BY <1>1, <1>2, <1>3, <1>4, <1>5, <1>6, <1>7 DEF Next, Step

LEMMA MonotoneStep ==
    ASSUME TypeOK, OvertakeInv, [Next]_vars,
           NEW u \in Ulds, exposure'[u].used < exposure[u].used
    PROVE  \/ exposure'[u] = NoExposure
           \/ \E m \in Readings, n \in SavedFor(u) :
                 saved'[u] = Append(saved[u], m) /\ <<m, n>> \in overlap
  <1>1. exposure[u].used \in Nat
    BY AnyExposureType DEF TypeOK, AnyExposure
  <1>2. exposure' # exposure
    BY <1>1
  <1>3. ASSUME NEW m \in Readings, SaveState(m)
        PROVE  \E n \in SavedFor(u) :
                  saved'[u] = Append(saved[u], m) /\ <<m, n>> \in overlap
    <2>1. /\ pc[m] = "save"
          /\ exposure' = [exposure EXCEPT ![uldOf(m)] = status[m]]
          /\ saved' = [saved EXCEPT ![uldOf(m)] = Append(saved[uldOf(m)], m)]
      BY <1>3 DEF SaveState, Advance
    <2>2. u = uldOf(m)
      BY <1>1, <2>1 DEF TypeOK
    <2>3. status[m].used >= previous[m].used /\ previous[m].used \in Nat
      BY <2>1, NewStateType DEF OvertakeInv, JudgedOnStored, TypeOK, AnyExposure
    <2>4. exposure'[u] = status[m] /\ status[m].used \in Nat
      BY <2>1, <2>2, AnyExposureType DEF TypeOK, AnyExposure
    <2>5. exposure[u] # previous[m]
      BY <1>1, <2>3, <2>4
    <2>6. Overtaken(m)
      BY <2>1, <2>2, <2>5 DEF OvertakeInv, JudgedOnStored
    <2>7. saved'[u] = Append(saved[u], m)
      BY <2>1, <2>2 DEF TypeOK
    <2>8. QED
      BY <2>2, <2>6, <2>7 DEF Overtaken
  <1>4. CASE LoseRedis
    BY <1>4 DEF LoseRedis
  <1>5. \/ \E m \in Readings : SaveState(m)
        \/ LoseRedis
    BY <1>2
    DEF Next, Step, Arrive, GetState, Orchestrate, UpsertTwin, EnqueueVerification,
        LogTelemetry, AppendAlert, Notify, DeadLetter, FailMqtt, FailHttp, Crash,
        Finished, vars, redisVars
  <1>6. QED
    BY <1>3, <1>4, <1>5

\* Recorded minutes are only ever lost with Redis, or to a reading that was
\* processed at the same time as one it overwrites.
THEOREM ExposureMonotone == Spec => ExposureNeverFallsAlone
  <1>1. Init => TypeOK /\ OvertakeInv
    BY TypeInit, OvertakeInit
  <1>2. TypeOK /\ OvertakeInv /\ [Next]_vars => (TypeOK /\ OvertakeInv)'
    BY TypeStep, OvertakeStep
  <1>3. TypeOK /\ OvertakeInv /\ [Next]_vars =>
          [\A u \in Ulds : exposure'[u].used < exposure[u].used =>
              \/ exposure'[u] = NoExposure
              \/ \E m \in Readings, n \in SavedFor(u) :
                    saved'[u] = Append(saved[u], m) /\ <<m, n>> \in overlap]_vars
    BY MonotoneStep
  <1>4. QED
    BY <1>1, <1>2, <1>3, PTL DEF Spec, ExposureNeverFallsAlone
-----------------------------------------------------------------------------
(***************************************************************************)
(* The audit trail.  A reading is on it before its alert is decided, and   *)
(* nothing is ever taken off it.                                           *)
(***************************************************************************)
AlertingAudited == \A m \in Readings : pc[m] = "alert" => m \in audit

AuditInv == AlertingAudited /\ AlertIsAudited

LEMMA AuditInit == Init => AuditInv
  BY DEF Init, AuditInv, AlertingAudited, AlertIsAudited

LEMMA AuditStep == TypeOK /\ AuditInv /\ [Next]_vars => AuditInv'
  <1> SUFFICES ASSUME TypeOK, AuditInv, [Next]_vars PROVE AuditInv'
    OBVIOUS
  <1> USE DEF AuditInv, AlertingAudited, AlertIsAudited, Advance, redisVars, TypeOK
  <1>1. ASSUME NEW m \in Readings, LogTelemetry(m) PROVE AuditInv'
    BY <1>1 DEF LogTelemetry
  <1>2. ASSUME NEW m \in Readings, AppendAlert(m) PROVE AuditInv'
    <2>1. /\ m \in audit /\ audit' = audit
          /\ \A n \in Readings : pc'[n] = "alert" => pc[n] = "alert"
      BY <1>2 DEF AppendAlert
    <2>2. alerts' = alerts \cup {<<m, buildAlert(status[m].status)>>}
      BY <1>2 DEF AppendAlert
    <2>3. QED
      BY <2>1, <2>2
  <1>3. ASSUME NEW m \in Readings,
               \/ Arrive(m) \/ GetState(m) \/ SaveState(m) \/ Orchestrate(m)
               \/ UpsertTwin(m) \/ EnqueueVerification(m) \/ Notify(m)
               \/ DeadLetter(m) \/ FailMqtt(m)
        PROVE  AuditInv'
    BY <1>3
    DEF Arrive, GetState, SaveState, Orchestrate, UpsertTwin, EnqueueVerification,
        Notify, DeadLetter, FailMqtt, Rejected
  <1>4. ASSUME audit' = audit, Restart, LoseRedis \/ alerts' = alerts PROVE AuditInv'
    BY <1>4 DEF Restart, LoseRedis, InFlight, Stages
  <1>5. ASSUME NEW m \in Readings, FailHttp(m) PROVE AuditInv'
    BY <1>4, <1>5 DEF FailHttp, Rejected
  <1>6. CASE Crash
    BY <1>4, <1>6 DEF Crash
  <1>7. CASE Finished \/ UNCHANGED vars
    BY <1>7 DEF Finished, vars, readingVars
  <1>8. QED
    BY <1>1, <1>2, <1>3, <1>5, <1>6, <1>7 DEF Next, Step

\* An alert in Redis always has its reading in the audit table, through lost
\* Redis contents, rejected calls and restarts between the two writes.
THEOREM AlertsAudited == Spec => []AlertIsAudited
  <1>1. Init => TypeOK /\ AuditInv
    BY TypeInit, AuditInit
  <1>2. TypeOK /\ AuditInv /\ [Next]_vars => (TypeOK /\ AuditInv)'
    BY TypeStep, AuditStep
  <1>3. AuditInv => AlertIsAudited
    BY DEF AuditInv
  <1>4. QED
    BY <1>1, <1>2, <1>3, PTL DEF Spec
-----------------------------------------------------------------------------
(***************************************************************************)
(* A breach is announced, for any constants of TelemetryPipeline.  Behind  *)
(* every exposure state in breach there is a stored reading that brought   *)
(* it there; that reading is always responded to, and it cannot pass the   *)
(* alert decision without an alert.  And the minutes add up: readings that *)
(* were not processed at the same time were judged one against the other.  *)
(***************************************************************************)
HasCause(u) == \E m \in SavedFor(u) : Breaches(m)

\* Readings whose state is not stored yet.
Early == {"idle", "read", "save"}

SavedLate ==
    \A u \in Ulds : \A m \in SavedFor(u) :
        m \in Readings /\ uldOf(m) = u /\ pc[m] \notin Early

BreachHasCause ==
    /\ \A u \in Ulds : exposure[u].status = "BREACH" => HasCause(u)
    /\ \A m \in Readings :
          pc[m] = "save" /\ previous[m].status = "BREACH" => HasCause(uldOf(m))

BreachAlert(u) == \E a \in alerts : uldOf(a[1]) = u /\ a[2] = "BREACH"

\* What a reading that breaches has done by the call it is at.
Handled(m) ==
    /\ pc[m] = "respond" => respond[m]
    /\ pc[m] \in {"twin", "verify", "log", "alert", "notify", "done"} =>
          uldOf(m) \in responses
    /\ pc[m] \in {"notify", "done"} => BreachAlert(uldOf(m))

CausesHandled ==
    \A u \in Ulds : \A m \in SavedFor(u) : Breaches(m) => Handled(m)

AlertsLate == \A a \in alerts : a[1] \in Readings /\ pc[a[1]] \notin Early

BreachInv == SavedLate /\ BreachHasCause /\ CausesHandled /\ AlertsLate

LEMMA BreachInit == Init => BreachInv
  BY DEF Init, BreachInv, SavedLate, BreachHasCause, CausesHandled, AlertsLate,
         SavedFor, NoExposure

LEMMA SavedAreReadings ==
    ASSUME TypeOK, NEW u \in Ulds PROVE SavedFor(u) \subseteq Readings
  <1>1. saved[u] \in Seq(Readings)
    BY DEF TypeOK
  <1>2. QED
    BY <1>1, AppendSaved DEF SavedFor

\* A step that stores no exposure state and only adds alerts and workflows.
Additive ==
    /\ UNCHANGED <<body, previous, status, exposure, saved>>
    /\ responses \subseteq responses' /\ alerts \subseteq alerts'
    /\ \A m \in Readings : pc'[m] \in Early => pc'[m] = pc[m]
    /\ \A a \in alerts' \ alerts : a[1] \in Readings /\ pc'[a[1]] \notin Early

LEMMA AlertKept ==
    ASSUME NEW u, BreachAlert(u), alerts \subseteq alerts', UNCHANGED body
    PROVE  BreachAlert(u)'
  BY DEF BreachAlert, uldOf

LEMMA AdditiveStep ==
    ASSUME TypeOK, BreachInv, Additive,
           \A m \in Readings : Breaches(m) /\ Handled(m) => Handled(m)'
    PROVE  BreachInv'
  <1>1. /\ \A u \in Ulds : SavedFor(u)' = SavedFor(u)
        /\ \A m \in Readings : uldOf(m)' = uldOf(m)
        /\ \A m : Breaches(m)' = Breaches(m)
    BY DEF Additive, SavedFor, uldOf, Breaches
  <1>2. \A u \in Ulds : HasCause(u)' = HasCause(u)
    BY <1>1 DEF HasCause
  <1>3. SavedLate'
    BY <1>1 DEF BreachInv, SavedLate, Additive, Early
  <1>4. ASSUME NEW m \in Readings PROVE uldOf(m) \in Ulds
    BY DEF TypeOK, uldOf, Reading
  <1>5. BreachHasCause'
    BY <1>1, <1>2, <1>4 DEF BreachInv, BreachHasCause, Additive, Early
  <1>6. CausesHandled'
    BY <1>1, SavedAreReadings DEF BreachInv, CausesHandled
  <1>7. AlertsLate'
    BY DEF Additive, BreachInv, AlertsLate
  <1>8. QED
    BY <1>3, <1>5, <1>6, <1>7 DEF BreachInv

LEMMA BreachRestart ==
    ASSUME TypeOK, BreachInv, Restart,
           \/ LoseRedis
           \/ /\ UNCHANGED <<exposure, saved, alerts>>
              /\ responses \subseteq responses'
    PROVE  BreachInv'
  <1>1. \A m \in Readings : \/ pc'[m] = "aborted"
                            \/ pc'[m] = pc[m] /\ pc[m] \notin Stages
    BY DEF Restart, InFlight, TypeOK
  <1>2. UNCHANGED <<body, previous, status, respond>>
    BY DEF Restart
  <1>3. CASE LoseRedis
    <2>1. /\ \A u \in Ulds : SavedFor(u)' = {} /\ exposure'[u].status # "BREACH"
          /\ alerts' = {}
      BY <1>3 DEF LoseRedis, SavedFor, NoExposure
    <2>2. QED
      BY <2>1, <1>1
      DEF BreachInv, SavedLate, BreachHasCause, CausesHandled, AlertsLate, Stages
  <1>4. CASE UNCHANGED <<exposure, saved, alerts>> /\ responses \subseteq responses'
    <2>1. Additive
      BY <1>1, <1>2, <1>4 DEF Additive, Early
    <2>2. ASSUME NEW m \in Readings, Handled(m) PROVE Handled(m)'
      BY <1>1, <1>2, <1>4, <2>2, AlertKept DEF Handled, uldOf, Stages
    <2>3. QED
      BY <2>1, <2>2, AdditiveStep
  <1>5. QED
    BY <1>3, <1>4

\* A reading is judged: if the state it read is in breach, that has a cause.
LEMMA BreachJudge ==
    ASSUME TypeOK, BreachInv, NEW m \in Readings, GetState(m) PROVE BreachInv'
  <1>1. /\ pc[m] = "read" /\ pc' = [pc EXCEPT ![m] = "save"]
        /\ previous' = [previous EXCEPT ![m] = exposure[uldOf(m)]]
        /\ status' = [status EXCEPT ![m] = computeExposureState(exposure[uldOf(m)], body[m])]
        /\ UNCHANGED <<body, respond, exposure, saved, responses, alerts>>
    BY DEF GetState, Advance, redisVars, ghostVars
  <1>2. \A u \in Ulds : SavedFor(u)' = SavedFor(u) /\ SavedFor(u) \subseteq Readings
    BY <1>1, SavedAreReadings DEF SavedFor
  <1>3. ASSUME NEW u \in Ulds, NEW n \in SavedFor(u)
        PROVE  /\ n # m /\ n \in Readings /\ pc'[n] = pc[n]
               /\ uldOf(n)' = u /\ uldOf(n) = u /\ Breaches(n)' = Breaches(n)
    <2>1. n # m /\ n \in Readings /\ uldOf(n) = u
      BY <1>1 DEF BreachInv, SavedLate, Early
    <2>2. QED
      BY <2>1, <1>1 DEF TypeOK, Breaches, uldOf
  <1>4. SavedLate'
    BY <1>2, <1>3 DEF BreachInv, SavedLate
  <1>5. ASSUME NEW u \in Ulds PROVE HasCause(u)' = HasCause(u)
    BY <1>2, <1>3 DEF HasCause
  <1>6. ASSUME NEW n \in Readings PROVE uldOf(n) \in Ulds /\ uldOf(n)' = uldOf(n)
    BY <1>1 DEF TypeOK, uldOf, Reading
  <1>7. BreachHasCause'
    <2>1. ASSUME NEW n \in Readings, pc'[n] = "save", previous'[n].status = "BREACH"
          PROVE  HasCause(uldOf(n))
      <3>1. CASE n = m
        BY <1>1, <1>6, <2>1, <3>1 DEF TypeOK, BreachInv, BreachHasCause
      <3>2. CASE n # m
        BY <1>1, <2>1, <3>2 DEF TypeOK, BreachInv, BreachHasCause
      <3>3. QED
        BY <3>1, <3>2
    <2>2. QED
      BY <1>1, <1>5, <1>6, <2>1 DEF BreachInv, BreachHasCause
  <1>8. CausesHandled'
    <2>1. ASSUME NEW u \in Ulds, NEW n \in SavedFor(u), Handled(n) PROVE Handled(n)'
      BY <1>1, <1>3, <2>1, AlertKept DEF Handled
    <2>2. QED
      BY <1>2, <1>3, <2>1 DEF BreachInv, CausesHandled
  <1>9. AlertsLate'
    BY <1>1 DEF BreachInv, AlertsLate, Early, TypeOK
  <1>10. QED
    BY <1>4, <1>7, <1>8, <1>9 DEF BreachInv

\* A state is stored: if it is in breach, its reading is the cause or was
\* judged against a breach, and if its reading is the cause it is responded to.
LEMMA BreachStore ==
    ASSUME TypeOK, BreachInv, NEW m \in Readings, SaveState(m),
           NEW u \in Ulds, u = uldOf(m)
    PROVE  BreachInv'
  <1>1. /\ pc[m] = "save" /\ pc' = [pc EXCEPT ![m] = "respond"]
        /\ exposure' = [exposure EXCEPT ![u] = status[m]]
        /\ saved' = [saved EXCEPT ![u] = Append(saved[u], m)]
        /\ UNCHANGED <<body, previous, status, responses, alerts>>
    BY DEF SaveState, Advance
  <1>2. saved[u] \in Seq(Readings)
    BY DEF TypeOK
  <1>3. /\ \A n \in Readings : respond'[n] = respond[n] \/ n = m
        /\ Breaches(m) => respond'[m]
    BY DEF SaveState, TypeOK, shouldCreateOperationalResponse, Breaches
  <1>4. /\ \A n : uldOf(n)' = uldOf(n) /\ Breaches(n)' = Breaches(n)
        /\ \A n \in Readings : n # m => pc'[n] = pc[n]
        /\ pc'[m] = "respond"
    BY <1>1 DEF uldOf, Breaches, TypeOK
  <1>5. SavedFor(u)' = SavedFor(u) \cup {m}
    <2>1. saved'[u] = Append(saved[u], m)
      BY <1>1, <1>2 DEF TypeOK
    <2>2. {saved'[u][i] : i \in DOMAIN saved'[u]} = {saved[u][i] : i \in DOMAIN saved[u]} \cup {m}
      BY <1>2, <2>1, AppendSaved
    <2>3. QED
      BY <2>2 DEF SavedFor
  <1>6. \A v \in Ulds : v # u => SavedFor(v)' = SavedFor(v)
    BY <1>1, <1>2 DEF SavedFor, TypeOK
  <1>7. ASSUME NEW v \in Ulds PROVE SavedFor(v)' = SavedFor(v) \cup (IF v = u THEN {m} ELSE {})
    <2>1. CASE v = u
      <3>1. SavedFor(v)' = SavedFor(u)' /\ SavedFor(v) = SavedFor(u)
        BY <2>1
      <3>2. QED
        BY <2>1, <3>1, <1>5
    <2>2. CASE v # u
      BY <2>2, <1>6
    <2>3. QED
      BY <2>1, <2>2
  <1>8. SavedLate'
    BY <1>4, <1>7 DEF BreachInv, SavedLate, Early
  <1>9. ASSUME NEW v \in Ulds, HasCause(v) PROVE HasCause(v)'
    BY <1>4, <1>7, <1>9 DEF HasCause
  <1>10. status[m].status = "BREACH" => HasCause(u)'
    <2>1. CASE Breaches(m)
      BY <1>2, <1>4, <1>7, <2>1 DEF HasCause
    <2>2. CASE status[m].status = "BREACH" /\ ~Breaches(m)
      BY <1>1, <1>2, <1>9, <2>2 DEF Breaches, BreachInv, BreachHasCause
    <2>3. QED
      BY <2>1, <2>2
  <1>11. BreachHasCause'
    <2>1. ASSUME NEW v \in Ulds, exposure'[v].status = "BREACH" PROVE HasCause(v)'
      <3>1. CASE v = u
        <4>1. status[m].status = "BREACH"
          BY <1>1, <2>1, <3>1 DEF TypeOK
        <4>2. HasCause(v)' = HasCause(u)'
          BY <3>1
        <4>3. QED
          BY <4>1, <4>2, <1>10
      <3>2. CASE v # u
        BY <1>1, <1>9, <2>1, <3>2 DEF TypeOK, BreachInv, BreachHasCause
      <3>3. QED
        BY <3>1, <3>2
    <2>2. ASSUME NEW n \in Readings, pc'[n] = "save", previous'[n].status = "BREACH"
          PROVE  HasCause(uldOf(n))'
      <3>1. PICK v \in Ulds : v = uldOf(n)
        BY DEF TypeOK, uldOf, Reading
      <3>2. pc[n] = "save" /\ previous[n].status = "BREACH"
        BY <1>1, <2>2 DEF TypeOK
      <3>3. HasCause(v)
        BY <3>1, <3>2 DEF BreachInv, BreachHasCause
      <3>4. HasCause(v)'
        BY <3>3, <1>9
      <3>5. QED
        BY <3>1, <3>4, <1>4 DEF HasCause, SavedFor
    <2>3. QED
      BY <2>1, <2>2 DEF BreachHasCause
  <1>12. ASSUME NEW v \in Ulds, NEW n \in SavedFor(v)', Breaches(n)' PROVE Handled(n)'
    <2>1. CASE n = m
      BY <1>3, <1>4, <1>12, <2>1 DEF Handled
    <2>2. CASE n # m
      <3>1. n \in SavedFor(v) /\ n \in Readings /\ Breaches(n)
        BY <1>4, <1>7, <1>12, <2>2 DEF BreachInv, SavedLate
      <3>2. Handled(n)
        BY <3>1 DEF BreachInv, CausesHandled
      <3>3. QED
        BY <1>1, <1>3, <1>4, <2>2, <3>1, <3>2, AlertKept DEF Handled
    <2>3. QED
      BY <2>1, <2>2
  <1>13. AlertsLate'
    BY <1>1, <1>4 DEF BreachInv, AlertsLate, Early
  <1>14. QED
    BY <1>8, <1>11, <1>12, <1>13 DEF BreachInv, CausesHandled

LEMMA BreachArrive ==
    ASSUME TypeOK, BreachInv, NEW m \in Readings, Arrive(m) PROVE BreachInv'
  <1>1. /\ pc[m] = "idle" /\ pc' = [pc EXCEPT ![m] = "read"]
        /\ UNCHANGED <<previous, status, respond, exposure, saved, responses, alerts>>
        /\ \A n \in Readings \ {m} : body'[n] = body[n]
    BY DEF Arrive, Advance, redisVars, TypeOK
  <1>2. \A u \in Ulds : SavedFor(u)' = SavedFor(u) /\ SavedFor(u) \subseteq Readings
    BY <1>1, SavedAreReadings DEF SavedFor
  <1>3. ASSUME NEW n \in Readings, n # m
        PROVE  pc'[n] = pc[n] /\ uldOf(n)' = uldOf(n) /\ uldOf(n) \in Ulds
    BY <1>1, <1>3 DEF TypeOK, uldOf, Reading
  <1>4. ASSUME NEW u \in Ulds, NEW n \in SavedFor(u)
        PROVE  n # m /\ n \in Readings /\ uldOf(n) = u
    BY <1>1 DEF BreachInv, SavedLate, Early
  <1>5. \A n : Breaches(n)' = Breaches(n)
    BY <1>1 DEF Breaches
  <1>6. SavedLate'
    BY <1>2, <1>3, <1>4 DEF BreachInv, SavedLate
  <1>7. \A u \in Ulds : HasCause(u)' = HasCause(u)
    BY <1>2, <1>5 DEF HasCause
  <1>8. BreachHasCause'
    <2>1. ASSUME NEW n \in Readings, pc'[n] = "save", previous'[n].status = "BREACH"
          PROVE  HasCause(uldOf(n))'
      <3>1. n # m
        BY <1>1, <2>1 DEF TypeOK
      <3>2. PICK u \in Ulds : u = uldOf(n)
        BY <1>3, <3>1
      <3>3. HasCause(u)'
        BY <1>1, <1>3, <1>7, <2>1, <3>1, <3>2 DEF BreachInv, BreachHasCause
      <3>4. QED
        BY <1>3, <3>1, <3>2, <3>3 DEF HasCause, SavedFor
    <2>2. QED
      BY <1>1, <1>7, <2>1 DEF BreachInv, BreachHasCause
  <1>9. AlertsLate'
    BY <1>1, <1>3 DEF BreachInv, AlertsLate, Early
  <1>10. ASSUME NEW u \in Ulds, BreachAlert(u) PROVE BreachAlert(u)'
    <2>1. PICK a \in alerts : uldOf(a[1]) = u /\ a[2] = "BREACH"
      BY <1>10 DEF BreachAlert
    <2>2. a[1] \in Readings /\ a[1] # m
      BY <1>1 DEF BreachInv, AlertsLate, Early
    <2>3. uldOf(a[1])' = u
      BY <1>3, <2>1, <2>2
    <2>4. QED
      BY <1>1, <2>1, <2>3 DEF BreachAlert
  <1>11. ASSUME NEW u \in Ulds, NEW n \in SavedFor(u), Handled(n) PROVE Handled(n)'
    <2>1. n \in Readings /\ n # m /\ uldOf(n) = u
      BY <1>4
    <2>2. pc'[n] = pc[n] /\ uldOf(n)' = u
      BY <1>3, <2>1
    <2>3. BreachAlert(uldOf(n)) => BreachAlert(uldOf(n))'
      <3>1. SUFFICES ASSUME BreachAlert(u) PROVE BreachAlert(uldOf(n))'
        BY <2>1
      <3>2. BreachAlert(u)'
        BY <3>1, <1>10
      <3>3. QED
        BY <2>2, <3>2 DEF BreachAlert
    <2>4. QED
      BY <1>1, <1>11, <2>1, <2>2, <2>3 DEF Handled
  <1>12. CausesHandled'
    BY <1>2, <1>5, <1>11 DEF BreachInv, CausesHandled
  <1>13. QED
    BY <1>6, <1>8, <1>9, <1>12 DEF BreachInv

LEMMA BreachStep == TypeOK /\ BreachInv /\ [Next]_vars => BreachInv'
  <1> SUFFICES ASSUME TypeOK, BreachInv, [Next]_vars PROVE BreachInv'
    OBVIOUS
  <1> USE DEF Advance
  <1>1. ASSUME NEW m \in Readings, Arrive(m) PROVE BreachInv'
    BY <1>1, BreachArrive
  <1>2. ASSUME NEW m \in Readings, GetState(m) PROVE BreachInv'
    BY <1>2, BreachJudge
  <1>3. ASSUME NEW m \in Readings, SaveState(m) PROVE BreachInv'
    <2>1. uldOf(m) \in Ulds
      BY DEF TypeOK, uldOf, Reading
    <2>2. QED
      BY <1>3, <2>1, BreachStore
  <1>4. ASSUME NEW m \in Readings, Orchestrate(m) PROVE BreachInv'
    <2>1. Additive
      BY <1>4 DEF Orchestrate, Additive, Early, TypeOK, ghostVars
    <2>2. ASSUME NEW n \in Readings, Breaches(n), Handled(n) PROVE Handled(n)'
      BY <1>4, <2>2, AlertKept DEF Orchestrate, Handled, Breaches, TypeOK, uldOf
    <2>3. QED
      BY <2>1, <2>2, AdditiveStep
  <1>5. ASSUME NEW m \in Readings,
               \/ UpsertTwin(m) \/ EnqueueVerification(m) \/ Notify(m)
               \/ DeadLetter(m) \/ FailMqtt(m)
        PROVE  BreachInv'
    <2>1. Additive
      BY <1>5 DEF UpsertTwin, EnqueueVerification, Notify, DeadLetter, FailMqtt, Rejected,
                  PartialResponse, Additive, Early, TypeOK, ghostVars, redisVars
    <2>2. /\ responses \subseteq responses' /\ UNCHANGED <<body, respond, alerts>>
          /\ \A n \in Readings :
                \/ pc'[n] = pc[n] \/ pc'[n] \in {"deadletter", "dead"}
                \/ pc[n] = "twin" /\ pc'[n] = "verify"
                \/ pc[n] = "verify" /\ pc'[n] = "log"
                \/ pc[n] = "notify" /\ pc'[n] = "done"
      BY <1>5 DEF UpsertTwin, EnqueueVerification, Notify, DeadLetter, FailMqtt, Rejected,
                  PartialResponse, TypeOK, redisVars
    <2>3. ASSUME NEW n \in Readings, Handled(n) PROVE Handled(n)'
      BY <2>2, <2>3, AlertKept DEF Handled, uldOf
    <2>4. QED
      BY <2>1, <2>3, AdditiveStep
  <1>6. ASSUME NEW m \in Readings, LogTelemetry(m) PROVE BreachInv'
    <2>1. Additive
      BY <1>6 DEF LogTelemetry, Additive, Early, TypeOK, ghostVars, redisVars
    <2>2. Breaches(m) => pc'[m] = "alert"
      BY <1>6 DEF LogTelemetry, Breaches, shouldEmitAlert, TypeOK
    <2>3. ASSUME NEW n \in Readings, Breaches(n), Handled(n) PROVE Handled(n)'
      BY <1>6, <2>2, <2>3, AlertKept DEF LogTelemetry, Handled, TypeOK, uldOf, redisVars
    <2>4. QED
      BY <2>1, <2>3, AdditiveStep
  <1>7. ASSUME NEW m \in Readings, AppendAlert(m) PROVE BreachInv'
    <2>1. Additive
      BY <1>7 DEF AppendAlert, Additive, Early, TypeOK, ghostVars
    <2>2. Breaches(m) => BreachAlert(uldOf(m))'
      <3>1. SUFFICES ASSUME Breaches(m) PROVE BreachAlert(uldOf(m))'
        OBVIOUS
      <3>2. buildAlert(status[m].status) = "BREACH"
        BY <3>1 DEF Breaches, buildAlert
      <3>3. <<m, "BREACH">> \in alerts' /\ <<m, "BREACH">>[1] = m
        BY <1>7, <3>2 DEF AppendAlert
      <3>4. QED
        BY <3>3 DEF BreachAlert
    <2>3. ASSUME NEW n \in Readings, Breaches(n), Handled(n) PROVE Handled(n)'
      <3>1. CASE n = m
        BY <1>7, <2>2, <2>3, <3>1 DEF AppendAlert, Handled, TypeOK, uldOf
      <3>2. CASE n # m
        BY <1>7, <2>1, <2>3, <3>2, AlertKept
        DEF AppendAlert, Handled, TypeOK, uldOf, Additive
      <3>3. QED
        BY <3>1, <3>2
    <2>4. QED
      BY <2>1, <2>3, AdditiveStep
  <1>8. ASSUME NEW m \in Readings, FailHttp(m) PROVE BreachInv'
    BY <1>8, BreachRestart DEF FailHttp, PartialResponse
  <1>9. CASE Crash
    BY <1>9, BreachRestart DEF Crash, redisVars
  <1>10. CASE Finished \/ UNCHANGED vars
    <2>1. Additive /\ UNCHANGED <<pc, respond>> /\ responses' = responses
      BY <1>10 DEF Finished, vars, readingVars, redisVars, ghostVars, Additive
    <2>2. ASSUME NEW n \in Readings, Handled(n) PROVE Handled(n)'
      BY <2>1, <2>2, AlertKept DEF Handled, Additive, uldOf
    <2>3. QED
      BY <2>1, <2>2, AdditiveStep
  <1>11. QED
    BY <1>1, <1>2, <1>3, <1>4, <1>5, <1>6, <1>7, <1>8, <1>9, <1>10 DEF Next, Step

\* A ULD in breach whose breaching readings were all processed to the end has
\* its breach workflow and a BREACH alert, under any interleaving, any order
\* of timestamps, any rules, and across restarts.
THEOREM BreachAnnounced == Spec => []BreachIsAnnounced
  <1>1. Init => TypeOK /\ BreachInv
    BY TypeInit, BreachInit
  <1>2. TypeOK /\ BreachInv /\ [Next]_vars => (TypeOK /\ BreachInv)'
    BY TypeStep, BreachStep
  <1>3. BreachInv => BreachIsAnnounced
    <2>1. SUFFICES ASSUME BreachInv, NEW u \in Ulds, exposure[u].status = "BREACH",
                          \A m \in SavedFor(u) : Breaches(m) => pc[m] = "done"
                   PROVE  u \in responses /\ BreachAlert(u)
      BY DEF BreachIsAnnounced, BreachAlert
    <2>2. PICK m \in SavedFor(u) : Breaches(m) /\ pc[m] = "done"
      BY <2>1 DEF BreachInv, BreachHasCause, HasCause
    <2>3. Handled(m) /\ uldOf(m) = u
      BY <2>1, <2>2 DEF BreachInv, CausesHandled, SavedLate
    <2>4. QED
      BY <2>2, <2>3 DEF Handled
  <1>4. QED
    BY <1>1, <1>2, <1>3, PTL DEF Spec
-----------------------------------------------------------------------------
(***************************************************************************)
(* Minutes.  The state stored for a ULD has the time of the reading stored *)
(* last, and over readings that did not overlap each was judged against    *)
(* the state of the one before.                                            *)
(***************************************************************************)
StoredTime(u) ==
    IF saved[u] = <<>> THEN exposure[u] = NoExposure
    ELSE exposure[u].at = body[saved[u][Len(saved[u])]].at

TimeInv == (\A u \in Ulds : StoredTime(u)) /\ TimeIsCounted

LEMMA TimeInit == Init => TimeInv
  BY DEF Init, TimeInv, StoredTime, TimeIsCounted

\* What a reading adds: at most 5 minutes as the first, in whole hundredths;
\* at most the time since the one before it after that, and all of that time
\* if it is hot and in time.
LEMMA IncrementBounds ==
    ASSUME NEW prior \in Nat \cup {NoTime}, NEW reading \in Reading
    PROVE  LET time == increment(prior, reading) IN
           /\ time \in Nat
           /\ prior = NoTime =>
                 /\ time <= Minutes(5) /\ (reading.hot => time = Capped(Minutes(5)))
                 /\ \E k \in Nat : time = Hundredth * k
           /\ prior \in Nat /\ prior < reading.at =>
                 /\ time <= reading.at - prior
                 /\ reading.hot /\ reading.at - prior <= Minutes(MaxGapMinutes) =>
                       time = reading.at - prior
  <1> DEFINE time == increment(prior, reading)
  <1>1. time \in Nat
    BY IncrementType
  <1>2. ASSUME prior = NoTime
        PROVE  /\ time <= Minutes(5) /\ (reading.hot => time = Capped(Minutes(5)))
               /\ time \in {0, Minutes(5), Minutes(MaxGapMinutes)}
    BY <1>2, RuleAssumption DEF increment, elapsedTime, Capped, Minutes, Reading
  <1>3. /\ 0 = Hundredth * 0 /\ Minutes(5) = Hundredth * 500
        /\ Minutes(MaxGapMinutes) = Hundredth * (100 * MaxGapMinutes)
        /\ 100 * MaxGapMinutes \in Nat
    BY RuleAssumption DEF Minutes, Hundredth
  <1>4. ASSUME prior \in Nat, prior < reading.at
        PROVE  /\ time <= reading.at - prior
               /\ reading.hot /\ reading.at - prior <= Minutes(MaxGapMinutes) =>
                       time = reading.at - prior
    BY <1>4, RuleAssumption DEF increment, elapsedTime, Capped, Minutes, Reading, NoTime
  <1> HIDE DEF time
  <1>5. prior = NoTime => \E k \in Nat : time = Hundredth * k
    BY <1>2, <1>3
  <1>6. QED
    BY <1>1, <1>2, <1>4, <1>5 DEF time

\* What n readings may have charged over a span at most, with rounding, and
\* what they have charged when all were hot and none was late.
AtMost(used, span, n) ==
    Hundredth * used <= Minutes(5) + span + Half * (n - 1)

About(used, span, n) ==
    LET rounding == Half * (n - 1)
    IN  Hundredth * used - (Capped(Minutes(5)) + span) \in -rounding .. rounding

LEMMA FirstCharged ==
    ASSUME NEW time \in Nat, time <= Minutes(5), \E k \in Nat : time = Hundredth * k
    PROVE  /\ AtMost(toFixed(0, time), 0, 1)
           /\ time = Capped(Minutes(5)) => About(toFixed(0, time), 0, 1)
  <1>1. PICK k \in Nat : time = Hundredth * k
    OBVIOUS
  <1>2. toFixed(0, time) = k
    BY <1>1, Rounding
  <1>3. Capped(Minutes(5)) \in Int
    BY RuleAssumption DEF Capped, Minutes
  <1>4. QED
    BY <1>1, <1>2, <1>3 DEF AtMost, About, Half, Minutes

LEMMA NextCharged ==
    ASSUME NEW used \in Nat, NEW time \in Nat, NEW gap \in Nat, NEW span \in Int,
           NEW n \in Nat, time <= gap
    PROVE  /\ AtMost(used, span, n) => AtMost(toFixed(used, time), span + gap, n + 1)
           /\ About(used, span, n) /\ time = gap =>
                 About(toFixed(used, time), span + gap, n + 1)
  <1> DEFINE rounded == toFixed(used, time)
             charged == Hundredth * used
             after == Hundredth * rounded
             first == Capped(Minutes(5))
             rounding == Half * (n - 1)
  <1>1. rounded \in Nat /\ after - (charged + time) \in -Half .. Half
    BY Rounding
  <1>2. first \in Int /\ Half = 300 /\ Minutes(5) = 300000
    BY RuleAssumption DEF Capped, Minutes, Half
  <1>3. charged \in Int /\ after \in Int /\ rounding \in Int
        /\ Half * ((n + 1) - 1) = rounding + 300
    BY <1>1 DEF Hundredth, Half
  <1> HIDE DEF rounded, charged, after, first, rounding
  <1>4. charged <= Minutes(5) + span + rounding =>
            after <= Minutes(5) + (span + gap) + (rounding + 300)
    BY <1>1, <1>2, <1>3
  <1>5. charged - (first + span) \in -rounding .. rounding /\ time = gap =>
            after - (first + (span + gap)) \in -(rounding + 300) .. (rounding + 300)
    BY <1>1, <1>2, <1>3
  <1>6. QED
    BY <1>3, <1>4, <1>5 DEF AtMost, About, rounded, charged, after, first, rounding

\* TimeIsCounted for one ULD.
Counted(u) ==
    saved[u] # <<>> /\ InTimeOrder(u) /\ ~Interleaved(u)
    => LET span == body[saved[u][Len(saved[u])]].at - body[saved[u][1]].at
       IN  /\ AtMost(exposure[u].used, span, Len(saved[u]))
           /\ HotWithoutGaps(u) => About(exposure[u].used, span, Len(saved[u]))

LEMMA CountedEach == TimeIsCounted <=> \A u \in Ulds : Counted(u)
  BY DEF TimeIsCounted, Counted, AtMost, About

\* A reading is stored that was not in flight with any stored before it.
LEMMA TimeStore ==
    ASSUME TypeOK, OvertakeInv, SavedLate, TimeInv,
           NEW m \in Readings, SaveState(m), NEW u \in Ulds, u = uldOf(m)
    PROVE  StoredTime(u)' /\ Counted(u)'
  <1> DEFINE s == saved[u]
             before == previous[m]
             time == increment(before.at, body[m])
  <1>1. /\ pc[m] = "save"
        /\ exposure' = [exposure EXCEPT ![u] = status[m]]
        /\ saved' = [saved EXCEPT ![u] = Append(saved[u], m)]
        /\ UNCHANGED <<body, overlap>>
    BY DEF SaveState, Advance
  <1>2. /\ s \in Seq(Readings) /\ body[m] \in Reading
        /\ before \in AnyExposure /\ \A n \in Readings : body[n].at \in Nat
    BY DEF TypeOK, AnyExposure, Reading
  <1>3. exposure'[u] = status[m] /\ saved'[u] = Append(s, m)
    BY <1>1 DEF TypeOK
  <1>4. /\ Append(s, m) # <<>> /\ Len(s) \in Nat /\ Len(Append(s, m)) = Len(s) + 1
        /\ DOMAIN Append(s, m) = 1 .. (Len(s) + 1) /\ DOMAIN s = 1 .. Len(s)
        /\ Append(s, m)[Len(s) + 1] = m
        /\ \A i \in 1 .. Len(s) : Append(s, m)[i] = s[i] /\ s[i] \in Readings
        /\ s = <<>> <=> Len(s) = 0
    BY <1>2
  <1>5. /\ status[m] = computeExposureState(before, body[m])
        /\ exposure[u] = before \/ Overtaken(m)
    BY <1>1 DEF OvertakeInv, JudgedOnStored
  <1>6. status[m].at = body[m].at /\ status[m].used = toFixed(before.used, time)
    BY <1>5 DEF computeExposureState
  <1>7. StoredTime(u)'
    BY <1>1, <1>3, <1>4, <1>6 DEF StoredTime
  <1>8. SavedFor(u)' = SavedFor(u) \cup {m}
    <2>1. {Append(s, m)[i] : i \in DOMAIN Append(s, m)} = {s[i] : i \in DOMAIN s} \cup {m}
      BY <1>2, AppendSaved
    <2>2. QED
      BY <1>3, <2>1 DEF SavedFor
  <1>9. before.at \in Nat \cup {NoTime} /\ before.used \in Nat
    BY <1>2 DEF AnyExposure, ExposureState, NoExposure
  <1>10. Counted(u)'
    <2>1. SUFFICES ASSUME InTimeOrder(u)', ~Interleaved(u)'
                   PROVE  LET span == body[m].at - body[Append(s, m)[1]].at
                          IN  /\ AtMost(status[m].used, span, Len(s) + 1)
                              /\ HotWithoutGaps(u)' => About(status[m].used, span, Len(s) + 1)
      BY <1>1, <1>3, <1>4 DEF Counted
    <2>2. ~Interleaved(u)
      BY <1>1, <1>8, <2>1 DEF Interleaved
    <2>3. exposure[u] = before
      <3>1. ASSUME NEW n \in SavedFor(u), <<m, n>> \in overlap PROVE FALSE
        <4>1. <<m, n>> \in overlap' \cap (SavedFor(u)' \X SavedFor(u)')
          BY <1>1, <1>8, <3>1
        <4>2. QED
          BY <2>1, <4>1 DEF Interleaved
      <3>2. ~Overtaken(m)
        BY <3>1 DEF Overtaken
      <3>3. QED
        BY <1>5, <3>2
    <2>4. \A i, j \in 1 .. (Len(s) + 1) : i < j =>
              body[Append(s, m)[i]].at < body[Append(s, m)[j]].at
      BY <1>1, <1>3, <1>4, <2>1 DEF InTimeOrder
    <2>5. HotWithoutGaps(u)' =>
              /\ \A n \in SavedFor(u) \cup {m} : body[n].hot
              /\ \A i \in (1 .. (Len(s) + 1)) \ {1} :
                    body[Append(s, m)[i]].at - body[Append(s, m)[i - 1]].at <= Minutes(MaxGapMinutes)
      BY <1>1, <1>3, <1>4, <1>8 DEF HotWithoutGaps
    <2>6. CASE s = <<>>
      <3>1. before = NoExposure
        BY <2>3, <2>6 DEF TimeInv, StoredTime
      <3>2. before.at = NoTime /\ before.used = 0
        BY <3>1 DEF NoExposure
      <3>3. /\ time \in Nat /\ time <= Minutes(5)
            /\ (body[m].hot => time = Capped(Minutes(5)))
            /\ \E k \in Nat : time = Hundredth * k
        BY <1>2, <1>9, <3>2, IncrementBounds
      <3>4. HotWithoutGaps(u)' => body[m].hot
        BY <2>5
      <3> HIDE DEF time
      <3>5. /\ AtMost(status[m].used, 0, 1)
            /\ HotWithoutGaps(u)' => About(status[m].used, 0, 1)
        BY <1>6, <3>2, <3>3, <3>4, FirstCharged
      <3>6. Append(s, m)[1] = m /\ Len(s) + 1 = 1 /\ body[m].at - body[m].at = 0
        BY <1>2, <1>4, <2>6
      <3>7. QED
        BY <3>5, <3>6
    <2>7. CASE s # <<>>
      <3> DEFINE first == body[s[1]].at
                 last == body[s[Len(s)]].at
                 now == body[m].at
      <3>1. Len(s) \in 1 .. Len(s) /\ 1 \in 1 .. Len(s)
            /\ Append(s, m)[1] = s[1] /\ Append(s, m)[Len(s)] = s[Len(s)]
            /\ Append(s, m)[Len(s) + 1] = m
        BY <1>4, <2>7
      <3>2. first \in Nat /\ last \in Nat /\ now \in Nat
        BY <1>2, <1>4, <3>1
      <3>3. before.at = last /\ last < now
        <4>1. before.at = last
          BY <2>3, <2>7 DEF TimeInv, StoredTime
        <4>2. Len(s) \in 1 .. (Len(s) + 1) /\ Len(s) + 1 \in 1 .. (Len(s) + 1)
              /\ Len(s) < Len(s) + 1
          BY <1>4, <3>1
        <4>3. last < now
          BY <2>4, <3>1, <4>2
        <4>4. QED
          BY <4>1, <4>3
      <3>4. InTimeOrder(u)
        BY <1>4, <2>4 DEF InTimeOrder
      <3>5. HotWithoutGaps(u)' =>
                HotWithoutGaps(u) /\ body[m].hot /\ now - last <= Minutes(MaxGapMinutes)
        <4>1. SUFFICES ASSUME HotWithoutGaps(u)'
                       PROVE  HotWithoutGaps(u) /\ body[m].hot /\ now - last <= Minutes(MaxGapMinutes)
          OBVIOUS
        <4>2. Len(s) + 1 \in (1 .. (Len(s) + 1)) \ {1} /\ (Len(s) + 1) - 1 = Len(s)
          BY <1>4, <3>1
        <4>3. now - last <= Minutes(MaxGapMinutes)
          BY <2>5, <3>1, <4>1, <4>2
        <4>4. ASSUME NEW i \in (DOMAIN s) \ {1}
              PROVE  body[s[i]].at - body[s[i - 1]].at <= Minutes(MaxGapMinutes)
          <5>1. /\ i \in (1 .. (Len(s) + 1)) \ {1}
                /\ i \in 1 .. Len(s) /\ i - 1 \in 1 .. Len(s)
            BY <1>4
          <5>2. Append(s, m)[i] = s[i] /\ Append(s, m)[i - 1] = s[i - 1]
            BY <1>4, <5>1
          <5>3. QED
            BY <2>5, <4>1, <5>1, <5>2
        <4>5. QED
          BY <2>5, <4>1, <4>3, <4>4 DEF HotWithoutGaps
      <3>6. /\ AtMost(before.used, last - first, Len(s))
            /\ HotWithoutGaps(u) => About(before.used, last - first, Len(s))
        BY <2>2, <2>3, <2>7, <3>4, CountedEach DEF TimeInv, Counted
      <3>7. /\ time \in Nat /\ time <= now - last
            /\ body[m].hot /\ now - last <= Minutes(MaxGapMinutes) => time = now - last
        BY <1>2, <1>9, <3>2, <3>3, IncrementBounds
      <3> HIDE DEF first, last, now, time
      <3>8. /\ now - last \in Nat /\ last - first \in Int
            /\ (last - first) + (now - last) = now - first
        BY <3>2, <3>3
      <3>9. /\ AtMost(status[m].used, now - first, Len(s) + 1)
            /\ About(before.used, last - first, Len(s)) /\ time = now - last =>
                  About(status[m].used, now - first, Len(s) + 1)
        <4>1. before.used \in Nat /\ Len(s) \in Nat /\ time \in Nat /\ time <= now - last
          BY <1>4, <1>9, <3>7
        <4>2. /\ AtMost(before.used, last - first, Len(s)) =>
                    AtMost(toFixed(before.used, time), (last - first) + (now - last), Len(s) + 1)
              /\ About(before.used, last - first, Len(s)) /\ time = now - last =>
                    About(toFixed(before.used, time), (last - first) + (now - last), Len(s) + 1)
          BY <3>8, <4>1, NextCharged
        <4>3. status[m].used = toFixed(before.used, time)
          BY <1>6 DEF time
        <4>4. QED
          BY <3>6, <3>8, <4>2, <4>3
      <3>10. QED
        BY <3>1, <3>5, <3>6, <3>7, <3>9 DEF first, now
    <2>8. QED
      BY <2>6, <2>7
  <1>11. QED
    BY <1>7, <1>10

\* A step that leaves the stored readings of a ULD as they are.
LEMMA TimeKept ==
    ASSUME TypeOK, TimeInv, NEW u \in Ulds,
           saved'[u] = saved[u], exposure'[u] = exposure[u],
           \A n \in SavedFor(u) : body'[n] = body[n],
           overlap' \cap (SavedFor(u) \X SavedFor(u)) =
               overlap \cap (SavedFor(u) \X SavedFor(u))
    PROVE  StoredTime(u)' /\ Counted(u)'
  <1>1. saved[u] \in Seq(Readings)
    BY DEF TypeOK
  <1>2. \A i \in DOMAIN saved[u] : body'[saved[u][i]] = body[saved[u][i]]
    BY DEF SavedFor
  <1>3. saved[u] # <<>> =>
            Len(saved[u]) \in DOMAIN saved[u] /\ 1 \in DOMAIN saved[u]
    BY <1>1
  <1>4. StoredTime(u)'
    BY <1>2, <1>3 DEF TimeInv, StoredTime
  <1>5. SavedFor(u)' = SavedFor(u)
    BY DEF SavedFor
  <1>6. InTimeOrder(u)' => InTimeOrder(u)
    BY <1>2 DEF InTimeOrder
  <1>7. Interleaved(u)' = Interleaved(u)
    BY <1>5 DEF Interleaved
  <1>8. HotWithoutGaps(u)' => HotWithoutGaps(u)
    <2>1. SUFFICES ASSUME HotWithoutGaps(u)' PROVE HotWithoutGaps(u)
      OBVIOUS
    <2>2. \A n \in SavedFor(u) : body[n].hot
      BY <1>5, <2>1 DEF HotWithoutGaps
    <2>3. ASSUME NEW i \in DOMAIN saved[u] \ {1}
          PROVE  body[saved[u][i]].at - body[saved[u][i - 1]].at <= Minutes(MaxGapMinutes)
      <3>1. i - 1 \in DOMAIN saved[u]
        BY <1>1
      <3>2. QED
        BY <1>2, <2>1, <3>1 DEF HotWithoutGaps
    <2>4. QED
      BY <2>2, <2>3 DEF HotWithoutGaps
  <1>9. Counted(u)
    BY CountedEach DEF TimeInv
  <1>10. Counted(u)'
    BY <1>2, <1>3, <1>6, <1>7, <1>8, <1>9 DEF Counted, AtMost, About
  <1>11. QED
    BY <1>4, <1>10

LEMMA TimeStep ==
    TypeOK /\ OvertakeInv /\ BreachInv /\ TimeInv /\ [Next]_vars => TimeInv'
  <1> SUFFICES ASSUME TypeOK, OvertakeInv, BreachInv, TimeInv, [Next]_vars,
                      NEW u \in Ulds
               PROVE  StoredTime(u)' /\ Counted(u)'
    <2>1. TimeIsCounted' <=> \A u \in Ulds : Counted(u)'
      BY DEF TimeIsCounted, Counted, AtMost, About
    <2>2. QED
      BY <2>1 DEF TimeInv
  <1> USE DEF Advance
  <1>1. ASSUME NEW m \in Readings, Arrive(m) PROVE StoredTime(u)' /\ Counted(u)'
    <2>1. m \notin SavedFor(u) /\ SavedFor(u) \subseteq Readings
      BY <1>1, SavedAreReadings DEF Arrive, BreachInv, SavedLate, Early
    <2>2. /\ UNCHANGED <<saved, exposure>>
          /\ \A n \in Readings \ {m} : body'[n] = body[n]
          /\ overlap' = overlap \cup ({m} \X InFlight) \cup (InFlight \X {m})
      BY <1>1 DEF Arrive, redisVars, TypeOK
    <2>3. overlap' \cap (SavedFor(u) \X SavedFor(u)) =
              overlap \cap (SavedFor(u) \X SavedFor(u))
      BY <2>1, <2>2
    <2>4. QED
      BY <2>1, <2>2, <2>3, TimeKept
  <1>2. ASSUME NEW m \in Readings, SaveState(m) PROVE StoredTime(u)' /\ Counted(u)'
    <2>1. CASE u = uldOf(m)
      BY <1>2, <2>1, TimeStore DEF BreachInv
    <2>2. CASE u # uldOf(m)
      <3>1. /\ saved'[u] = saved[u] /\ exposure'[u] = exposure[u]
            /\ UNCHANGED <<body, overlap>>
        BY <1>2, <2>2 DEF SaveState, TypeOK
      <3>2. QED
        BY <3>1, TimeKept
    <2>3. QED
      BY <2>1, <2>2
  <1>3. CASE LoseRedis
    BY <1>3 DEF LoseRedis, StoredTime, Counted
  <1>4. CASE UNCHANGED <<saved, exposure, body, overlap>>
    BY <1>4, TimeKept
  <1>5. \/ \E m \in Readings : Arrive(m) \/ SaveState(m)
        \/ LoseRedis
        \/ UNCHANGED <<saved, exposure, body, overlap>>
    BY DEF Next, Step, GetState, Orchestrate, UpsertTwin, EnqueueVerification,
           LogTelemetry, AppendAlert, Notify, DeadLetter, FailMqtt, FailHttp, Crash,
           Restart, Finished, vars, readingVars, redisVars, ghostVars
  <1>6. QED
    BY <1>1, <1>2, <1>3, <1>4, <1>5

\* Readings stored in the order of their timestamps, none of which was in
\* flight with another, charge a ULD the time they span, but for half a
\* hundredth of a minute each after the first: for any number of them, any cap
\* and gaps, any ties of toFixed, and other readings rejected in between.
THEOREM MinutesAddUp == Spec => []TimeIsCounted
  <1>1. Init => TypeOK /\ OvertakeInv /\ BreachInv /\ TimeInv
    BY TypeInit, OvertakeInit, BreachInit, TimeInit
  <1>2. TypeOK /\ OvertakeInv /\ BreachInv /\ TimeInv /\ [Next]_vars
          => (TypeOK /\ OvertakeInv /\ BreachInv /\ TimeInv)'
    BY TypeStep, OvertakeStep, BreachStep, TimeStep
  <1>3. TimeInv => TimeIsCounted
    BY DEF TimeInv
  <1>4. QED
    BY <1>1, <1>2, <1>3, PTL DEF Spec
=============================================================================
