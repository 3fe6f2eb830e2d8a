------------------------ MODULE CargoCustodyProofs ------------------------
(***************************************************************************)
(* Theorems about CargoCustody for any number of cargo, requests, bodies,  *)
(* crashes and requests in flight, and any Redis retention.                *)
(***************************************************************************)
EXTENDS CargoCustody, FiniteSetTheorems, SequenceTheorems, TLAPS

(***************************************************************************)
(* The rules: the two scores stay in range and buildState yields a state.  *)
(***************************************************************************)
LEMMA RiskScoreRange ==
    ASSUME NEW p, NEW action, NEW before
    PROVE  riskScore(p, action, before) \in 0 .. 100
  BY DEF riskScore, Points, AtMost100

LEMMA IntegrityScoreRange ==
    ASSUME NEW p, NEW action, NEW before
    PROVE  computeIntegrityScore(p, action, before) \in 0 .. 100
  BY DEF computeIntegrityScore, Points, AtLeast0

LEMMA NoStateType == NoState \in State
  BY DEF NoState, State

LEMMA BuildStateType ==
    ASSUME NEW r \in Requests, NEW p \in Payload, NEW q \in Plan, NEW before \in State
    PROVE  buildState(r, p, q.action, q.score, before) \in State
  <1>1. integrityScore(p, q.action, q.score, before) \in 0 .. 100
    BY IntegrityScoreRange DEF integrityScore, OrElse, Plan
  <1>2. riskScore(p, q.action, before) \in 0 .. 100
    BY RiskScoreRange
  <1>3. OrElse(p.seal, NoSeal, OrElse(before.seal, NoSeal, UnknownSeal))
            \in Seals \cup {NoSeal, UnknownSeal}
    BY DEF OrElse, Payload, State
  <1>4. ReportedWeight(p, before) \in Nat \cup {NoWeight}
    BY DEF ReportedWeight, OrElse, Payload, State
  <1>5. resolveOutsideCustodySince(before, q.action, p.at) \in Nat \cup {NoTime}
    BY DEF resolveOutsideCustodySince, Payload, State
  <1>6. chainBroken(p, q.action, before) \in BOOLEAN
    BY DEF chainBroken
  <1>7. QED
    BY <1>1, <1>2, <1>3, <1>4, <1>5, <1>6 DEF buildState, State, Plan
(***************************************************************************)
(* Type correctness.                                                       *)
(***************************************************************************)
LEMMA TrimType ==
    ASSUME NEW S, NEW e \in S, NEW events \in Seq(S)
    PROVE  /\ Trim(<<e>> \o events) \in Seq(S)
           /\ Trim(<<e>> \o events) # <<>>
           /\ Trim(<<e>> \o events)[1] = e
  <1> DEFINE all == <<e>> \o events
  <1>1. all \in Seq(S) /\ Len(all) = 1 + Len(events) /\ all[1] = e
    OBVIOUS
  <1>2. CASE Len(all) > Retention
    <2>1. Retention \in 1 .. Len(all)
      BY <1>1, <1>2, RetentionAssumption
    <2>2. /\ SubSeq(all, 1, Retention) \in Seq(S)
          /\ Len(SubSeq(all, 1, Retention)) = Retention
          /\ SubSeq(all, 1, Retention)[1] = all[1]
      BY <1>1, <2>1, RetentionAssumption
    <2>3. QED
      BY <1>1, <1>2, <2>2, RetentionAssumption DEF Trim
  <1>3. CASE ~(Len(all) > Retention)
    BY <1>1, <1>3 DEF Trim
  <1>4. QED
    BY <1>2, <1>3

\* From the read of the latest event on, a request has built its event.
Built == {"push", "insert", "evidence", "set", "upsert", "log", "alert",
          "respond", "notify", "done"}

EventBuilt ==
    \A r \in Requests : pc[r] \in Built => event[r] \in Event /\ event[r].id = r

TypeInv == TypeOK /\ EventBuilt

LEMMA TypeInit == Init => TypeInv
  BY NoStateType, BodyAssumption
  DEF Init, TypeInv, TypeOK, EventBuilt, Built, Event, NoEvent, Plan

LEMMA TypeStep == TypeInv /\ [Next]_vars => TypeInv'
  <1> SUFFICES ASSUME TypeInv, [Next]_vars PROVE TypeInv'
    OBVIOUS
  <1> USE DEF TypeInv, TypeOK
  <1>1. ASSUME NEW r \in Requests, Begin(r) PROVE TypeInv'
    <2>1. PICK p \in Body[r] :
             /\ body' = [body EXCEPT ![r] = p]
             /\ plan' = [plan EXCEPT ![r] = [action |-> p.action, score |-> p.score]]
             /\ GoTo(r, IF p.kind = "direct" THEN "get2" ELSE "get1")
      BY <1>1 DEF Begin
    <2>2. p \in Payload /\ [action |-> p.action, score |-> p.score] \in Plan
      BY BodyAssumption DEF Payload, Plan
    <2>3. overlap' \subseteq Requests \X Requests
      BY <1>1 DEF Begin, InFlight
    <2>4. pc' \in [Requests -> Stages \cup {"idle", "done", "aborted"}]
      BY <2>1 DEF GoTo, Stages
    <2>5. TypeOK'
      BY <1>1, <2>1, <2>2, <2>3, <2>4 DEF Begin, redisVars, durableVars
    <2>6. EventBuilt'
      BY <1>1 DEF Begin, GoTo, EventBuilt, Built
    <2>7. QED
      BY <2>5, <2>6
  <1>2. ASSUME NEW r \in Requests, NEW here \in Stages, NEW onMiss \in Stages \ Built,
               NEW next \in Stages \ Built, GetState(r, here, onMiss, next)
        PROVE  TypeInv'
    <2>1. redisState[cargoOf(r)] \in State
      BY DEF cargoOf, Payload
    <2>2. prev' \in [Requests -> State]
      BY <1>2, <2>1 DEF GetState
    <2>3. pc' \in [Requests -> Stages \cup {"idle", "done", "aborted"}]
      BY <1>2 DEF GetState, GoTo
    <2>4. TypeOK'
      BY <1>2, <2>2, <2>3 DEF GetState, redisVars, durableVars, ghostVars
    <2>5. EventBuilt'
      BY <1>2 DEF GetState, GoTo, EventBuilt
    <2>6. QED
      BY <2>4, <2>5
  <1>3. ASSUME NEW r \in Requests, NEW here \in Stages, NEW onFound \in Stages \ Built,
               NEW next \in Stages \ Built, LoadState(r, here, onFound, next)
        PROVE  TypeInv'
    <2>1. TypeOK'
      BY <1>3
      DEF LoadState, GoTo, cargoOf, Payload, redisVars, durableVars, ghostVars
    <2>2. EventBuilt'
      BY <1>3 DEF LoadState, GoTo, EventBuilt
    <2>3. QED
      BY <2>1, <2>2
  <1>4. ASSUME NEW r \in Requests, NEW here \in Stages, NEW next \in Stages \ Built,
               FillState(r, here, next)
        PROVE  TypeInv'
    <2>1. TypeOK'
      BY <1>4 DEF FillState, GoTo, cargoOf, Payload, durableVars, ghostVars
    <2>2. EventBuilt'
      BY <1>4 DEF FillState, GoTo, EventBuilt
    <2>3. QED
      BY <2>1, <2>2
  <1>5. ASSUME NEW r \in Requests, Decide(r) PROVE TypeInv'
    <2>1. plan'[r] \in Plan
      BY <1>5, IntegrityScoreRange
      DEF Decide, Plan, Payload, inferredAction, reloadAction, OrElse, CARGO_EVENTS
    <2>2. TypeOK'
      BY <1>5, <2>1 DEF Decide, GoTo, Stages, redisVars, durableVars, ghostVars
    <2>3. EventBuilt'
      BY <1>5 DEF Decide, GoTo, EventBuilt, Built
    <2>4. QED
      BY <2>2, <2>3
  <1>6. ASSUME NEW r \in Requests, GetLatestEvent(r) PROVE TypeInv'
    <2>1. LatestHash(cargoOf(r)) \in Requests \cup {Genesis}
      <3>1. redisLedger[cargoOf(r)] \in Seq(Event)
        BY DEF cargoOf, Payload
      <3>2. redisLedger[cargoOf(r)] = <<>> \/ redisLedger[cargoOf(r)][1] \in Event
        BY <3>1
      <3>3. QED
        BY <3>2 DEF LatestHash, Event
    <2>2. buildState(r, body[r], plan[r].action, plan[r].score, prev[r]) \in State
      BY BuildStateType
    <2>3. event'[r] \in Event /\ event'[r].id = r
      BY <1>6, <2>1, <2>2 DEF GetLatestEvent, Event
    <2>4. TypeOK'
      BY <1>6, <2>3 DEF GetLatestEvent, GoTo, Stages, redisVars, durableVars, ghostVars
    <2>5. EventBuilt'
      BY <1>6, <2>3 DEF GetLatestEvent, GoTo, EventBuilt
    <2>6. QED
      BY <2>4, <2>5
  <1>7. ASSUME NEW r \in Requests, PushEvent(r) PROVE TypeInv'
    <2>1. event[r] \in Event /\ cargoOf(r) \in Cargo
      BY <1>7 DEF PushEvent, EventBuilt, Built, cargoOf, Payload
    <2>2. Trim(<<event[r]>> \o redisLedger[cargoOf(r)]) \in Seq(Event)
      BY <2>1, TrimType
    <2>3. TypeOK'
      BY <1>7, <2>1, <2>2 DEF PushEvent, GoTo, Stages, durableVars
    <2>4. EventBuilt'
      BY <1>7 DEF PushEvent, GoTo, EventBuilt, Built
    <2>5. QED
      BY <2>3, <2>4
  <1>8. ASSUME NEW r \in Requests, InsertEvent(r) PROVE TypeInv'
    <2>1. event[r] \in Event /\ cargoOf(r) \in Cargo
      BY <1>8 DEF InsertEvent, EventBuilt, Built, cargoOf, Payload
    <2>2. TypeOK'
      BY <1>8, <2>1 DEF InsertEvent, GoTo, Stages, redisVars, ghostVars
    <2>3. EventBuilt'
      BY <1>8 DEF InsertEvent, GoTo, EventBuilt, Built
    <2>4. QED
      BY <2>2, <2>3
  <1>9. ASSUME NEW r \in Requests, SaveEvidence(r) PROVE TypeInv'
    <2>1. TypeOK'
      BY <1>9 DEF SaveEvidence, GoTo, Stages, redisVars, ghostVars
    <2>2. EventBuilt'
      BY <1>9 DEF SaveEvidence, GoTo, EventBuilt, Built
    <2>3. QED
      BY <2>1, <2>2
  <1>10. ASSUME NEW r \in Requests, SetState(r) PROVE TypeInv'
    <2>1. event[r].state \in State /\ cargoOf(r) \in Cargo
      BY <1>10 DEF SetState, EventBuilt, Built, Event, cargoOf, Payload
    <2>2. TypeOK'
      BY <1>10, <2>1 DEF SetState, GoTo, Stages, durableVars, ghostVars
    <2>3. EventBuilt'
      BY <1>10 DEF SetState, GoTo, EventBuilt, Built
    <2>4. QED
      BY <2>2, <2>3
  <1>11. ASSUME NEW r \in Requests, UpsertState(r) PROVE TypeInv'
    <2>1. event[r].state \in State /\ cargoOf(r) \in Cargo
      BY <1>11 DEF UpsertState, EventBuilt, Built, Event, cargoOf, Payload
    <2>2. TypeOK'
      BY <1>11, <2>1 DEF UpsertState, GoTo, Stages, redisVars, ghostVars
    <2>3. EventBuilt'
      BY <1>11 DEF UpsertState, GoTo, EventBuilt, Built
    <2>4. QED
      BY <2>2, <2>3
  <1>12. ASSUME NEW r \in Requests, LogEvent(r) PROVE TypeInv'
    <2>1. TypeOK'
      BY <1>12 DEF LogEvent, GoTo, Stages, redisVars, ghostVars
    <2>2. EventBuilt'
      BY <1>12 DEF LogEvent, GoTo, EventBuilt, Built
    <2>3. QED
      BY <2>1, <2>2
  <1>13. ASSUME NEW r \in Requests, AppendAlert(r) PROVE TypeInv'
    <2>1. TypeOK'
      BY <1>13 DEF AppendAlert, GoTo, Stages, durableVars, ghostVars
    <2>2. EventBuilt'
      BY <1>13 DEF AppendAlert, GoTo, EventBuilt, Built
    <2>3. QED
      BY <2>1, <2>2
  <1>14. ASSUME NEW r \in Requests, OrchestrateCargoIncident(r) PROVE TypeInv'
    <2>1. TypeOK'
      BY <1>14 DEF OrchestrateCargoIncident, GoTo, Stages, cargoOf, Payload,
                   durableVars, ghostVars
    <2>2. EventBuilt'
      BY <1>14 DEF OrchestrateCargoIncident, GoTo, EventBuilt, Built
    <2>3. QED
      BY <2>1, <2>2
  <1>15. ASSUME NEW r \in Requests, LogIncident(r) PROVE TypeInv'
    <2>1. TypeOK'
      BY <1>15 DEF LogIncident, GoTo, redisVars, ghostVars
    <2>2. EventBuilt'
      BY <1>15 DEF LogIncident, GoTo, EventBuilt, Built
    <2>3. QED
      BY <2>1, <2>2
  <1>16. ASSUME Crash PROVE TypeInv'
    <2>1. /\ redisLedger' \in [Cargo -> Seq(Event)] /\ redisState' \in [Cargo -> State]
          /\ alerts' \subseteq Requests /\ holds' \subseteq Cargo /\ epoch' \in Nat
      <3>1. CASE LoseRedis
        <4>1. <<>> \in Seq(Event)
          OBVIOUS
        <4>2. QED
          BY <3>1, <4>1, NoStateType DEF LoseRedis
      <3>2. CASE UNCHANGED <<redisVars, epoch>>
        BY <3>2 DEF redisVars
      <3>3. QED
        BY <1>16, <3>1, <3>2 DEF Crash
    <2>2. /\ ledger' \in [Cargo -> SUBSET Event] /\ ledgerState' \in [Cargo -> State]
          /\ evidence' \subseteq Requests
          /\ audit' \subseteq {"cargo-custody-event", "cargo-custody-incident"} \X Requests
      BY <1>16, NoStateType DEF Crash, LoseLedger, durableVars
    <2>3. TypeOK'
      BY <1>16, <2>1, <2>2 DEF Crash, InFlight
    <2>4. EventBuilt'
      BY <1>16 DEF Crash, EventBuilt, Built
    <2>5. QED
      BY <2>3, <2>4
  <1>17. CASE UNCHANGED vars
    BY <1>17 DEF vars, requestVars, redisVars, durableVars, ghostVars, EventBuilt
  <1>18. ASSUME NEW r \in Requests, Step(r) PROVE TypeInv'
    BY <1>2, <1>3, <1>4, <1>5, <1>6, <1>7, <1>8, <1>9, <1>10, <1>11, <1>12, <1>13,
       <1>14, <1>15, <1>18
    DEF Step, Stages, Built
  <1>19. QED
    BY <1>1, <1>16, <1>17, <1>18 DEF Next, Finished

\* Every variable of every reachable state has its type; in particular a
\* request past its read of the latest event holds a complete event.
THEOREM TypeCorrect == Spec => []TypeOK
  <1>1. TypeInv => TypeOK
    BY DEF TypeInv
  <1>2. QED
    BY TypeInit, TypeStep, <1>1, PTL DEF Spec

(***************************************************************************)
(* Forks of the hash chain.  ForkNeedsOverlap is not inductive: a push     *)
(* must find that every event it forks from overlaps it.  PushReady says   *)
(* so of every request between its read of the latest event and its push;  *)
(* HeadIsUnlinked makes it true at the read, where nothing links to the    *)
(* event that heads the list, or, when the list is empty, no event of this *)
(* Redis incarnation exists; InFlightOverlap keeps it true while others    *)
(* push; PushedFirst rules out a link to an event before it is pushed.     *)
(***************************************************************************)
InFlightOverlap ==
    \A r, q \in InFlight : r # q => Overlapped(r, q)

PastPush == {"insert", "evidence", "set", "upsert", "log", "alert", "respond",
             "notify", "done", "aborted"}

PushedFirst ==
    /\ \A c \in Cargo : \A e \in pushed[c] :
          /\ pc[e.id] \in PastPush
          /\ e.prev # Genesis => pc[e.prev] \in PastPush
          /\ e.epoch <= epoch
    /\ \A r \in Requests :
          (pc[r] = "push" /\ event[r].prev # Genesis) => pc[event[r].prev] \in PastPush

HeadIsUnlinked ==
    \A c \in Cargo : \A e \in pushed[c] :
        IF redisLedger[c] = <<>>
        THEN e.epoch # epoch
        ELSE redisLedger[c][1] \in pushed[c] /\ e.prev # redisLedger[c][1].id

ForkAllowed(e, f) ==
    \/ Overlapped(e.id, f.id) /\ Overlapped(f.id, e.id)
    \/ e.epoch # f.epoch /\ e.prev = Genesis

PushReady ==
    \A r \in Requests : pc[r] = "push" =>
        /\ event[r].epoch = epoch
        /\ \A e \in pushed[cargoOf(r)] : e.prev = event[r].prev => ForkAllowed(e, event[r])

Forks ==
    \A c \in Cargo : \A e, f \in pushed[c] :
        (e # f /\ e.prev = f.prev) => ForkAllowed(e, f)

\* The head of a list that is not empty was pushed.
HeadWasPushed ==
    \A c \in Cargo : redisLedger[c] # <<>> => redisLedger[c][1] \in pushed[c]

ForkInv ==
    /\ InFlightOverlap
    /\ PushedFirst
    /\ HeadWasPushed
    /\ HeadIsUnlinked
    /\ PushReady
    /\ Forks

\* A step of r that neither begins, nor reads the latest event, nor pushes.
QuietStep(r, next) ==
    /\ pc[r] \in Stages
    /\ next \in (Stages \cup {"done"}) \ {"push"}
    /\ pc[r] \in PastPush => next \in PastPush
    /\ pc' = [pc EXCEPT ![r] = next]
    /\ UNCHANGED <<redisLedger, pushed, epoch, overlap, event, body>>

LEMMA QuietSteps ==
    ASSUME NEW r \in Requests, Step(r)
    PROVE  \/ GetLatestEvent(r)
           \/ PushEvent(r)
           \/ \E next \in Stages \cup {"done"} : QuietStep(r, next)
  <1> USE DEF QuietStep, Stages, PastPush, GoTo, redisVars, durableVars, ghostVars
  <1>1. ASSUME NEW here \in {"get1", "get2"}, NEW onMiss \in {"load1", "load2"},
               NEW next \in {"decide", "latest"}, GetState(r, here, onMiss, next)
        PROVE  QuietStep(r, next) \/ QuietStep(r, onMiss)
    BY <1>1 DEF GetState
  <1>2. ASSUME NEW here \in {"load1", "load2"}, NEW onFound \in {"fill1", "fill2"},
               NEW next \in {"decide", "latest"}, LoadState(r, here, onFound, next)
        PROVE  QuietStep(r, next) \/ QuietStep(r, onFound)
    BY <1>2 DEF LoadState
  <1>3. ASSUME NEW here \in {"fill1", "fill2"}, NEW next \in {"decide", "latest"},
               FillState(r, here, next)
        PROVE  QuietStep(r, next)
    BY <1>3 DEF FillState
  <1>4. Decide(r) => QuietStep(r, "get2")
    BY DEF Decide
  <1>5. InsertEvent(r) => QuietStep(r, "evidence")
    BY DEF InsertEvent
  <1>6. SaveEvidence(r) => QuietStep(r, "set")
    BY DEF SaveEvidence
  <1>7. SetState(r) => QuietStep(r, "upsert")
    BY DEF SetState
  <1>8. UpsertState(r) => QuietStep(r, "log")
    BY DEF UpsertState
  <1>9. LogEvent(r) => QuietStep(r, "alert") \/ QuietStep(r, "done")
    BY DEF LogEvent
  <1>10. AppendAlert(r) => QuietStep(r, "respond")
    BY DEF AppendAlert
  <1>11. OrchestrateCargoIncident(r) => QuietStep(r, "notify")
    BY DEF OrchestrateCargoIncident
  <1>12. LogIncident(r) => QuietStep(r, "done")
    BY DEF LogIncident
  <1> HIDE DEF QuietStep
  <1>13. QED
    BY <1>1, <1>2, <1>3, <1>4, <1>5, <1>6, <1>7, <1>8, <1>9, <1>10, <1>11, <1>12
    DEF Step

LEMMA ForkInit == Init => ForkInv
  BY DEF Init, ForkInv, InFlightOverlap, InFlight, PushedFirst, HeadWasPushed,
         HeadIsUnlinked, PushReady, Forks, Stages

LEMMA ForkStep == TypeInv /\ ForkInv /\ [Next]_vars => ForkInv'
  <1> SUFFICES ASSUME TypeInv, ForkInv, [Next]_vars PROVE ForkInv'
    OBVIOUS
  <1> USE DEF ForkInv
  <1>1. ASSUME NEW r \in Requests, Begin(r) PROVE ForkInv'
    <2>1. /\ pc[r] = "idle"
          /\ \E s \in {"get1", "get2"} : pc' = [pc EXCEPT ![r] = s]
          /\ \A q \in Requests \ {r} : cargoOf(q)' = cargoOf(q)
          /\ overlap' = overlap \cup ({r} \X InFlight) \cup (InFlight \X {r})
          /\ UNCHANGED <<redisLedger, pushed, epoch, event>>
      BY <1>1 DEF Begin, GoTo, redisVars, cargoOf, TypeInv, TypeOK
    <2>2. InFlightOverlap'
      BY <2>1 DEF InFlightOverlap, InFlight, Overlapped, TypeInv, TypeOK
    <2>3. PushedFirst'
      BY <2>1 DEF PushedFirst, PastPush, TypeInv, TypeOK, Event
    <2>4. HeadWasPushed' /\ HeadIsUnlinked'
      BY <2>1 DEF HeadWasPushed, HeadIsUnlinked
    <2>5. PushReady'
      BY <2>1 DEF PushReady, ForkAllowed, Overlapped, TypeInv, TypeOK
    <2>6. Forks'
      BY <2>1 DEF Forks, ForkAllowed, Overlapped
    <2>7. QED
      BY <2>2, <2>3, <2>4, <2>5, <2>6
  <1>2. ASSUME NEW r \in Requests, GetLatestEvent(r) PROVE ForkInv'
    <2> DEFINE c == cargoOf(r)
    <2>1. /\ pc[r] = "latest"
          /\ pc' = [pc EXCEPT ![r] = "push"]
          /\ event'[r].id = r /\ event'[r].prev = LatestHash(c) /\ event'[r].epoch = epoch
          /\ \A q \in Requests \ {r} : event'[q] = event[q]
          /\ \A q \in Requests : cargoOf(q)' = cargoOf(q)
          /\ UNCHANGED <<redisLedger, pushed, epoch, overlap, body>>
      BY <1>2 DEF GetLatestEvent, GoTo, redisVars, ghostVars, cargoOf, TypeInv, TypeOK
    <2>2. c \in Cargo /\ redisLedger[c] \in Seq(Event)
      BY DEF cargoOf, TypeInv, TypeOK, Payload
    <2>3. redisLedger[c] # <<>> => /\ redisLedger[c][1] \in pushed[c]
                                   /\ redisLedger[c][1].id \in Requests
      <3>1. redisLedger[c] # <<>> => redisLedger[c][1] \in Event
        BY <2>2
      <3>2. QED
        BY <2>2, <3>1 DEF HeadWasPushed, Event
    <2>4. \A e \in pushed[c] : e.prev = LatestHash(c) => e.epoch # epoch /\ e.prev = Genesis
      BY <2>2, <2>3, GenesisAssumption DEF HeadIsUnlinked, LatestHash
    <2>5. LatestHash(c) # Genesis => pc[LatestHash(c)] \in PastPush
      BY <2>2, <2>3 DEF LatestHash, PushedFirst
    <2>6. InFlightOverlap'
      BY <2>1 DEF InFlightOverlap, InFlight, Overlapped, Stages, TypeInv, TypeOK
    <2>7. PushedFirst'
      BY <2>1, <2>5 DEF PushedFirst, PastPush, TypeInv, TypeOK, Event
    <2>8. HeadWasPushed' /\ HeadIsUnlinked'
      BY <2>1 DEF HeadWasPushed, HeadIsUnlinked
    <2>9. PushReady'
      BY <2>1, <2>4 DEF PushReady, ForkAllowed, Overlapped, TypeInv, TypeOK
    <2>10. Forks'
      BY <2>1 DEF Forks, ForkAllowed, Overlapped
    <2>11. QED
      BY <2>6, <2>7, <2>8, <2>9, <2>10
  <1>3. ASSUME NEW r \in Requests, PushEvent(r) PROVE ForkInv'
    <2> DEFINE c == cargoOf(r)
               new == event[r]
    <2>1. /\ pc[r] = "push"
          /\ pc' = [pc EXCEPT ![r] = "insert"]
          /\ redisLedger' = [redisLedger EXCEPT ![c] = Trim(<<new>> \o @)]
          /\ pushed' = [pushed EXCEPT ![c] = @ \cup {new}]
          /\ \A q \in Requests : cargoOf(q)' = cargoOf(q)
          /\ UNCHANGED <<event, epoch, overlap, body>>
      BY <1>3 DEF PushEvent, GoTo, cargoOf
    <2>2. /\ c \in Cargo /\ redisLedger[c] \in Seq(Event)
          /\ new \in Event /\ new.id = r /\ new.epoch = epoch
      BY <2>1 DEF cargoOf, TypeInv, TypeOK, Payload, EventBuilt, Built, PushReady
    <2>3. redisLedger'[c] # <<>> /\ redisLedger'[c][1] = new
      BY <2>1, <2>2, TrimType DEF TypeInv, TypeOK
    <2>4. \A q \in Requests : pc[q] \in PastPush => pc'[q] \in PastPush
      BY <2>1 DEF PastPush, TypeInv, TypeOK
    <2>5. /\ pushed'[c] = pushed[c] \cup {new}
          /\ \A d \in Cargo \ {c} : /\ pushed'[d] = pushed[d]
                                    /\ redisLedger'[d] = redisLedger[d]
      BY <2>1, <2>2 DEF TypeInv, TypeOK
    <2>6. /\ pc[r] \notin PastPush /\ pc'[r] \in PastPush
          /\ \A q \in Requests : pc'[q] = "push" => pc[q] = "push" /\ q # r
      BY <2>1 DEF PastPush, TypeInv, TypeOK
    <2>7. InFlightOverlap'
      BY <2>1 DEF InFlightOverlap, InFlight, Overlapped, Stages, TypeInv, TypeOK
    <2>8. PushedFirst'
      <3>1. /\ pc'[new.id] \in PastPush
            /\ new.prev # Genesis => pc'[new.prev] \in PastPush
            /\ new.epoch <= epoch'
        <4>1. epoch \in Nat
          BY DEF TypeInv, TypeOK
        <4>2. new.prev # Genesis => pc[new.prev] \in PastPush
          BY <2>1 DEF PushedFirst
        <4>3. new.prev \in Requests \cup {Genesis}
          BY <2>2 DEF Event
        <4>4. QED
          BY <2>1, <2>2, <2>4, <2>6, <4>1, <4>2, <4>3
      <3>2. ASSUME NEW d \in Cargo, NEW e \in pushed[d]
            PROVE  /\ pc'[e.id] \in PastPush
                   /\ e.prev # Genesis => pc'[e.prev] \in PastPush
                   /\ e.epoch <= epoch'
        BY <2>1, <2>4 DEF PushedFirst, Event, TypeInv, TypeOK
      <3>3. ASSUME NEW q \in Requests, pc'[q] = "push", event'[q].prev # Genesis
            PROVE  pc'[event'[q].prev] \in PastPush
        BY <2>1, <2>4, <2>6, <3>3 DEF PushedFirst, EventBuilt, Built, Event, TypeInv
      <3>4. QED
        BY <2>5, <3>1, <3>2, <3>3 DEF PushedFirst
    <2>9. HeadWasPushed'
      BY <2>2, <2>3, <2>5 DEF HeadWasPushed
    <2>10. HeadIsUnlinked'
      <3>1. new.prev # r
        BY <2>1, <2>2, <2>6, GenesisAssumption DEF PushedFirst
      <3>2. \A e \in pushed[c] : e.prev # r
        BY <2>2, <2>6, GenesisAssumption DEF PushedFirst
      <3>3. QED
        BY <2>1, <2>2, <2>3, <2>5, <3>1, <3>2 DEF HeadIsUnlinked
    <2>11. PushReady'
      <3> SUFFICES ASSUME NEW q \in Requests, pc'[q] = "push"
                   PROVE  /\ event'[q].epoch = epoch'
                          /\ \A e \in pushed'[cargoOf(q)'] :
                                e.prev = event'[q].prev => ForkAllowed(e, event[q])'
        BY DEF PushReady, ForkAllowed, Overlapped
      <3>1. /\ pc[q] = "push" /\ q # r /\ event[q].id = q
            /\ event[q].epoch = epoch
        BY <2>6 DEF PushReady, TypeInv, EventBuilt, Built
      <3>2. Overlapped(r, q) /\ Overlapped(q, r)
        BY <2>1, <3>1 DEF InFlightOverlap, InFlight, Stages
      <3>3. \A e \in pushed[cargoOf(q)] :
               e.prev = event[q].prev => ForkAllowed(e, event[q])
        BY <3>1 DEF PushReady
      <3>4. cargoOf(q) \in Cargo
        BY DEF cargoOf, TypeInv, TypeOK, Payload
      <3>5. ForkAllowed(new, event[q])
        BY <2>2, <3>1, <3>2 DEF ForkAllowed
      <3>6. \A e \in pushed'[cargoOf(q)] : e \in pushed[cargoOf(q)] \/ e = new
        BY <2>5, <3>4
      <3>7. QED
        BY <2>1, <3>1, <3>3, <3>5, <3>6 DEF ForkAllowed, Overlapped
    <2>12. Forks'
      <3>1. \A e \in pushed[c] : e.prev = new.prev => ForkAllowed(e, new) /\ ForkAllowed(new, e)
        <4>1. ASSUME NEW e \in pushed[c], e.prev = new.prev PROVE ForkAllowed(e, new)
          BY <2>1, <4>1 DEF PushReady
        <4>2. ASSUME NEW e \in pushed[c], e.prev = new.prev PROVE ForkAllowed(new, e)
          BY <4>1, <4>2 DEF ForkAllowed
        <4>3. QED
          BY <4>1, <4>2
      <3>2. \A d \in Cargo : \A e, f \in pushed'[d] :
               (e # f /\ e.prev = f.prev) => ForkAllowed(e, f)
        BY <2>5, <3>1 DEF Forks
      <3>3. QED
        BY <2>1, <3>2 DEF Forks, ForkAllowed, Overlapped
    <2>13. QED
      BY <2>7, <2>8, <2>9, <2>10, <2>11, <2>12
  <1>4. ASSUME NEW r \in Requests, NEW next \in Stages \cup {"done"}, QuietStep(r, next)
        PROVE  ForkInv'
    <2>1. /\ \A q \in Requests : pc[q] \in PastPush => pc'[q] \in PastPush
          /\ \A q \in Requests : pc'[q] = "push" => pc[q] = "push"
          /\ \A q \in Requests : pc'[q] \in Stages => pc[q] \in Stages
          /\ \A q \in Requests : cargoOf(q)' = cargoOf(q)
          /\ UNCHANGED <<redisLedger, pushed, epoch, overlap, event>>
      BY <1>4 DEF QuietStep, cargoOf, TypeInv, TypeOK
    <2>2. InFlightOverlap'
      BY <2>1 DEF InFlightOverlap, InFlight, Overlapped
    <2>3. PushedFirst'
      BY <2>1 DEF PushedFirst, TypeInv, TypeOK, Event, EventBuilt, Built
    <2>4. HeadWasPushed' /\ HeadIsUnlinked'
      BY <2>1 DEF HeadWasPushed, HeadIsUnlinked
    <2>5. PushReady'
      BY <2>1 DEF PushReady, ForkAllowed, Overlapped
    <2>6. Forks'
      BY <2>1 DEF Forks, ForkAllowed, Overlapped
    <2>7. QED
      BY <2>2, <2>3, <2>4, <2>5, <2>6
  <1>5. ASSUME Crash PROVE ForkInv'
    <2>1. /\ \A q \in Requests : pc[q] \in PastPush => pc'[q] \in PastPush
          /\ \A q \in Requests : pc'[q] \notin Stages
          /\ UNCHANGED <<event, pushed, overlap, body>>
      BY <1>5 DEF Crash, PastPush, InFlight, Stages, TypeInv, TypeOK
    <2>2. \/ UNCHANGED <<redisLedger, epoch>>
          \/ epoch' = epoch + 1 /\ \A c \in Cargo : redisLedger'[c] = <<>>
      BY <1>5 DEF Crash, LoseRedis, redisVars
    <2>3. epoch \in Nat
      BY DEF TypeInv, TypeOK
    <2>4. \A c \in Cargo : \A e \in pushed[c] : e.epoch \in Nat /\ e.epoch <= epoch
      BY DEF PushedFirst, TypeInv, TypeOK, Event
    <2>5. InFlightOverlap' /\ PushReady'
      BY <2>1 DEF InFlightOverlap, InFlight, PushReady, Stages
    <2>6. PushedFirst'
      <3>1. \A c \in Cargo : \A e \in pushed[c] :
               e.id \in Requests /\ e.prev \in Requests \cup {Genesis}
        BY DEF TypeInv, TypeOK, Event
      <3>2. \A c \in Cargo : \A e \in pushed[c] :
               /\ pc'[e.id] \in PastPush
               /\ e.prev # Genesis => pc'[e.prev] \in PastPush
               /\ e.epoch <= epoch'
        BY <2>1, <2>2, <2>3, <2>4, <3>1 DEF PushedFirst
      <3>3. QED
        BY <2>1, <3>2 DEF PushedFirst, Stages
    <2>7. HeadWasPushed' /\ HeadIsUnlinked'
      BY <2>1, <2>2, <2>3, <2>4 DEF HeadWasPushed, HeadIsUnlinked
    <2>8. Forks'
      BY <2>1 DEF Forks, ForkAllowed, Overlapped
    <2>9. QED
      BY <2>5, <2>6, <2>7, <2>8
  <1>6. CASE UNCHANGED vars
    BY <1>6 DEF vars, requestVars, redisVars, durableVars, ghostVars, InFlightOverlap,
                InFlight, PushedFirst, HeadWasPushed, HeadIsUnlinked, PushReady, Forks,
                ForkAllowed, Overlapped, cargoOf
  <1>7. ASSUME NEW r \in Requests, Step(r) PROVE ForkInv'
    BY <1>2, <1>3, <1>4, <1>7, QuietSteps
  <1>8. QED
    BY <1>1, <1>5, <1>6, <1>7 DEF Next, Finished

\* ForkNeedsOverlap holds for any number of requests, cargo and crashes: two
\* custody events name the same predecessor only when their requests were in
\* flight together, or when both start at GENESIS in different Redis
\* incarnations.
THEOREM ForkSafety == Spec => []ForkNeedsOverlap
  <1>1. TypeInv /\ ForkInv => ForkNeedsOverlap
    BY DEF ForkInv, Forks, ForkAllowed, ForkNeedsOverlap
  <1>2. QED
    BY TypeInit, TypeStep, ForkInit, ForkStep, <1>1, PTL DEF Spec

(***************************************************************************)
(* Gaps of the durable ledger.  What a pushed event links to was pushed    *)
(* before; what was pushed is inserted next, unless its request is cut     *)
(* off.                                                                    *)
(***************************************************************************)
Linked(c, e) == e.prev = Genesis \/ \E f \in pushed[c] : f.id = e.prev

Inserted(c, id) == pc[id] \in {"insert", "aborted"} \/ \E f \in ledger[c] : f.id = id

PushedInOrder ==
    \A c \in Cargo :
        /\ ledger[c] \subseteq pushed[c]
        /\ \A e \in pushed[c] : Linked(c, e) /\ cargoOf(e.id) = c
        /\ ~LedgerMayBeLost => \A e \in pushed[c] : Inserted(c, e.id)

AboutToWrite ==
    \A r \in Requests :
        /\ pc[r] = "push" => Linked(cargoOf(r), event[r])
        /\ pc[r] = "insert" => event[r] \in pushed[cargoOf(r)]

GapInv == PushedInOrder /\ AboutToWrite

LEMMA GapInit == Init => GapInv
  BY DEF Init, GapInv, PushedInOrder, AboutToWrite

\* A step that touches neither the ledgers nor an event.
LEMMA LedgerSteps ==
    ASSUME NEW r \in Requests, Step(r),
           ~GetLatestEvent(r), ~PushEvent(r), ~InsertEvent(r)
    PROVE  /\ pc[r] \in Stages \ {"latest", "push", "insert"}
           /\ \E next \in (Stages \cup {"done"}) \ {"push", "insert"} :
                 pc' = [pc EXCEPT ![r] = next]
           /\ UNCHANGED <<redisLedger, ledger, pushed, event, body, epoch>>
  BY DEF Step, GetState, LoadState, FillState, Decide, SaveEvidence, SetState, UpsertState,
         LogEvent, AppendAlert, OrchestrateCargoIncident, LogIncident, GoTo, Stages,
         redisVars, durableVars, ghostVars

LEMMA GapStep == TypeInv /\ ForkInv /\ GapInv /\ [Next]_vars => GapInv'
  <1> SUFFICES ASSUME TypeInv, ForkInv, GapInv, [Next]_vars PROVE GapInv'
    OBVIOUS
  <1>1. \A c \in Cargo : \A e \in pushed[c] :
            /\ e.id \in Requests /\ pc[e.id] \in PastPush
            /\ Linked(c, e) /\ cargoOf(e.id) = c
            /\ ~LedgerMayBeLost => Inserted(c, e.id)
    BY DEF TypeInv, TypeOK, Event, ForkInv, PushedFirst, GapInv, PushedInOrder
  <1>2. ASSUME UNCHANGED <<pushed, ledger>>,
               \A c \in Cargo : \A e \in pushed[c] :
                   /\ cargoOf(e.id)' = cargoOf(e.id)
                   /\ pc[e.id] \in {"insert", "aborted"} => pc'[e.id] \in {"insert", "aborted"},
               AboutToWrite'
        PROVE  GapInv'
    BY <1>1, <1>2 DEF GapInv, PushedInOrder, Linked, Inserted
  <1>3. ASSUME NEW r \in Requests, Begin(r) PROVE GapInv'
    <2>1. /\ pc[r] = "idle" /\ pc'[r] \in {"get1", "get2"}
          /\ UNCHANGED <<pushed, ledger, event>>
          /\ \A q \in Requests \ {r} : pc'[q] = pc[q] /\ body'[q] = body[q]
      BY <1>3 DEF Begin, GoTo, durableVars, TypeInv, TypeOK
    <2>2. AboutToWrite'
      BY <2>1 DEF GapInv, AboutToWrite, Linked, cargoOf
    <2>3. QED
      BY <1>1, <1>2, <2>1, <2>2 DEF PastPush, cargoOf
  <1>4. ASSUME NEW r \in Requests, GetLatestEvent(r) PROVE GapInv'
    <2>1. /\ pc[r] = "latest" /\ pc' = [pc EXCEPT ![r] = "push"]
          /\ UNCHANGED <<redisLedger, pushed, ledger, body>>
          /\ event'[r].prev = LatestHash(cargoOf(r))
          /\ \A q \in Requests \ {r} : event'[q] = event[q]
      BY <1>4 DEF GetLatestEvent, GoTo, redisVars, durableVars, ghostVars, TypeInv, TypeOK
    <2>2. cargoOf(r) \in Cargo
      BY DEF cargoOf, TypeInv, TypeOK, Payload
    <2>3. Linked(cargoOf(r), event[r])'
      BY <2>1, <2>2 DEF Linked, LatestHash, ForkInv, HeadWasPushed, cargoOf
    <2>4. AboutToWrite'
      BY <2>1, <2>3 DEF GapInv, AboutToWrite, Linked, cargoOf, TypeInv, TypeOK
    <2>5. QED
      BY <1>1, <1>2, <2>1, <2>4 DEF PastPush, cargoOf, TypeInv, TypeOK
  <1>5. ASSUME NEW r \in Requests, PushEvent(r) PROVE GapInv'
    <2> DEFINE d == cargoOf(r)
               new == event[r]
    <2>1. /\ pc[r] = "push" /\ pc' = [pc EXCEPT ![r] = "insert"]
          /\ pushed' = [pushed EXCEPT ![d] = @ \cup {new}]
          /\ UNCHANGED <<ledger, event, body>>
      BY <1>5 DEF PushEvent, GoTo, durableVars
    <2>2. d \in Cargo /\ new.id = r /\ Linked(d, new)
      BY <2>1 DEF cargoOf, TypeInv, TypeOK, Payload, EventBuilt, Built, GapInv, AboutToWrite
    <2>3. /\ pushed'[d] = pushed[d] \cup {new}
          /\ \A c \in Cargo \ {d} : pushed'[c] = pushed[c]
          /\ pc'[r] = "insert" /\ \A q \in Requests \ {r} : pc'[q] = pc[q]
      BY <2>1, <2>2 DEF TypeInv, TypeOK
    <2>4. ASSUME NEW c \in Cargo, NEW e, Linked(c, e) PROVE Linked(c, e)'
      BY <2>3, <2>4 DEF Linked
    <2>5. ASSUME NEW c \in Cargo
          PROVE  /\ ledger'[c] \subseteq pushed'[c]
                 /\ \A e \in pushed'[c] : Linked(c, e)' /\ cargoOf(e.id)' = c
                 /\ ~LedgerMayBeLost => \A e \in pushed'[c] : Inserted(c, e.id)'
      <3>1. ledger'[c] \subseteq pushed'[c]
        BY <2>1, <2>3 DEF GapInv, PushedInOrder
      <3>2. ASSUME NEW e \in pushed'[c] PROVE Linked(c, e)' /\ cargoOf(e.id)' = c
        <4>1. e \in pushed[c] \/ (c = d /\ e = new)
          BY <2>3
        <4>2. QED
          BY <4>1, <1>1, <2>1, <2>2, <2>4 DEF cargoOf
      <3>3. ASSUME ~LedgerMayBeLost, NEW e \in pushed'[c] PROVE Inserted(c, e.id)'
        <4>1. e \in pushed[c] \/ e = new
          BY <2>3
        <4>2. CASE e = new
          BY <4>2, <2>2, <2>3 DEF Inserted
        <4>3. CASE e \in pushed[c]
          BY <4>3, <3>3, <1>1, <2>1, <2>3 DEF Inserted
        <4>4. QED
          BY <4>1, <4>2, <4>3
      <3>4. QED
        BY <3>1, <3>2, <3>3
    <2>6. AboutToWrite'
      <3>1. ASSUME NEW q \in Requests, pc'[q] = "push" PROVE Linked(cargoOf(q), event[q])'
        <4>1. Linked(cargoOf(q), event[q]) /\ cargoOf(q) \in Cargo
          BY <2>3, <3>1 DEF GapInv, AboutToWrite, cargoOf, TypeInv, TypeOK, Payload
        <4>2. QED
          BY <2>1, <2>3, <4>1 DEF Linked, cargoOf
      <3>2. ASSUME NEW q \in Requests, pc'[q] = "insert"
            PROVE  event'[q] \in pushed'[cargoOf(q)']
        <4>1. cargoOf(q) \in Cargo
          BY DEF cargoOf, TypeInv, TypeOK, Payload
        <4>2. QED
          BY <2>1, <2>3, <3>2, <4>1 DEF GapInv, AboutToWrite, cargoOf
      <3>3. QED
        BY <3>1, <3>2 DEF AboutToWrite
    <2>7. QED
      BY <2>5, <2>6 DEF GapInv, PushedInOrder
  <1>6. ASSUME NEW r \in Requests, InsertEvent(r) PROVE GapInv'
    <2> DEFINE d == cargoOf(r)
    <2>1. /\ pc[r] = "insert" /\ pc' = [pc EXCEPT ![r] = "evidence"]
          /\ ledger' = [ledger EXCEPT ![d] = @ \cup {event[r]}]
          /\ UNCHANGED <<pushed, event, body>>
      BY <1>6 DEF InsertEvent, GoTo, ghostVars
    <2>2. d \in Cargo /\ event[r].id = r /\ event[r] \in pushed[d]
      BY <2>1 DEF cargoOf, TypeInv, TypeOK, Payload, EventBuilt, Built, GapInv, AboutToWrite
    <2>3. /\ ledger'[d] = ledger[d] \cup {event[r]}
          /\ \A c \in Cargo \ {d} : ledger'[c] = ledger[c]
          /\ \A q \in Requests \ {r} : pc'[q] = pc[q]
      BY <2>1, <2>2 DEF TypeInv, TypeOK
    <2>4. ASSUME NEW c \in Cargo, NEW e \in pushed[c], ~LedgerMayBeLost
          PROVE  Inserted(c, e.id)'
      <3>1. CASE e.id = r
        BY <1>1, <2>2, <2>3, <3>1 DEF Inserted
      <3>2. CASE e.id # r
        BY <1>1, <2>3, <2>4, <3>2 DEF Inserted
      <3>3. QED
        BY <3>1, <3>2
    <2>5. PushedInOrder'
      <3>1. \A c \in Cargo : ledger'[c] \subseteq pushed[c]
        BY <2>2, <2>3 DEF GapInv, PushedInOrder
      <3>2. QED
        BY <1>1, <2>1, <2>4, <3>1 DEF PushedInOrder, Linked, cargoOf
    <2>6. AboutToWrite'
      BY <2>1 DEF GapInv, AboutToWrite, Linked, cargoOf, TypeInv, TypeOK
    <2>7. QED
      BY <2>5, <2>6 DEF GapInv
  <1>7. ASSUME NEW r \in Requests, Step(r),
               ~GetLatestEvent(r), ~PushEvent(r), ~InsertEvent(r)
        PROVE  GapInv'
    <2>1. /\ pc[r] \in Stages \ {"latest", "push", "insert"}
          /\ pc'[r] \notin {"push", "insert"}
          /\ \A q \in Requests \ {r} : pc'[q] = pc[q]
          /\ UNCHANGED <<ledger, pushed, event, body>>
      BY <1>7, LedgerSteps DEF TypeInv, TypeOK
    <2>2. AboutToWrite'
      BY <2>1 DEF GapInv, AboutToWrite, Linked, cargoOf
    <2>3. QED
      BY <1>1, <1>2, <2>1, <2>2 DEF Stages, cargoOf
  <1>8. ASSUME Crash PROVE GapInv'
    <2>1. /\ \A q \in Requests : pc'[q] \notin Stages
          /\ \A q \in Requests : pc'[q] = pc[q] \/ pc'[q] = "aborted"
          /\ UNCHANGED <<pushed, event, body>>
          /\ \/ ledger' = ledger
             \/ LedgerMayBeLost /\ ledger' = [c \in Cargo |-> {}]
      BY <1>8 DEF Crash, LoseLedger, durableVars, InFlight, Stages, TypeInv, TypeOK
    <2>2. AboutToWrite'
      BY <2>1 DEF AboutToWrite, Stages
    <2>3. CASE ledger' = ledger
      BY <1>1, <1>2, <2>1, <2>2, <2>3 DEF cargoOf, PastPush
    <2>4. CASE LedgerMayBeLost /\ ledger' = [c \in Cargo |-> {}]
      BY <1>1, <2>1, <2>2, <2>4 DEF GapInv, PushedInOrder, Linked, cargoOf
    <2>5. QED
      BY <2>1, <2>3, <2>4
  <1>9. CASE UNCHANGED vars
    BY <1>9 DEF vars, requestVars, redisVars, durableVars, ghostVars, GapInv, PushedInOrder,
                AboutToWrite, Linked, Inserted, cargoOf
  <1>10. QED
    BY <1>3, <1>4, <1>5, <1>6, <1>7, <1>8, <1>9 DEF Next, Finished

\* GapNeedsCrash for any number of requests, cargo and crashes: a durable
\* event whose predecessor is missing follows one whose request is between its
\* two appends, or was cut off there.
THEOREM GapSafety == Spec => []GapNeedsCrash
  <1>1. TypeInv /\ GapInv => GapNeedsCrash
    <2> SUFFICES ASSUME GapInv, ~LedgerMayBeLost, NEW c \in Cargo, NEW e \in ledger[c],
                        e.prev # Genesis
                 PROVE  Inserted(c, e.prev)
      BY DEF GapNeedsCrash, Inserted
    <2>1. PICK f \in pushed[c] : f.id = e.prev
      BY DEF GapInv, PushedInOrder, Linked
    <2>2. QED
      BY <2>1 DEF GapInv, PushedInOrder
  <1>2. QED
    BY TypeInit, TypeStep, ForkInit, ForkStep, GapInit, GapStep, <1>1, PTL DEF Spec

(***************************************************************************)
(* Incidents.  An event's epoch tells whether Redis was lost since it was  *)
(* built, and with it what the incident had left there.                    *)
(***************************************************************************)
IncidentLeft(r) ==
    /\ (pc[r] \in {"respond", "notify", "done"} /\ event[r].epoch = epoch) => r \in alerts
    /\ (pc[r] \in {"notify", "done"} /\ event[r].epoch = epoch) => cargoOf(r) \in holds
    /\ pc[r] = "done" => LedgerMayBeLost \/ <<"cargo-custody-incident", r>> \in audit

IncidentInv ==
    \A r \in Requests :
        /\ event[r].epoch <= epoch
        /\ Incident(event[r].state) => IncidentLeft(r)

LEMMA IncidentInit == Init => IncidentInv
  BY DEF Init, IncidentInv, IncidentLeft, NoEvent

LEMMA IncidentStep == TypeInv /\ IncidentInv /\ [Next]_vars => IncidentInv'
  <1> SUFFICES ASSUME TypeInv, IncidentInv, [Next]_vars PROVE IncidentInv'
    OBVIOUS
  <1>1. epoch \in Nat /\ \A r \in Requests : event[r].epoch \in Nat
    BY DEF TypeInv, TypeOK, Event, NoEvent
  \* A step of one request that builds no event and takes nothing away.
  <1>2. ASSUME NEW r \in Requests,
               /\ UNCHANGED <<event, epoch>>
               /\ alerts \subseteq alerts' /\ holds \subseteq holds' /\ audit \subseteq audit'
               /\ \A q \in Requests \ {r} : pc'[q] = pc[q] /\ body'[q] = body[q],
               Incident(event[r].state) => IncidentLeft(r)'
        PROVE  IncidentInv'
    <2>1. ASSUME NEW q \in Requests \ {r}, IncidentLeft(q) PROVE IncidentLeft(q)'
      BY <1>2, <2>1 DEF IncidentLeft, cargoOf
    <2>2. QED
      BY <1>2, <2>1 DEF IncidentInv, Incident
  <1> USE DEF GoTo, TypeInv, TypeOK
  <1>3. ASSUME NEW r \in Requests,
               \/ Begin(r) \/ Decide(r) \/ PushEvent(r) \/ InsertEvent(r) \/ SaveEvidence(r)
               \/ SetState(r) \/ UpsertState(r)
        PROVE  IncidentInv'
    <2>1. /\ UNCHANGED <<event, epoch, alerts, holds, audit>>
          /\ \A q \in Requests \ {r} : pc'[q] = pc[q] /\ body'[q] = body[q]
          /\ pc'[r] \notin {"respond", "notify", "done"}
      BY <1>3 DEF Begin, Decide, PushEvent, InsertEvent, SaveEvidence, SetState, UpsertState,
                  redisVars, durableVars, ghostVars
    <2>2. QED
      BY <2>1, <1>2 DEF IncidentLeft
  <1>4. ASSUME NEW r \in Requests, NEW here,
               NEW onMiss \in {"load1", "load2", "fill1", "fill2"},
               NEW next \in {"decide", "latest"},
               \/ GetState(r, here, onMiss, next) \/ LoadState(r, here, onMiss, next)
               \/ FillState(r, here, next)
        PROVE  IncidentInv'
    <2>1. /\ UNCHANGED <<event, epoch, alerts, holds, audit, body>>
          /\ \A q \in Requests \ {r} : pc'[q] = pc[q]
          /\ pc'[r] \notin {"respond", "notify", "done"}
      BY <1>4 DEF GetState, LoadState, FillState, redisVars, durableVars, ghostVars
    <2>2. QED
      BY <2>1, <1>2 DEF IncidentLeft
  <1>5. ASSUME NEW r \in Requests, GetLatestEvent(r) PROVE IncidentInv'
    <2>1. /\ UNCHANGED <<epoch, alerts, holds, audit, body>>
          /\ \A q \in Requests \ {r} : pc'[q] = pc[q] /\ event'[q] = event[q]
          /\ pc'[r] = "push" /\ event'[r].epoch = epoch
      BY <1>5 DEF GetLatestEvent, redisVars, durableVars, ghostVars
    <2>2. ASSUME NEW q \in Requests \ {r}, IncidentLeft(q) PROVE IncidentLeft(q)'
      BY <2>1, <2>2 DEF IncidentLeft, cargoOf
    <2>3. IncidentLeft(r)' /\ event'[r].epoch <= epoch'
      BY <2>1, <1>1 DEF IncidentLeft
    <2>4. QED
      BY <2>1, <2>2, <2>3 DEF IncidentInv, Incident
  <1>6. ASSUME NEW r \in Requests, LogEvent(r) PROVE IncidentInv'
    <2>1. Incident(event[r].state) => IncidentLeft(r)'
      BY <1>6 DEF LogEvent, IncidentLeft
    <2>2. QED
      BY <1>2, <1>6, <2>1 DEF LogEvent, redisVars, ghostVars
  <1>7. ASSUME NEW r \in Requests, AppendAlert(r) PROVE IncidentInv'
    <2>1. IncidentLeft(r)'
      BY <1>7 DEF AppendAlert, IncidentLeft
    <2>2. QED
      BY <1>2, <1>7, <2>1 DEF AppendAlert, durableVars, ghostVars
  <1>8. ASSUME NEW r \in Requests, OrchestrateCargoIncident(r) PROVE IncidentInv'
    <2>1. Incident(event[r].state) => IncidentLeft(r)'
      BY <1>8 DEF OrchestrateCargoIncident, IncidentInv, IncidentLeft, cargoOf, durableVars,
                  ghostVars
    <2>2. QED
      BY <1>2, <1>8, <2>1 DEF OrchestrateCargoIncident, durableVars, ghostVars
  <1>9. ASSUME NEW r \in Requests, LogIncident(r) PROVE IncidentInv'
    <2>1. Incident(event[r].state) => IncidentLeft(r)'
      BY <1>9 DEF LogIncident, IncidentInv, IncidentLeft, cargoOf, redisVars, ghostVars
    <2>2. QED
      BY <1>2, <1>9, <2>1 DEF LogIncident, redisVars, ghostVars
  <1>10. ASSUME Crash PROVE IncidentInv'
    <2>1. /\ UNCHANGED <<event, body>>
          /\ \A q \in Requests : pc'[q] = pc[q] \/ pc'[q] = "aborted"
          /\ \/ epoch' = epoch + 1
             \/ UNCHANGED <<epoch, alerts, holds>>
          /\ LedgerMayBeLost \/ audit' = audit
      BY <1>10 DEF Crash, LoseRedis, redisVars, durableVars
    <2>2. ASSUME NEW q \in Requests, IncidentLeft(q), event[q].epoch <= epoch
          PROVE  IncidentLeft(q)'
      BY <1>1, <2>1, <2>2 DEF IncidentLeft, cargoOf
    <2>3. QED
      BY <1>1, <2>1, <2>2 DEF IncidentInv, Incident
  <1>11. CASE UNCHANGED vars
    BY <1>11 DEF vars, requestVars, redisVars, durableVars, ghostVars, IncidentInv,
                 IncidentLeft, Incident, cargoOf
  <1>12. ASSUME NEW r \in Requests, Step(r) PROVE IncidentInv'
    BY <1>3, <1>4, <1>5, <1>6, <1>7, <1>8, <1>9, <1>12 DEF Step
  <1>13. QED
    BY <1>3, <1>10, <1>11, <1>12 DEF Next, Finished

\* AnsweredIncidentHandled for any number of requests, cargo and crashes: no
\* interleaving and no other request's incident keeps the alert, the hold or
\* the audit entry of an answered one away.
THEOREM IncidentSafety == Spec => []AnsweredIncidentHandled
  <1>1. IncidentInv => AnsweredIncidentHandled
    BY DEF IncidentInv, IncidentLeft, Incident, AnsweredIncidentHandled
  <1>2. QED
    BY TypeInit, TypeStep, IncidentInit, IncidentStep, <1>1, PTL DEF Spec

(***************************************************************************)
(* One writer at a time over a Redis that keeps its data.                  *)
(***************************************************************************)
OneInFlight == \A r, q \in InFlight : r = q

TipRead == \A r \in Requests : pc[r] = "push" => event[r].prev = LatestHash(cargoOf(r))

SerialInv == OneInFlight /\ overlap = {} /\ TipRead

LEMMA SerialInit == Init => SerialInv
  BY DEF Init, SerialInv, OneInFlight, TipRead, InFlight, Stages

LEMMA SerialStep ==
    ASSUME MaxInFlight = 1, TypeInv, SerialInv, [Next]_vars PROVE SerialInv'
  <1>1. ASSUME NEW r \in Requests, Begin(r) PROVE SerialInv'
    <2>1. InFlight = {}
      <3>1. ASSUME NEW q \in InFlight PROVE FALSE
        <4>1. InFlight = {q}
          BY <3>1 DEF SerialInv, OneInFlight
        <4>2. Cardinality(InFlight) = 1
          BY <4>1, FS_Singleton
        <4>3. QED
          BY <1>1, <4>2 DEF Begin
      <3>2. QED
        BY <3>1
    <2>2. overlap' = {}
      BY <1>1, <2>1 DEF Begin, SerialInv
    <2>3. \A q \in Requests \ {r} : pc'[q] = pc[q] /\ pc[q] \notin Stages
      BY <1>1, <2>1 DEF Begin, GoTo, InFlight, TypeInv, TypeOK
    <2>4. pc'[r] # "push"
      BY <1>1 DEF Begin, GoTo, TypeInv, TypeOK
    <2>5. QED
      BY <2>2, <2>3, <2>4 DEF SerialInv, OneInFlight, TipRead, InFlight, Stages
  <1>2. ASSUME NEW r \in Requests, Step(r) PROVE SerialInv'
    <2> DEFINE Moves ==
                 /\ pc[r] \in Stages /\ overlap' = overlap /\ body' = body
                 /\ \A q \in Requests \ {r} : pc'[q] = pc[q]
                 /\ pc'[r] = "push" => event'[r].prev = LatestHash(cargoOf(r))'
    <2>1. Moves
      <3>1. CASE GetLatestEvent(r)
        BY <3>1 DEF GetLatestEvent, GoTo, Stages, redisVars, ghostVars, LatestHash, cargoOf,
                    TypeInv, TypeOK
      <3>2. CASE PushEvent(r)
        BY <3>2 DEF PushEvent, GoTo, Stages, TypeInv, TypeOK
      <3>3. ASSUME NEW next \in Stages \cup {"done"}, QuietStep(r, next)
            PROVE  Moves
        BY <3>3 DEF QuietStep, TypeInv, TypeOK
      <3> HIDE DEF Moves
      <3>4. QED
        BY <1>2, <3>1, <3>2, <3>3, QuietSteps
    <2>2. \A q \in Requests \ {r} : pc[q] \notin Stages
      BY <2>1 DEF SerialInv, OneInFlight, InFlight
    <2>3. QED
      BY <2>1, <2>2 DEF SerialInv, OneInFlight, TipRead, InFlight, Stages, cargoOf
  <1>3. ASSUME Crash PROVE SerialInv'
    BY <1>3 DEF Crash, SerialInv, OneInFlight, TipRead, InFlight, Stages, TypeInv, TypeOK
  <1>4. CASE UNCHANGED vars
    BY <1>4 DEF vars, requestVars, redisVars, durableVars, ghostVars, SerialInv, OneInFlight,
                TipRead, InFlight, LatestHash, cargoOf
  <1>5. QED
    BY <1>1, <1>2, <1>3, <1>4 DEF Next, Finished

\* One request at a time never forks the ledger: HashLinkedChain and
\* OneGenesisEvent, which the README promises and which fail with two requests
\* in flight, or when Redis is lost, hold of a server that handles one at a time.
THEOREM OneWriterOneChain ==
    ASSUME MaxInFlight = 1, RedisMayBeLost = FALSE
    PROVE  Spec => [](HashLinkedChain /\ OneGenesisEvent)
  <1>1. Init => epoch = 0
    BY DEF Init
  <1>2. epoch = 0 /\ [Next]_vars => (epoch = 0)'
    <2>1. SUFFICES ASSUME [Next]_vars PROVE epoch' = epoch
      OBVIOUS
    <2>2. ASSUME NEW r \in Requests, Step(r) PROVE epoch' = epoch
      BY <2>2, QuietSteps DEF QuietStep, GetLatestEvent, PushEvent, ghostVars
    <2>3. QED
      BY <2>1, <2>2 DEF Next, Begin, Crash, Finished, vars, ghostVars
  <1>3. TypeInv /\ ForkInv /\ GapInv /\ SerialInv /\ epoch = 0
            => HashLinkedChain /\ OneGenesisEvent
    <2> SUFFICES ASSUME TypeInv, ForkInv, GapInv, SerialInv, epoch = 0
                 PROVE  HashLinkedChain /\ OneGenesisEvent
      OBVIOUS
    <2>1. \A c \in Cargo : \A e \in pushed[c] : e.epoch = 0
      BY DEF TypeInv, TypeOK, Event, ForkInv, PushedFirst
    <2>2. HashLinkedChain
      BY <2>1 DEF HashLinkedChain, ForkInv, Forks, ForkAllowed, Overlapped, SerialInv
    <2>3. QED
      BY <2>2 DEF HashLinkedChain, OneGenesisEvent, GapInv, PushedInOrder
  <1>4. QED
    BY TypeInit, TypeStep, ForkInit, ForkStep, GapInit, GapStep, SerialInit, SerialStep,
       <1>1, <1>2, <1>3, PTL
    DEF Spec

\* The refinement: with one request at a time and a Redis that keeps its data,
\* every push is CustodyChain's Append behind the tip and every other step,
\* crashes and trimming included, leaves chain and tip alone.
THEOREM ChainRefinement ==
    ASSUME MaxInFlight = 1, RedisMayBeLost = FALSE
    PROVE  Spec => ImplementsChain
  <1> DEFINE links(c) == {[id |-> e.id, prev |-> e.prev] : e \in pushed[c]}
  <1>1. Init => Chain!Init
    BY DEF Init, Chain!Init, LatestHash
  <1>2. TypeInv /\ ForkInv /\ SerialInv /\ [Next]_vars => [Chain!Next]_(Chain!chainVars)
    <2> SUFFICES ASSUME TypeInv, ForkInv, SerialInv, [Next]_vars
                 PROVE  [Chain!Next]_(Chain!chainVars)
      OBVIOUS
    <2>1. ASSUME UNCHANGED <<pushed, redisLedger>> PROVE UNCHANGED Chain!chainVars
      BY <2>1 DEF Chain!chainVars, LatestHash
    <2>2. ASSUME NEW r \in Requests, PushEvent(r) PROVE Chain!Next
      <3>1. PICK c \in Cargo : c = cargoOf(r)
        BY DEF cargoOf, TypeInv, TypeOK, Payload
      <3> DEFINE new == event[r]
      <3>2. /\ pc[r] = "push"
            /\ redisLedger' = [redisLedger EXCEPT ![c] = Trim(<<new>> \o @)]
            /\ pushed' = [pushed EXCEPT ![c] = @ \cup {new}]
        BY <2>2, <3>1 DEF PushEvent
      <3>3. /\ c \in Cargo /\ redisLedger[c] \in Seq(Event)
            /\ new \in Event /\ new.id = r /\ new.prev = LatestHash(c)
        BY <3>1, <3>2 DEF TypeInv, TypeOK, EventBuilt, Built, SerialInv, TipRead
      <3>4. redisLedger'[c] # <<>> /\ redisLedger'[c][1] = new
        BY <3>2, <3>3, TrimType DEF TypeInv, TypeOK
      <3>5. /\ pushed'[c] = pushed[c] \cup {new}
            /\ \A d \in Cargo \ {c} : /\ pushed'[d] = pushed[d]
                                      /\ redisLedger'[d] = redisLedger[d]
        BY <3>2, <3>3 DEF TypeInv, TypeOK
      <3>6. \A d \in Cargo : \A e \in pushed[d] : e.id # r
        BY <3>2 DEF ForkInv, PushedFirst, PastPush
      <3>7. [d \in Cargo |-> LatestHash(d)]' = [[d \in Cargo |-> LatestHash(d)] EXCEPT ![c] = r]
        BY <3>3, <3>4, <3>5 DEF LatestHash
      <3>8. [d \in Cargo |-> links(d)]' =
                [[d \in Cargo |-> links(d)] EXCEPT
                    ![c] = @ \cup {[id |-> r, prev |-> LatestHash(c)]}]
        <4>1. links(c)' = links(c) \cup {[id |-> r, prev |-> LatestHash(c)]}
          BY <3>3, <3>5
        <4>2. \A d \in Cargo \ {c} : links(d)' = links(d)
          BY <3>5
        <4> HIDE DEF links
        <4>3. QED
          BY <3>3, <4>1, <4>2
      <3>9. Chain!Append(c, r)
        BY <3>3, <3>6, <3>7, <3>8 DEF Chain!Append
      <3>10. QED
        BY <3>3, <3>9 DEF Chain!Next
    <2>3. ASSUME NEW r \in Requests, Step(r), ~PushEvent(r)
          PROVE  UNCHANGED <<pushed, redisLedger>>
      BY <2>3, QuietSteps DEF QuietStep, GetLatestEvent, redisVars, ghostVars
    <2>4. ASSUME Crash PROVE UNCHANGED <<pushed, redisLedger>>
      BY <2>4 DEF Crash, redisVars
    <2>5. ASSUME NEW r \in Requests, Begin(r) PROVE UNCHANGED <<pushed, redisLedger>>
      BY <2>5 DEF Begin, redisVars
    <2>6. CASE UNCHANGED vars
      BY <2>1, <2>6 DEF vars, redisVars, ghostVars
    <2>7. QED
      BY <2>1, <2>2, <2>3, <2>4, <2>5, <2>6 DEF Next, Finished
  <1>3. QED
    BY TypeInit, TypeStep, ForkInit, ForkStep, SerialInit, SerialStep, <1>1, <1>2, PTL
    DEF Spec, ImplementsChain, Chain!Spec
-----------------------------------------------------------------------------
(***************************************************************************)
(* The custody state, for any constants of CargoCustody.  A request that   *)
(* no other one on its cargo overlapped finds the same state at its two    *)
(* reads, so the event it records is judged against the state its action   *)
(* was decided on; whatever state is shown afterwards comes from the       *)
(* ledger and remembers that request.                                      *)
(***************************************************************************)
ReloadPlan(p, before) ==
    [action |-> reloadAction(p, before),
     score |-> computeIntegrityScore(p, p.action, before)]

(***************************************************************************)
(* The point tables.  A critical risk with an unbroken chain needs at      *)
(* least 33 points among the weight, the destination, the workflow and the *)
(* scans, and those cost the integrity score more than 30.                 *)
(***************************************************************************)
LEMMA CriticalRiskStops ==
    ASSUME NEW r, NEW p, NEW action, NEW before,
           Critical(riskScore(p, action, before))
    PROVE  buildState(r, p, action, NoScore, before).stopLoad
  <1>1. CASE chainBroken(p, action, before)
    BY <1>1 DEF buildState
  <1>2. CASE ~chainBroken(p, action, before)
    <2>1. computeIntegrityScore(p, action, before) < 70
      BY <1>2 DEF Critical, riskScore, computeIntegrityScore, chainBroken, Points,
                  AtMost100, AtLeast0, brokenOrTampered, damaged
    <2>2. QED
      BY <2>1 DEF buildState, integrityScore, OrElse
  <1>3. QED
    BY <1>1, <1>2

LEMMA CriticalReloadStops ==
    ASSUME NEW r, NEW p, NEW before,
           Critical(riskScore(p, reloadAction(p, before), before))
    PROVE  buildState(r, p, reloadAction(p, before),
                      computeIntegrityScore(p, p.action, before), before).stopLoad
  <1>1. CASE reloadAction(p, before) = "CustodyViolation"
    BY <1>1 DEF buildState, chainBroken
  <1>2. CASE reloadAction(p, before) = "CargoReloaded"
    <2>1. CASE chainBroken(p, "CargoReloaded", before)
      BY <1>2, <2>1 DEF buildState
    <2>2. CASE ~chainBroken(p, "CargoReloaded", before)
      <3>1. ~shouldStopLoad(p, before)
        BY <1>2 DEF reloadAction
      <3>2. computeIntegrityScore(p, p.action, before) < 70
        BY <1>2, <2>2
        DEF Critical, riskScore, computeIntegrityScore, chainBroken, Points,
            AtMost100, AtLeast0, brokenOrTampered, damaged
      <3>3. QED
        BY <3>1, <3>2 DEF shouldStopLoad
    <2>3. QED
      BY <2>1, <2>2
  <1>3. QED
    BY <1>1, <1>2 DEF reloadAction

(***************************************************************************)
(* What a request that runs alone knows of the state of its cargo.         *)
(***************************************************************************)
\* Only requests that have begun overlap.
OverlapStarted ==
    \A r, q \in Requests : Overlapped(r, q) => pc[r] # "idle" /\ pc[q] # "idle"

\* An event is built from the plan and the state its request still holds.
EventFromPlan ==
    \A r \in Requests : event[r] # NoEvent =>
        /\ pc[r] \in Built \cup {"aborted"}
        /\ event[r].state =
               buildState(r, body[r], plan[r].action, plan[r].score, prev[r])

\* Whatever is not a reload brings the score of its body, if any, and only
\* verify and reload come to Decide.
PlanFromBody ==
    \A r \in Requests :
        /\ (pc[r] # "idle" /\ body[r].kind # "reload") => plan[r].score = body[r].score
        /\ pc[r] \in {"get1", "load1", "fill1", "decide"} => body[r].kind # "direct"

AloneKnows(r) ==
    LET c == cargoOf(r) IN
    /\ pc[r] \in {"load1", "load2"} => redisState[c] = NoState
    /\ pc[r] \in {"fill1", "fill2"} => redisState[c] = NoState /\ prev[r] = ledgerState[c]
    /\ pc[r] = "decide" => prev[r] = CurrentState(c)
    /\ body[r].kind = "reload" =>
          /\ pc[r] \in {"get2", "load2", "fill2"} =>
                plan[r] = ReloadPlan(body[r], CurrentState(c))
          /\ pc[r] = "latest" \/ event[r] # NoEvent =>
                plan[r] = ReloadPlan(body[r], prev[r])

AloneInv == \A r \in Requests : RanAlone(r) => AloneKnows(r)

PlanInv == OverlapStarted /\ EventFromPlan /\ PlanFromBody

ReloadInv == PlanInv /\ AloneInv

LEMMA ReloadInit == Init => ReloadInv
  BY DEF Init, ReloadInv, PlanInv, OverlapStarted, Overlapped, EventFromPlan, PlanFromBody,
         AloneInv, AloneKnows

\* What a step of r leaves alone: every other request, and every other cargo.
Frame(r) ==
    /\ pc[r] \in Stages /\ pc'[r] # "idle"
    /\ \A q \in Requests \ {r} :
          /\ pc'[q] = pc[q] /\ prev'[q] = prev[q]
          /\ plan'[q] = plan[q] /\ event'[q] = event[q]
    /\ \A c \in Cargo \ {cargoOf(r)} :
          redisState'[c] = redisState[c] /\ ledgerState'[c] = ledgerState[c]
    /\ UNCHANGED <<body, overlap>>

LEMMA StepFrame ==
    ASSUME TypeInv, NEW r \in Requests, Step(r)
    PROVE  Frame(r)
  <1> USE DEF Frame, Stages, GoTo, redisVars, durableVars, ghostVars, TypeInv, TypeOK
  <1>1. ASSUME NEW here \in {"get1", "get2"}, NEW onMiss \in {"load1", "load2"},
               NEW next \in {"decide", "latest"}, GetState(r, here, onMiss, next)
        PROVE  Frame(r)
    BY <1>1 DEF GetState
  <1>2. ASSUME NEW here \in {"load1", "load2"}, NEW onFound \in {"fill1", "fill2"},
               NEW next \in {"decide", "latest"}, LoadState(r, here, onFound, next)
        PROVE  Frame(r)
    BY <1>2 DEF LoadState
  <1>3. ASSUME NEW here \in {"fill1", "fill2"}, NEW next \in {"decide", "latest"},
               FillState(r, here, next)
        PROVE  Frame(r)
    BY <1>3 DEF FillState
  <1>4. Decide(r) => Frame(r)
    BY DEF Decide
  <1>5. GetLatestEvent(r) => Frame(r)
    BY DEF GetLatestEvent
  <1>6. PushEvent(r) => Frame(r)
    BY DEF PushEvent
  <1>7. InsertEvent(r) => Frame(r)
    BY DEF InsertEvent
  <1>8. SaveEvidence(r) => Frame(r)
    BY DEF SaveEvidence
  <1>9. SetState(r) => Frame(r)
    BY DEF SetState
  <1>10. UpsertState(r) => Frame(r)
    BY DEF UpsertState
  <1>11. LogEvent(r) => Frame(r)
    BY DEF LogEvent
  <1>12. AppendAlert(r) => Frame(r)
    BY DEF AppendAlert
  <1>13. OrchestrateCargoIncident(r) => Frame(r)
    BY DEF OrchestrateCargoIncident
  <1>14. LogIncident(r) => Frame(r)
    BY DEF LogIncident
  <1> HIDE DEF Frame
  <1>15. QED
    BY <1>1, <1>2, <1>3, <1>4, <1>5, <1>6, <1>7, <1>8, <1>9, <1>10, <1>11, <1>12,
       <1>13, <1>14
    DEF Step

\* A step of r keeps what another request that ran alone knows: when both
\* are on one cargo, the other one is no longer in flight.
LEMMA OthersKnow ==
    ASSUME TypeInv, InFlightOverlap, AloneInv,
           NEW r \in Requests, Frame(r), NEW q \in Requests \ {r}, RanAlone(q)'
    PROVE  AloneKnows(q)'
  <1>1. RanAlone(q) /\ AloneKnows(q)
    BY DEF Frame, RanAlone, Overlapped, cargoOf, AloneInv
  <1>2. cargoOf(q)' = cargoOf(q) /\ cargoOf(q) \in Cargo
    BY DEF Frame, cargoOf, TypeInv, TypeOK, Payload
  <1>3. CASE cargoOf(q) = cargoOf(r)
    <2>1. pc[q] \notin Stages
      BY <1>1, <1>3 DEF RanAlone, InFlightOverlap, InFlight, Frame
    <2>2. QED
      BY <1>1, <2>1 DEF AloneKnows, Frame, Stages, ReloadPlan
  <1>4. CASE cargoOf(q) # cargoOf(r)
    BY <1>1, <1>2, <1>4 DEF AloneKnows, Frame, CurrentState
  <1>5. QED
    BY <1>3, <1>4

\* Every step of r that gets no further than the read of its state.
LEMMA ReadsKnow ==
    ASSUME TypeInv, ReloadInv, NEW r \in Requests, RanAlone(r),
           \/ GetState(r, "get1", "load1", "decide")
           \/ LoadState(r, "load1", "fill1", "decide")
           \/ FillState(r, "fill1", "decide")
           \/ Decide(r)
           \/ GetState(r, "get2", "load2", "latest")
           \/ LoadState(r, "load2", "fill2", "latest")
           \/ FillState(r, "fill2", "latest")
    PROVE  AloneKnows(r)' /\ event'[r] = NoEvent
  <1> DEFINE c == cargoOf(r)
  <1>1. /\ AloneKnows(r)
        /\ c \in Cargo
        /\ event[r] = NoEvent
    BY DEF ReloadInv, PlanInv, AloneInv, EventFromPlan, Built, GetState, LoadState, FillState,
           Decide, cargoOf, TypeInv, TypeOK, Payload
  <1> USE DEF GoTo, AloneKnows, CurrentState, cargoOf, redisVars, durableVars, TypeInv, TypeOK
  <1>2. CASE GetState(r, "get1", "load1", "decide")
    BY <1>1, <1>2 DEF GetState
  <1>3. CASE LoadState(r, "load1", "fill1", "decide")
    BY <1>1, <1>3 DEF LoadState
  <1>4. CASE FillState(r, "fill1", "decide")
    BY <1>1, <1>4 DEF FillState
  <1>5. CASE Decide(r)
    <2>1. body[r].kind = "reload" => plan'[r] = ReloadPlan(body[r], prev[r])
      BY <1>5 DEF Decide, ReloadPlan
    <2>2. QED
      BY <1>1, <1>5, <2>1 DEF Decide
  <1>6. CASE GetState(r, "get2", "load2", "latest")
    BY <1>1, <1>6 DEF GetState
  <1>7. CASE LoadState(r, "load2", "fill2", "latest")
    BY <1>1, <1>7 DEF LoadState
  <1>8. CASE FillState(r, "fill2", "latest")
    BY <1>1, <1>8 DEF FillState
  <1>9. QED
    BY <1>2, <1>3, <1>4, <1>5, <1>6, <1>7, <1>8

\* Every later step of r.
LEMMA WritesKnow ==
    ASSUME TypeInv, PlanInv, NEW r \in Requests,
           \/ GetLatestEvent(r) \/ PushEvent(r) \/ InsertEvent(r) \/ SaveEvidence(r)
           \/ SetState(r) \/ UpsertState(r) \/ LogEvent(r) \/ AppendAlert(r)
           \/ OrchestrateCargoIncident(r) \/ LogIncident(r)
    PROVE  /\ pc'[r] \in Built
           /\ plan'[r] = plan[r] /\ prev'[r] = prev[r]
           /\ event'[r].state =
                  buildState(r, body[r], plan[r].action, plan[r].score, prev[r])
           /\ (pc[r] = "latest" \/ event[r] # NoEvent)
  <1>1. CASE GetLatestEvent(r)
    BY <1>1 DEF GetLatestEvent, GoTo, Built, TypeInv, TypeOK
  <1>2. CASE ~GetLatestEvent(r)
    <2>1. /\ pc[r] \in Built /\ pc'[r] \in Built
          /\ plan'[r] = plan[r] /\ prev'[r] = prev[r] /\ event'[r] = event[r]
      BY <1>2
      DEF PushEvent, InsertEvent, SaveEvidence, SetState, UpsertState, LogEvent,
          AppendAlert, OrchestrateCargoIncident, LogIncident, GoTo, Built, TypeInv, TypeOK
    <2>2. event[r].id = r /\ NoEvent.id = Nobody
      BY <2>1 DEF TypeInv, EventBuilt, NoEvent
    <2>3. event[r] # NoEvent
      BY <2>2, RequestsAssumption
    <2>4. QED
      BY <2>1, <2>3 DEF PlanInv, EventFromPlan
  <1>3. QED
    BY <1>1, <1>2

LEMMA PlanStep == TypeInv /\ PlanInv /\ [Next]_vars => PlanInv'
  <1> SUFFICES ASSUME TypeInv, PlanInv, [Next]_vars PROVE PlanInv'
    OBVIOUS
  <1>1. ASSUME NEW r \in Requests, Begin(r) PROVE PlanInv'
    <2>1. PICK p \in Body[r] :
             /\ body' = [body EXCEPT ![r] = p]
             /\ plan' = [plan EXCEPT ![r] = [action |-> p.action, score |-> p.score]]
             /\ GoTo(r, IF p.kind = "direct" THEN "get2" ELSE "get1")
      BY <1>1 DEF Begin
    <2>2. /\ pc[r] = "idle" /\ pc'[r] \in {"get1", "get2"} /\ event[r] = NoEvent
          /\ pc'[r] = "get1" => p.kind # "direct"
          /\ \A q \in Requests \ {r} : pc'[q] = pc[q]
      BY <1>1, <2>1 DEF Begin, GoTo, PlanInv, EventFromPlan, Built, TypeInv, TypeOK
    <2>3. /\ body'[r] = p /\ plan'[r].score = p.score
          /\ \A q \in Requests \ {r} : body'[q] = body[q] /\ plan'[q] = plan[q]
          /\ UNCHANGED <<prev, event>>
          /\ overlap' = overlap \cup ({r} \X InFlight) \cup (InFlight \X {r})
      BY <1>1, <2>1 DEF Begin, TypeInv, TypeOK
    <2>4. OverlapStarted'
      BY <2>2, <2>3 DEF PlanInv, OverlapStarted, Overlapped, InFlight, Stages
    <2>5. EventFromPlan' /\ PlanFromBody'
      BY <2>2, <2>3 DEF PlanInv, EventFromPlan, PlanFromBody
    <2>6. QED
      BY <2>4, <2>5 DEF PlanInv
  <1>2. ASSUME NEW r \in Requests, Step(r) PROVE PlanInv'
    <2>1. Frame(r)
      BY <1>2, StepFrame
    <2>2. OverlapStarted'
      BY <2>1 DEF Frame, PlanInv, OverlapStarted, Overlapped, Stages
    <2>3. CASE \/ GetState(r, "get1", "load1", "decide")
               \/ LoadState(r, "load1", "fill1", "decide")
               \/ FillState(r, "fill1", "decide")
               \/ Decide(r)
               \/ GetState(r, "get2", "load2", "latest")
               \/ LoadState(r, "load2", "fill2", "latest")
               \/ FillState(r, "fill2", "latest")
      <3>1. event'[r] = event[r] /\ event[r] = NoEvent
        BY <2>3 DEF GetState, LoadState, FillState, Decide, PlanInv, EventFromPlan, Built
      <3>2. /\ body[r].kind # "reload" => plan'[r].score = body[r].score
            /\ pc'[r] \in {"get1", "load1", "fill1", "decide"} => body[r].kind # "direct"
        <4>1. body[r].kind \in Kinds
          BY DEF TypeInv, TypeOK, Payload
        <4>2. CASE Decide(r)
          BY <4>1, <4>2
          DEF Decide, GoTo, PlanInv, PlanFromBody, Kinds, TypeInv, TypeOK
        <4>3. CASE ~Decide(r)
          BY <2>3, <4>3
          DEF GetState, LoadState, FillState, GoTo, PlanInv, PlanFromBody, TypeInv, TypeOK
        <4>4. QED
          BY <4>2, <4>3
      <3>3. EventFromPlan' /\ PlanFromBody'
        BY <2>1, <3>1, <3>2 DEF Frame, PlanInv, EventFromPlan, PlanFromBody
      <3>4. QED
        BY <2>2, <3>3 DEF PlanInv
    <2>4. CASE \/ GetLatestEvent(r) \/ PushEvent(r) \/ InsertEvent(r) \/ SaveEvidence(r)
               \/ SetState(r) \/ UpsertState(r) \/ LogEvent(r) \/ AppendAlert(r)
               \/ OrchestrateCargoIncident(r) \/ LogIncident(r)
      <3>1. /\ pc'[r] \in Built
            /\ plan'[r] = plan[r] /\ prev'[r] = prev[r]
            /\ event'[r].state =
                   buildState(r, body[r], plan[r].action, plan[r].score, prev[r])
        BY <2>4, WritesKnow
      <3>2. EventFromPlan'
        BY <2>1, <3>1 DEF Frame, PlanInv, EventFromPlan
      <3>3. PlanFromBody'
        BY <2>1, <3>1 DEF Frame, PlanInv, PlanFromBody, Built, Stages
      <3>4. QED
        BY <2>2, <3>2, <3>3 DEF PlanInv
    <2>5. QED
      BY <1>2, <2>3, <2>4 DEF Step
  <1>3. ASSUME Crash PROVE PlanInv'
    <2>1. /\ \A r \in Requests : pc'[r] = pc[r] \/ (pc[r] \in Stages /\ pc'[r] = "aborted")
          /\ UNCHANGED <<body, prev, plan, event, overlap>>
      BY <1>3 DEF Crash, InFlight, Stages, TypeInv, TypeOK
    <2>2. QED
      BY <2>1
      DEF PlanInv, OverlapStarted, Overlapped, EventFromPlan, PlanFromBody, Stages
  <1>4. CASE UNCHANGED vars
    BY <1>4 DEF vars, requestVars, ghostVars, PlanInv, OverlapStarted, Overlapped,
                EventFromPlan, PlanFromBody
  <1>5. QED
    BY <1>1, <1>2, <1>3, <1>4 DEF Next, Finished

LEMMA ReloadStep == TypeInv /\ InFlightOverlap /\ ReloadInv /\ [Next]_vars => ReloadInv'
  <1> SUFFICES ASSUME TypeInv, InFlightOverlap, ReloadInv, [Next]_vars PROVE AloneInv'
    BY PlanStep DEF ReloadInv
  <1>1. ASSUME NEW r \in Requests, Begin(r) PROVE AloneInv'
    <2>1. PICK p \in Body[r] :
             /\ body' = [body EXCEPT ![r] = p]
             /\ GoTo(r, IF p.kind = "direct" THEN "get2" ELSE "get1")
      BY <1>1 DEF Begin
    <2>2. /\ pc[r] = "idle" /\ pc'[r] \in {"get1", "get2"} /\ event[r] = NoEvent
          /\ pc'[r] = "get2" => p.kind = "direct"
          /\ \A q \in Requests \ {r} : pc'[q] = pc[q]
      BY <1>1, <2>1 DEF Begin, GoTo, ReloadInv, PlanInv, EventFromPlan, Built, TypeInv, TypeOK
    <2>3. /\ body'[r] = p
          /\ \A q \in Requests \ {r} : body'[q] = body[q] /\ plan'[q] = plan[q]
          /\ UNCHANGED <<prev, event, redisState, ledgerState>>
      BY <1>1, <2>1 DEF Begin, redisVars, durableVars, TypeInv, TypeOK
    <2>4. overlap' = overlap \cup ({r} \X InFlight) \cup (InFlight \X {r})
      BY <1>1 DEF Begin
    <2>5. ASSUME NEW q \in Requests \ {r}, RanAlone(q)' PROVE AloneKnows(q)'
      <3>1. RanAlone(q)
        BY <2>2, <2>3, <2>4, <2>5
        DEF RanAlone, Overlapped, ReloadInv, PlanInv, OverlapStarted, cargoOf
      <3>2. QED
        BY <2>2, <2>3, <3>1 DEF ReloadInv, AloneInv, AloneKnows, CurrentState, cargoOf
    <2>6. AloneKnows(r)'
      BY <2>2, <2>3 DEF AloneKnows
    <2>7. QED
      BY <2>5, <2>6 DEF AloneInv
  <1>2. ASSUME NEW r \in Requests, Step(r) PROVE AloneInv'
    <2>1. Frame(r)
      BY <1>2, StepFrame
    <2>2. \A q \in Requests \ {r} : RanAlone(q)' => AloneKnows(q)'
      BY <2>1, OthersKnow DEF ReloadInv
    <2>3. RanAlone(r)' => RanAlone(r)
      BY <2>1 DEF Frame, RanAlone, Overlapped, cargoOf
    <2>4. CASE \/ GetState(r, "get1", "load1", "decide")
               \/ LoadState(r, "load1", "fill1", "decide")
               \/ FillState(r, "fill1", "decide")
               \/ Decide(r)
               \/ GetState(r, "get2", "load2", "latest")
               \/ LoadState(r, "load2", "fill2", "latest")
               \/ FillState(r, "fill2", "latest")
      <3>1. RanAlone(r) => AloneKnows(r)'
        BY <2>4, ReadsKnow
      <3>2. QED
        BY <2>2, <2>3, <3>1 DEF AloneInv
    <2>5. CASE \/ GetLatestEvent(r) \/ PushEvent(r) \/ InsertEvent(r) \/ SaveEvidence(r)
               \/ SetState(r) \/ UpsertState(r) \/ LogEvent(r) \/ AppendAlert(r)
               \/ OrchestrateCargoIncident(r) \/ LogIncident(r)
      <3>1. /\ pc'[r] \in Built
            /\ plan'[r] = plan[r] /\ prev'[r] = prev[r]
            /\ (pc[r] = "latest" \/ event[r] # NoEvent)
        BY <2>5, WritesKnow DEF ReloadInv
      <3>2. RanAlone(r) => AloneKnows(r)'
        BY <2>1, <3>1 DEF Frame, ReloadInv, AloneInv, AloneKnows, Built
      <3>3. QED
        BY <2>2, <2>3, <3>2 DEF AloneInv
    <2>6. QED
      BY <1>2, <2>4, <2>5 DEF Step
  <1>3. ASSUME Crash PROVE AloneInv'
    <2>1. /\ \A r \in Requests : pc'[r] = pc[r] \/ (pc[r] \in Stages /\ pc'[r] = "aborted")
          /\ \A r \in Requests : pc'[r] \notin Stages
          /\ UNCHANGED <<body, prev, plan, event, overlap>>
      BY <1>3 DEF Crash, InFlight, Stages, TypeInv, TypeOK
    <2>2. QED
      BY <2>1 DEF ReloadInv, AloneInv, AloneKnows, RanAlone, Overlapped, cargoOf, Stages
  <1>4. CASE UNCHANGED vars
    BY <1>4 DEF vars, requestVars, redisVars, durableVars, ghostVars, ReloadInv, AloneInv,
                AloneKnows, RanAlone, Overlapped, CurrentState, cargoOf
  <1>5. QED
    BY <1>1, <1>2, <1>3, <1>4 DEF Next, Finished

LEMMA ReloadInvariant == Spec => [](TypeInv /\ ReloadInv /\ PlanInv)
  <1>1. ForkInv => InFlightOverlap
    BY DEF ForkInv
  <1>2. ReloadInv => PlanInv
    BY DEF ReloadInv
  <1>3. QED
    BY TypeInit, TypeStep, ForkInit, ForkStep, ReloadInit, ReloadStep, <1>1, <1>2, PTL DEF Spec

\* StaleReloadNeedsOverlap for any number of requests, cargo and crashes: a
\* reload that no other request on its cargo overlapped records the decision
\* and the score of the very state it replaces.
THEOREM ReloadSafety == Spec => []StaleReloadNeedsOverlap
  <1>1. TypeInv /\ ReloadInv => StaleReloadNeedsOverlap
    <2> SUFFICES ASSUME TypeInv, ReloadInv, NEW r \in Requests,
                        event[r] # NoEvent, body[r].kind = "reload", RanAlone(r)
                 PROVE  /\ event[r].state.action = "CargoReloaded" =>
                               sealMatch(body[r], prev[r])
                        /\ event[r].state.integrity =
                               computeIntegrityScore(body[r], body[r].action, prev[r])
      BY DEF StaleReloadNeedsOverlap
    <2>1. /\ event[r].state =
                 buildState(r, body[r], plan[r].action, plan[r].score, prev[r])
          /\ plan[r] = ReloadPlan(body[r], prev[r])
      BY DEF ReloadInv, PlanInv, EventFromPlan, AloneInv, AloneKnows
    <2>2. event[r].state.action = reloadAction(body[r], prev[r])
      BY <2>1 DEF buildState, ReloadPlan
    <2>3. event[r].state.integrity =
              computeIntegrityScore(body[r], body[r].action, prev[r])
      BY <2>1, IntegrityScoreRange DEF buildState, ReloadPlan, integrityScore, OrElse, NoScore
    <2>4. QED
      BY <2>2, <2>3 DEF reloadAction, shouldStopLoad
  <1>2. QED
    BY ReloadInvariant, <1>1, PTL

\* CriticalStopsLoad for any number of requests, cargo and crashes, and for
\* every body and every state before it: no combination of evidence is
\* CRITICAL without stopping the load.
THEOREM CriticalSafety == Spec => []CriticalStopsLoad
  <1>1. TypeInv /\ ReloadInv => CriticalStopsLoad
    <2> SUFFICES ASSUME TypeInv, ReloadInv, NEW r \in Requests,
                        event[r] # NoEvent, body[r].score = NoScore,
                        body[r].kind = "reload" => RanAlone(r),
                        Critical(event[r].state.risk)
                 PROVE  event[r].state.stopLoad
      BY DEF CriticalStopsLoad
    <2>1. event[r].state =
              buildState(r, body[r], plan[r].action, plan[r].score, prev[r])
      BY DEF ReloadInv, PlanInv, EventFromPlan
    <2>2. Critical(riskScore(body[r], plan[r].action, prev[r]))
      BY <2>1 DEF buildState
    <2>3. CASE body[r].kind = "reload"
      <3>1. plan[r] = ReloadPlan(body[r], prev[r])
        BY <2>3 DEF ReloadInv, AloneInv, AloneKnows
      <3>2. QED
        BY <2>1, <2>2, <3>1, CriticalReloadStops DEF ReloadPlan
    <2>4. CASE body[r].kind # "reload"
      <3>1. plan[r].score = NoScore
        BY <2>4 DEF ReloadInv, PlanInv, PlanFromBody, EventFromPlan, Built
      <3>2. QED
        BY <2>1, <2>2, <3>1, CriticalRiskStops
    <2>5. QED
      BY <2>3, <2>4
  <1>2. QED
    BY ReloadInvariant, <1>1, PTL

(***************************************************************************)
(* A state is shown only once its event and its evidence are durable.      *)
(***************************************************************************)
LEMMA BuiltState ==
    ASSUME TypeInv, PlanInv, NEW r \in Requests, pc[r] \in Built
    PROVE  /\ event[r].state \in State /\ event[r].state # NoState
           /\ event[r].state.custodian = r
           /\ event[r].state.touched = prev[r].touched \cup {r}
  <1>1. event[r] \in Event /\ event[r].id = r
    BY DEF TypeInv, EventBuilt
  <1>2. event[r] # NoEvent
    BY <1>1, RequestsAssumption DEF NoEvent
  <1>3. /\ event[r].state.custodian = r
        /\ event[r].state.touched = prev[r].touched \cup {r}
    <2>1. event[r].state =
              buildState(r, body[r], plan[r].action, plan[r].score, prev[r])
      BY <1>2 DEF PlanInv, EventFromPlan
    <2>2. ASSUME NEW p, NEW action, NEW score, NEW before
          PROVE  /\ buildState(r, p, action, score, before).custodian = r
                 /\ buildState(r, p, action, score, before).touched = before.touched \cup {r}
      BY DEF buildState
    <2>3. QED
      BY <2>1, <2>2
  <1>4. QED
    BY <1>1, <1>3, RequestsAssumption DEF Event, NoState

Shown(c, s) ==
    s # NoState =>
        /\ s.custodian \in Requests /\ pc[s.custodian] # "idle"
        /\ \E e \in ledger[c] : e.state = s
        /\ body[s.custodian].media => s.custodian \in evidence

\* What a request may show next has been written already.
Backed(r) ==
    /\ pc[r] \in {"fill1", "fill2"} => Shown(cargoOf(r), prev[r])
    /\ pc[r] \in {"evidence", "set", "upsert"} => event[r] \in ledger[cargoOf(r)]
    /\ pc[r] \in {"set", "upsert"} => (body[r].media => r \in evidence)

LedgeredInv ==
    ~LedgerMayBeLost =>
        /\ \A c \in Cargo : Shown(c, redisState[c]) /\ Shown(c, ledgerState[c])
        /\ \A r \in Requests : Backed(r)

LEMMA LedgeredInit == Init => LedgeredInv
  BY DEF Init, LedgeredInv, Shown, Backed

\* The durable stores only grow, unless they are lost.
LEMMA LedgerGrows ==
    ASSUME TypeInv, NEW r \in Requests, Step(r)
    PROVE  /\ \A c \in Cargo : ledger[c] \subseteq ledger'[c]
           /\ evidence \subseteq evidence'
  <1>1. CASE InsertEvent(r)
    BY <1>1 DEF InsertEvent, TypeInv, TypeOK
  <1>2. CASE SaveEvidence(r)
    BY <1>2 DEF SaveEvidence
  <1>3. CASE ~InsertEvent(r) /\ ~SaveEvidence(r)
    BY <1>3 DEF Step, GetState, LoadState, FillState, Decide, GetLatestEvent, PushEvent,
                SetState, UpsertState, LogEvent, AppendAlert, OrchestrateCargoIncident,
                LogIncident, durableVars
  <1>4. QED
    BY <1>1, <1>2, <1>3

LEMMA ShownKept ==
    ASSUME NEW c \in Cargo, NEW s, Shown(c, s),
           ledger[c] \subseteq ledger'[c], evidence \subseteq evidence',
           \A q \in Requests : pc[q] # "idle" => pc'[q] # "idle" /\ body'[q] = body[q]
    PROVE  Shown(c, s)'
  BY DEF Shown

LEMMA LedgeredStep == TypeInv /\ PlanInv /\ LedgeredInv /\ [Next]_vars => LedgeredInv'
  <1> SUFFICES ASSUME TypeInv, PlanInv, LedgeredInv, [Next]_vars, ~LedgerMayBeLost
               PROVE  /\ \A c \in Cargo : Shown(c, redisState[c])' /\ Shown(c, ledgerState[c])'
                      /\ \A r \in Requests : Backed(r)'
    BY DEF LedgeredInv
  <1> DEFINE Goal == /\ \A c \in Cargo : Shown(c, redisState[c])' /\ Shown(c, ledgerState[c])'
                     /\ \A r \in Requests : Backed(r)'
  <1>1. /\ \A c \in Cargo : Shown(c, redisState[c]) /\ Shown(c, ledgerState[c])
        /\ \A r \in Requests : Backed(r) /\ cargoOf(r) \in Cargo
        /\ NoState.touched = {} /\ \A c : Shown(c, NoState)'
    BY DEF LedgeredInv, TypeInv, TypeOK, Payload, cargoOf, NoState, Shown
  <1>2. ASSUME NEW r \in Requests, Begin(r) PROVE Goal
    <2>1. /\ pc[r] = "idle" /\ pc'[r] \in {"get1", "get2"}
          /\ \A q \in Requests \ {r} : pc'[q] = pc[q] /\ body'[q] = body[q]
          /\ UNCHANGED <<prev, event, redisState, ledger, ledgerState, evidence>>
      BY <1>2 DEF Begin, GoTo, redisVars, durableVars, TypeInv, TypeOK
    <2>2. ASSUME NEW c \in Cargo, NEW s, Shown(c, s) PROVE Shown(c, s)'
      BY <2>1, <2>2, ShownKept
    <2>3. \A c \in Cargo : Shown(c, redisState[c])' /\ Shown(c, ledgerState[c])'
      BY <1>1, <2>1, <2>2
    <2>4. ASSUME NEW q \in Requests \ {r} PROVE Backed(q)'
      <3>1. Backed(q) /\ cargoOf(q)' = cargoOf(q) /\ cargoOf(q) \in Cargo
        BY <1>1, <2>1 DEF cargoOf
      <3>2. Shown(cargoOf(q), prev[q]) => Shown(cargoOf(q), prev[q])'
        BY <2>1, <3>1, ShownKept DEF Shown
      <3>3. QED
        BY <2>1, <3>1, <3>2 DEF Backed
    <2>5. Backed(r)'
      BY <2>1 DEF Backed
    <2>6. QED
      BY <2>3, <2>4, <2>5
  <1>3. ASSUME NEW r \in Requests, Step(r) PROVE Goal
    <2>1. PICK c \in Cargo : c = cargoOf(r)
      BY <1>1
    <2>2. Frame(r)
      BY <1>3, StepFrame
    <2>3. ASSUME NEW d \in Cargo, NEW s, Shown(d, s) PROVE Shown(d, s)'
      BY <1>3, <2>2, <2>3, LedgerGrows, ShownKept DEF Frame
    <2>4. ASSUME NEW q \in Requests \ {r} PROVE Backed(q)'
      <3>1. PICK d \in Cargo : d = cargoOf(q)
        BY <1>1
      <3>2. PICK s : s = prev[q]
        OBVIOUS
      <3>3. Backed(q) /\ (Shown(d, s) => Shown(d, s)')
        BY <1>1, <2>3
      <3>4. /\ cargoOf(q)' = d /\ prev'[q] = s /\ pc'[q] = pc[q] /\ event'[q] = event[q]
            /\ body'[q] = body[q] /\ ledger[d] \subseteq ledger'[d] /\ evidence \subseteq evidence'
        BY <1>3, <2>2, <3>1, <3>2, LedgerGrows DEF Frame, cargoOf
      <3>5. QED
        BY <3>1, <3>2, <3>3, <3>4 DEF Backed, Shown
    <2>5. ASSUME NEW d \in Cargo \ {c}
          PROVE  Shown(d, redisState[d])' /\ Shown(d, ledgerState[d])'
      <3>1. redisState'[d] = redisState[d] /\ ledgerState'[d] = ledgerState[d]
        BY <2>1, <2>2 DEF Frame
      <3>2. Shown(d, redisState[d]) /\ Shown(d, ledgerState[d])
        BY <1>1
      <3>3. QED
        BY <2>3, <3>1, <3>2 DEF Shown
    \* It remains to see what r shows, and what it may show next.
    <2> DEFINE Own == /\ Shown(c, redisState[c])' /\ Shown(c, ledgerState[c])' /\ Backed(r)'
    <2>6. ASSUME redisState' = redisState, ledgerState' = ledgerState
          PROVE  Shown(c, redisState[c])' /\ Shown(c, ledgerState[c])'
      BY <1>1, <2>3, <2>6
    <2>7. body' = body /\ cargoOf(r)' = c /\ Backed(r) /\ redisState[c] \in State
          /\ redisState \in [Cargo -> State] /\ ledgerState \in [Cargo -> State]
      BY <1>1, <2>1, <2>2 DEF Frame, cargoOf, TypeInv, TypeOK
    <2> USE DEF GoTo, TypeInv, TypeOK
    <2>8. ASSUME NEW here, NEW onMiss, NEW next,
                 {onMiss, next} \cap {"fill1", "fill2", "evidence", "set", "upsert"} = {},
                 GetState(r, here, onMiss, next)
          PROVE  Own
      <3>1. UNCHANGED <<redisState, ledgerState>>
            /\ pc'[r] \notin {"fill1", "fill2", "evidence", "set", "upsert"}
        BY <2>8 DEF GetState, redisVars, durableVars
      <3>2. QED
        BY <2>6, <3>1 DEF Backed
    <2>9. ASSUME NEW here, NEW onFound \in {"fill1", "fill2"}, NEW next \in {"decide", "latest"},
                 LoadState(r, here, onFound, next)
          PROVE  Own
      <3>1. /\ UNCHANGED <<redisState, ledgerState>>
            /\ pc'[r] \in {onFound, next} /\ prev'[r] = ledgerState[c]
        BY <2>1, <2>9 DEF LoadState, redisVars, durableVars
      <3>2. PICK s : s = ledgerState[c]
        OBVIOUS
      <3>3. Shown(c, s)'
        BY <1>1, <2>3, <3>2
      <3>4. Shown(cargoOf(r), prev[r])'
        BY <2>7, <3>1, <3>2, <3>3 DEF Shown
      <3>5. QED
        BY <2>6, <3>1, <3>4 DEF Backed
    <2>10. ASSUME NEW here \in {"fill1", "fill2"}, NEW next \in {"decide", "latest"},
                  FillState(r, here, next)
           PROVE  Own
      <3>1. /\ ledgerState' = ledgerState /\ redisState'[c] = prev[r]
            /\ pc'[r] = next /\ pc[r] = here
        BY <2>1, <2>10 DEF FillState, durableVars
      <3>2. PICK s : s = prev[r]
        OBVIOUS
      <3>3. Shown(c, s)'
        BY <2>1, <2>3, <2>7, <3>1, <3>2 DEF Backed
      <3>4. PICK t : t = ledgerState[c]
        OBVIOUS
      <3>5. Shown(c, t)'
        BY <1>1, <2>3, <3>4
      <3>6. Shown(c, redisState[c])' /\ Shown(c, ledgerState[c])'
        BY <3>1, <3>2, <3>3, <3>4, <3>5 DEF Shown
      <3>7. QED
        BY <3>1, <3>6 DEF Backed
    <2>11. ASSUME \/ Decide(r) \/ GetLatestEvent(r) \/ PushEvent(r) \/ LogEvent(r)
                  \/ AppendAlert(r) \/ OrchestrateCargoIncident(r) \/ LogIncident(r)
           PROVE  Own
      <3>1. UNCHANGED <<redisState, ledgerState>>
            /\ pc'[r] \notin {"fill1", "fill2", "evidence", "set", "upsert"}
        BY <2>11 DEF Decide, GetLatestEvent, PushEvent, LogEvent, AppendAlert,
                     OrchestrateCargoIncident, LogIncident, redisVars, durableVars
      <3>2. QED
        BY <2>6, <3>1 DEF Backed
    <2>12. ASSUME InsertEvent(r) PROVE Own
      <3>1. /\ UNCHANGED <<redisState, ledgerState, event>> /\ pc'[r] = "evidence"
            /\ event[r] \in ledger'[c]
        BY <2>1, <2>12 DEF InsertEvent, redisVars
      <3>2. QED
        BY <2>6, <2>7, <3>1 DEF Backed
    <2>13. ASSUME SaveEvidence(r) PROVE Own
      <3>1. /\ UNCHANGED <<redisState, ledgerState, event, ledger>>
            /\ pc[r] = "evidence" /\ pc'[r] = "set"
            /\ body[r].media => r \in evidence'
        BY <2>13 DEF SaveEvidence, redisVars
      <3>2. QED
        BY <2>1, <2>6, <2>7, <3>1 DEF Backed
    <2>14. ASSUME SetState(r) \/ UpsertState(r) PROVE Own
      <3>1. /\ pc[r] \in {"set", "upsert"} /\ pc'[r] \in {"upsert", "log"}
            /\ UNCHANGED <<event, ledger, evidence>>
            /\ redisState'[c] \in {redisState[c], event[r].state}
            /\ ledgerState'[c] \in {ledgerState[c], event[r].state}
        BY <2>1, <2>7, <2>14 DEF SetState, UpsertState, durableVars, redisVars
      <3>2. PICK s : s = event[r].state
        OBVIOUS
      <3>3. Shown(c, s)
        BY <2>1, <2>7, <3>1, <3>2, BuiltState DEF Shown, Backed, Built
      <3>4. ASSUME NEW t \in {redisState[c], ledgerState[c], s} PROVE Shown(c, t)'
        BY <1>1, <2>3, <3>3, <3>4
      <3>5. Shown(c, redisState[c])' /\ Shown(c, ledgerState[c])'
        BY <3>1, <3>2, <3>4 DEF Shown
      <3>6. Backed(r)'
        BY <2>1, <2>7, <3>1 DEF Backed
      <3>7. QED
        BY <3>5, <3>6
    <2>15. Own
      <3> HIDE DEF Own
      <3>1. QED
        BY <1>3, <2>8, <2>9, <2>10, <2>11, <2>12, <2>13, <2>14 DEF Step
    <2>16. QED
      BY <2>4, <2>5, <2>15
  <1>4. ASSUME Crash PROVE Goal
    <2>1. /\ \A q \in Requests : pc'[q] \notin Stages
          /\ \A q \in Requests : pc'[q] = pc[q] \/ pc'[q] = "aborted"
          /\ UNCHANGED <<body, ledger, ledgerState, evidence>>
          /\ redisState' = redisState \/ redisState' = [c \in Cargo |-> NoState]
      BY <1>4 DEF Crash, LoseRedis, redisVars, durableVars, InFlight, Stages, TypeInv, TypeOK
    <2>2. ASSUME NEW d \in Cargo, NEW s, Shown(d, s) PROVE Shown(d, s)'
      BY <2>1, <2>2, ShownKept
    <2>3. \A c \in Cargo : Shown(c, redisState[c])' /\ Shown(c, ledgerState[c])'
      BY <1>1, <2>1, <2>2
    <2>4. \A q \in Requests : Backed(q)'
      BY <2>1 DEF Backed, Stages
    <2>5. QED
      BY <2>3, <2>4
  <1>5. CASE UNCHANGED vars
    BY <1>1, <1>5 DEF vars, requestVars, redisVars, durableVars, ghostVars, Shown, Backed,
                      cargoOf
  <1>6. QED
    BY <1>2, <1>3, <1>4, <1>5 DEF Next, Finished

\* StateIsLedgered for any number of requests, cargo and crashes: neither a
\* write, nor the write-back of a state read before, nor a restart shows a
\* state whose event or whose evidence the durable ledger does not have.
THEOREM LedgerSafety == Spec => []StateIsLedgered
  <1>1. LedgeredInv => StateIsLedgered
    BY DEF LedgeredInv, Shown, StateIsLedgered
  <1>2. QED
    BY ReloadInvariant, LedgeredInit, LedgeredStep, <1>1, PTL DEF Spec

(***************************************************************************)
(* What is left of a request that ran alone.  While it is in flight nobody *)
(* else touches its cargo; once it is answered, every state that is stored *)
(* or on its way to a store was built on the one it left.                  *)
(***************************************************************************)
LEMMA AloneInFlight ==
    ASSUME InFlightOverlap, NEW q \in Requests, pc[q] \in Stages,
           NEW r \in Requests \ {q}, RanAlone(r), cargoOf(q) = cargoOf(r)
    PROVE  pc[r] \notin Stages
  BY DEF RanAlone, InFlightOverlap, InFlight

\* A request that begins, or makes a step, leaves those alone that were.
LEMMA AloneBefore ==
    ASSUME PlanInv, NEW q \in Requests, Begin(q) \/ Frame(q), NEW r \in Requests \ {q},
           TypeInv, RanAlone(r)'
    PROVE  RanAlone(r) /\ cargoOf(r)' = cargoOf(r)
  <1>1. CASE Begin(q)
    <2>1. /\ pc[q] = "idle" /\ \A k \in Requests \ {q} : body'[k] = body[k]
          /\ overlap \subseteq overlap'
      BY <1>1 DEF Begin, TypeInv, TypeOK
    <2>2. QED
      BY <2>1 DEF RanAlone, Overlapped, PlanInv, OverlapStarted, cargoOf
  <1>2. CASE Frame(q)
    BY <1>2 DEF Frame, RanAlone, Overlapped, cargoOf
  <1>3. QED
    BY <1>1, <1>2

\* What q is about to store remembers r.
Carries(q, r) ==
    /\ pc[q] \in {"fill1", "fill2", "latest"} => r \in prev[q].touched
    /\ pc[q] \in {"push", "insert", "evidence", "set", "upsert"} =>
          r \in event[q].state.touched

Remembered(r) ==
    LET c == cargoOf(r) IN
    /\ pc[r] \in {"upsert", "log", "alert", "respond", "notify"} =>
          r \in redisState[c].touched
    /\ pc[r] \in {"log", "alert", "respond", "notify", "done"} =>
          r \in ledgerState[c].touched
    /\ pc[r] = "done" =>
          /\ redisState[c] # NoState => r \in redisState[c].touched
          /\ \A q \in Requests \ {r} : cargoOf(q) = c => Carries(q, r)

TouchInv == ~LedgerMayBeLost => \A r \in Requests : RanAlone(r) => Remembered(r)

LEMMA TouchInit == Init => TouchInv
  BY DEF Init, TouchInv, Remembered

\* The steps of the request itself.
LEMMA OwnRemembered ==
    ASSUME TypeInv, InFlightOverlap, PlanInv, NEW r \in Requests, Step(r),
           RanAlone(r), Remembered(r)
    PROVE  Remembered(r)'
  <1> DEFINE c == cargoOf(r)
  <1>1. /\ c \in Cargo /\ redisState \in [Cargo -> State] /\ ledgerState \in [Cargo -> State]
        /\ pc \in [Requests -> Stages \cup {"idle", "done", "aborted"}]
    BY DEF cargoOf, TypeInv, TypeOK, Payload
  <1>2. Frame(r)
    BY StepFrame
  <1>3. \A q \in Requests : cargoOf(q)' = cargoOf(q)
    BY <1>2 DEF Frame, cargoOf
  <1>4. pc[r] \in Built => r \in event[r].state.touched
    BY BuiltState
  <1>5. ASSUME NEW q \in Requests \ {r}, cargoOf(q)' = cargoOf(r)' PROVE Carries(q, r)'
    <2>1. pc[q] \notin Stages
      BY <1>2, <1>3, <1>5 DEF RanAlone, InFlightOverlap, InFlight, Frame
    <2>2. QED
      BY <1>2, <2>1 DEF Carries, Frame, Stages
  <1> USE DEF GoTo
  <1>6. CASE \/ \E here \in {"get1", "get2"}, onMiss \in {"load1", "load2"},
                   next \in {"decide", "latest"} : GetState(r, here, onMiss, next)
             \/ \E here \in {"load1", "load2"}, onFound \in {"fill1", "fill2"},
                   next \in {"decide", "latest"} : LoadState(r, here, onFound, next)
             \/ \E here \in {"fill1", "fill2"}, next \in {"decide", "latest"} :
                   FillState(r, here, next)
             \/ Decide(r) \/ GetLatestEvent(r) \/ PushEvent(r) \/ InsertEvent(r)
             \/ SaveEvidence(r)
    <2>1. pc'[r] \notin {"upsert", "log", "alert", "respond", "notify", "done"}
      BY <1>1, <1>6 DEF GetState, LoadState, FillState, Decide, GetLatestEvent, PushEvent,
                        InsertEvent, SaveEvidence
    <2>2. QED
      BY <2>1 DEF Remembered
  <1>7. CASE SetState(r)
    <2>1. pc[r] = "set" /\ pc'[r] = "upsert" /\ redisState'[c] = event[r].state
      BY <1>1, <1>7 DEF SetState
    <2>2. QED
      BY <1>3, <1>4, <2>1 DEF Remembered, Built
  <1>8. CASE UpsertState(r)
    <2>1. /\ pc[r] = "upsert" /\ pc'[r] = "log"
          /\ ledgerState'[c] = event[r].state /\ redisState' = redisState
      BY <1>1, <1>8 DEF UpsertState, redisVars
    <2>2. QED
      BY <1>3, <1>4, <2>1 DEF Remembered, Built
  <1>9. CASE LogEvent(r) \/ AppendAlert(r) \/ OrchestrateCargoIncident(r) \/ LogIncident(r)
    <2>1. /\ pc[r] \in {"log", "alert", "respond", "notify"}
          /\ pc'[r] \in {"alert", "respond", "notify", "done"}
          /\ UNCHANGED <<redisState, ledgerState>>
      BY <1>1, <1>9 DEF LogEvent, AppendAlert, OrchestrateCargoIncident, LogIncident,
                        redisVars, durableVars
    <2>2. QED
      BY <1>3, <1>5, <2>1 DEF Remembered
  <1>10. QED
    BY <1>6, <1>7, <1>8, <1>9 DEF Step

\* The steps of another request on its cargo, which began after its answer.
LEMMA OtherRemembered ==
    ASSUME TypeInv, InFlightOverlap, PlanInv, NEW q \in Requests, Step(q),
           NEW r \in Requests \ {q}, RanAlone(r), Remembered(r)
    PROVE  Remembered(r)'
  <1>1. PICK c \in Cargo : c = cargoOf(r)
    BY DEF cargoOf, TypeInv, TypeOK, Payload
  <1>2. Frame(q)
    BY StepFrame
  <1>3. /\ \A k \in Requests : cargoOf(k)' = cargoOf(k)
        /\ \A k \in Requests \ {q} : Carries(k, r)' = Carries(k, r)
        /\ pc'[r] = pc[r]
    BY <1>2 DEF Frame, cargoOf, Carries
  <1>4. CASE cargoOf(q) # c
    <2>1. redisState'[c] = redisState[c] /\ ledgerState'[c] = ledgerState[c]
      BY <1>2, <1>4 DEF Frame
    <2>2. QED
      BY <1>1, <1>3, <1>4, <2>1 DEF Remembered
  <1>5. CASE cargoOf(q) = c /\ pc[r] # "done"
    <2>1. pc[r] \notin Stages
      BY <1>1, <1>2, <1>5, AloneInFlight DEF Frame
    <2>2. QED
      BY <1>3, <1>5, <2>1 DEF Remembered, Stages
  <1>6. CASE cargoOf(q) = c /\ pc[r] = "done"
    <2>1. /\ r \in ledgerState[c].touched
          /\ redisState[c] # NoState => r \in redisState[c].touched
          /\ Carries(q, r)
      BY <1>1, <1>6 DEF Remembered
    <2>2. ledgerState[c] # NoState
      BY <2>1 DEF NoState
    <2> DEFINE Goal == /\ r \in ledgerState'[c].touched
                       /\ redisState'[c] # NoState => r \in redisState'[c].touched
                       /\ Carries(q, r)'
    <2>3. /\ redisState \in [Cargo -> State] /\ ledgerState \in [Cargo -> State]
          /\ pc \in [Requests -> Stages \cup {"idle", "done", "aborted"}]
          /\ prev \in [Requests -> State] /\ event \in [Requests -> Event \cup {NoEvent}]
      BY DEF TypeInv, TypeOK
    <2> USE DEF GoTo, Carries
    <2>4. ASSUME NEW here \in {"get1", "get2"}, NEW onMiss \in {"load1", "load2"},
                 NEW next \in {"decide", "latest"}, GetState(q, here, onMiss, next)
          PROVE  Goal
      BY <1>6, <2>1, <2>3, <2>4 DEF GetState, redisVars, durableVars
    <2>5. ASSUME NEW here \in {"load1", "load2"}, NEW onFound \in {"fill1", "fill2"},
                 NEW next \in {"decide", "latest"}, LoadState(q, here, onFound, next)
          PROVE  Goal
      BY <1>6, <2>1, <2>2, <2>3, <2>5 DEF LoadState, redisVars, durableVars
    <2>6. ASSUME NEW here \in {"fill1", "fill2"}, NEW next \in {"decide", "latest"},
                 FillState(q, here, next)
          PROVE  Goal
      BY <1>6, <2>1, <2>3, <2>6 DEF FillState, durableVars
    <2>7. Decide(q) => Goal
      BY <2>1, <2>3 DEF Decide, redisVars, durableVars
    <2>8. ASSUME GetLatestEvent(q) PROVE Goal
      <3>1. /\ pc[q] = "latest" /\ pc'[q] = "push"
            /\ UNCHANGED <<redisState, ledgerState>>
        BY <2>3, <2>8 DEF GetLatestEvent, redisVars, durableVars
      <3>2. event'[q].state.touched = prev[q].touched \cup {q}
        <4>1. event'[q].state = buildState(q, body[q], plan[q].action, plan[q].score, prev[q])
          BY <2>3, <2>8 DEF GetLatestEvent
        <4>2. ASSUME NEW p, NEW action, NEW score, NEW before
              PROVE  buildState(q, p, action, score, before).touched = before.touched \cup {q}
          BY DEF buildState
        <4>3. QED
          BY <4>1, <4>2
      <3>3. QED
        BY <2>1, <3>1, <3>2
    <2>9. PushEvent(q) => Goal
      BY <2>1, <2>3 DEF PushEvent, durableVars
    <2>10. InsertEvent(q) \/ SaveEvidence(q) => Goal
      BY <2>1, <2>3 DEF InsertEvent, SaveEvidence, redisVars
    <2>11. SetState(q) => Goal
      BY <1>6, <2>1, <2>3 DEF SetState, durableVars
    <2>12. UpsertState(q) => Goal
      BY <1>6, <2>1, <2>3 DEF UpsertState, redisVars
    <2>13. LogEvent(q) \/ AppendAlert(q) \/ OrchestrateCargoIncident(q) \/ LogIncident(q) => Goal
      BY <2>1, <2>3 DEF LogEvent, AppendAlert, OrchestrateCargoIncident, LogIncident,
                        redisVars, durableVars
    <2>14. Goal
      <3> HIDE DEF Goal
      <3>1. QED
        BY <2>4, <2>5, <2>6, <2>7, <2>8, <2>9, <2>10, <2>11, <2>12, <2>13 DEF Step
    <2> HIDE DEF Carries
    <2>15. \A k \in Requests \ {r} : cargoOf(k)' = c => Carries(k, r)'
      BY <1>1, <1>3, <1>6, <2>14 DEF Remembered
    <2>16. QED
      BY <1>1, <1>3, <1>6, <2>14, <2>15 DEF Remembered
  <1>7. QED
    BY <1>4, <1>5, <1>6

LEMMA RememberedStep ==
    ASSUME TypeInv, InFlightOverlap, PlanInv, [Next]_vars, ~LedgerMayBeLost,
           NEW r \in Requests, RanAlone(r)', RanAlone(r) => Remembered(r)
    PROVE  Remembered(r)'
  <1>1. RanAlone(r) => Remembered(r)
    OBVIOUS
  <1>2. ASSUME NEW q \in Requests, Begin(q) PROVE Remembered(r)'
    <2>1. /\ pc'[q] \in {"get1", "get2"}
          /\ \A k \in Requests \ {q} : pc'[k] = pc[k] /\ body'[k] = body[k]
          /\ UNCHANGED <<prev, event, redisState, ledgerState>>
      BY <1>2 DEF Begin, GoTo, redisVars, durableVars, TypeInv, TypeOK
    <2>2. CASE q = r
      BY <2>1, <2>2 DEF Remembered
    <2>3. CASE q # r
      <3>1. Remembered(r) /\ cargoOf(r)' = cargoOf(r)
        BY <1>1, <1>2, <2>3, AloneBefore
      <3>2. \A k \in Requests \ {r} : Carries(k, r)' \/ (k # q /\ Carries(k, r)' = Carries(k, r))
        BY <2>1 DEF Carries
      <3>3. \A k \in Requests \ {q} : cargoOf(k)' = cargoOf(k)
        BY <2>1 DEF cargoOf
      <3>4. QED
        BY <2>1, <2>3, <3>1, <3>2, <3>3 DEF Remembered
    <2>4. QED
      BY <2>2, <2>3
  <1>3. ASSUME NEW q \in Requests, Step(q) PROVE Remembered(r)'
    <2>1. Frame(q)
      BY <1>3, StepFrame
    <2>2. CASE q = r
      <3>1. RanAlone(r)
        BY <2>1, <2>2 DEF Frame, RanAlone, Overlapped, cargoOf
      <3>2. QED
        BY <1>1, <1>3, <2>2, <3>1, OwnRemembered
    <2>3. CASE q # r
      BY <1>1, <1>3, <2>1, <2>3, AloneBefore, OtherRemembered
    <2>4. QED
      BY <2>2, <2>3
  <1>4. ASSUME Crash PROVE Remembered(r)'
    <2>1. /\ \A k \in Requests : pc'[k] \notin Stages
          /\ \A k \in Requests : pc'[k] = pc[k] \/ pc'[k] = "aborted"
          /\ UNCHANGED <<body, prev, event, overlap, ledgerState>>
          /\ redisState' = redisState \/ redisState' = [c \in Cargo |-> NoState]
      BY <1>4 DEF Crash, LoseRedis, redisVars, durableVars, InFlight, Stages, TypeInv, TypeOK
    <2>2. Remembered(r) /\ cargoOf(r)' = cargoOf(r) /\ cargoOf(r) \in Cargo
      BY <1>1, <2>1 DEF RanAlone, Overlapped, cargoOf, TypeInv, TypeOK, Payload
    <2>3. \A k \in Requests : Carries(k, r)'
      BY <2>1 DEF Carries, Stages
    <2>4. QED
      BY <2>1, <2>2, <2>3 DEF Remembered, Stages
  <1>5. CASE UNCHANGED vars
    BY <1>1, <1>5 DEF vars, requestVars, redisVars, durableVars, ghostVars, Remembered, Carries,
                      RanAlone, Overlapped, cargoOf
  <1>6. QED
    BY <1>2, <1>3, <1>4, <1>5 DEF Next, Finished

LEMMA TouchStep ==
    TypeInv /\ InFlightOverlap /\ PlanInv /\ TouchInv /\ [Next]_vars => TouchInv'
  BY RememberedStep DEF TouchInv

\* LostUpdateNeedsOverlap for any number of requests, cargo and crashes: an
\* answered handler is forgotten by the custody state only if another request
\* on the cargo was in flight together with theirs.
THEOREM LostUpdateSafety == Spec => []LostUpdateNeedsOverlap
  <1>1. TypeInv /\ TouchInv => LostUpdateNeedsOverlap
    BY DEF TouchInv, Remembered, LostUpdateNeedsOverlap, CurrentState
  <1>2. ForkInv => InFlightOverlap
    BY DEF ForkInv
  <1>3. QED
    BY ReloadInvariant, TypeInit, TypeStep, ForkInit, ForkStep, TouchInit, TouchStep,
       <1>1, <1>2, PTL
    DEF Spec

(***************************************************************************)
(* The newest event of the Redis ledger.  While it is that of a request    *)
(* that ran alone, whoever reads the cargo finds its state in Redis, so    *)
(* nobody is on the way to load an older one from the ledger store, and    *)
(* nobody stores another state before pushing another event.               *)
(***************************************************************************)
\* Where a request is about to write the Redis state, or may come to do so
\* without pushing an event first.
Restoring == {"load1", "load2", "fill1", "fill2", "insert", "evidence", "set", "upsert"}

Rules(r) ==
    LET c == cargoOf(r) IN
    /\ pc[r] \in {"upsert", "log", "alert", "respond", "notify"} =>
          redisState[c] = event[r].state
    /\ (pc[r] = "done" /\ LatestHash(c) = r) =>
          /\ redisState[c] = event[r].state
          /\ \A q \in Requests \ {r} : cargoOf(q) = c => pc[q] \notin Restoring

LatestInv == \A r \in Requests : RanAlone(r) => Rules(r)

LEMMA LatestInit == Init => LatestInv
  BY DEF Init, LatestInv, Rules

\* Only its own requests push to the ledger of a cargo.
LEMMA LatestFrame ==
    ASSUME TypeInv, NEW q \in Requests, Step(q), NEW c \in Cargo
    PROVE  /\ (PushEvent(q) /\ c = cargoOf(q)) => LatestHash(c)' = q
           /\ ~(PushEvent(q) /\ c = cargoOf(q)) => LatestHash(c)' = LatestHash(c)
  <1>1. CASE PushEvent(q)
    <2>1. PICK d \in Cargo : d = cargoOf(q)
      BY DEF cargoOf, TypeInv, TypeOK, Payload
    <2>2. event[q] \in Event /\ event[q].id = q
      BY <1>1 DEF PushEvent, TypeInv, EventBuilt, Built
    <2>3. redisLedger' = [redisLedger EXCEPT ![d] = Trim(<<event[q]>> \o @)]
      BY <1>1, <2>1 DEF PushEvent
    <2>4. /\ redisLedger'[d] = Trim(<<event[q]>> \o redisLedger[d])
          /\ redisLedger[d] \in Seq(Event)
      BY <2>3 DEF TypeInv, TypeOK
    <2>5. redisLedger'[d] # <<>> /\ redisLedger'[d][1] = event[q]
      BY <2>2, <2>4, TrimType
    <2>6. c # d => redisLedger'[c] = redisLedger[c]
      BY <2>3 DEF TypeInv, TypeOK
    <2>7. QED
      BY <1>1, <2>1, <2>2, <2>5, <2>6 DEF LatestHash
  <1>2. CASE ~PushEvent(q)
    <2>1. redisLedger' = redisLedger
      BY <1>2 DEF Step, GetState, LoadState, FillState, Decide, GetLatestEvent, InsertEvent,
                  SaveEvidence, SetState, UpsertState, LogEvent, AppendAlert,
                  OrchestrateCargoIncident, LogIncident, redisVars
    <2>2. QED
      BY <1>2, <2>1 DEF LatestHash
  <1>3. QED
    BY <1>1, <1>2

\* The steps of the request itself.
LEMMA OwnRules ==
    ASSUME TypeInv, InFlightOverlap, PlanInv, NEW r \in Requests, Step(r),
           RanAlone(r), Rules(r)
    PROVE  Rules(r)'
  <1>1. PICK c \in Cargo : c = cargoOf(r)
    BY DEF cargoOf, TypeInv, TypeOK, Payload
  <1>2. Frame(r)
    BY StepFrame
  <1>3. /\ \A q \in Requests : cargoOf(q)' = cargoOf(q)
        /\ \A q \in Requests \ {r} : cargoOf(q) = c => pc'[q] \notin Stages
    BY <1>1, <1>2 DEF Frame, cargoOf, RanAlone, InFlightOverlap, InFlight
  <1>4. \A q \in Requests \ {r} : cargoOf(q) = c => pc'[q] \notin Restoring
    BY <1>3 DEF Restoring, Stages
  <1>5. redisState \in [Cargo -> State] /\ pc \in [Requests -> Stages \cup {"idle", "done", "aborted"}]
    BY DEF TypeInv, TypeOK
  <1> USE DEF GoTo
  <1>6. CASE \/ \E here \in {"get1", "get2"}, onMiss \in {"load1", "load2"},
                   next \in {"decide", "latest"} : GetState(r, here, onMiss, next)
             \/ \E here \in {"load1", "load2"}, onFound \in {"fill1", "fill2"},
                   next \in {"decide", "latest"} : LoadState(r, here, onFound, next)
             \/ \E here \in {"fill1", "fill2"}, next \in {"decide", "latest"} :
                   FillState(r, here, next)
             \/ Decide(r) \/ GetLatestEvent(r) \/ PushEvent(r) \/ InsertEvent(r)
             \/ SaveEvidence(r)
    <2>1. pc'[r] \notin {"upsert", "log", "alert", "respond", "notify", "done"}
      BY <1>5, <1>6 DEF GetState, LoadState, FillState, Decide, GetLatestEvent, PushEvent,
                        InsertEvent, SaveEvidence
    <2>2. QED
      BY <2>1 DEF Rules
  <1>7. CASE SetState(r)
    <2>1. /\ pc'[r] = "upsert" /\ redisState'[c] = event[r].state
          /\ event' = event
      BY <1>1, <1>5, <1>7 DEF SetState
    <2>2. QED
      BY <1>1, <1>3, <2>1 DEF Rules
  <1>8. CASE UpsertState(r) \/ LogEvent(r) \/ AppendAlert(r) \/ OrchestrateCargoIncident(r)
             \/ LogIncident(r)
    <2>1. /\ pc[r] \in {"upsert", "log", "alert", "respond", "notify"}
          /\ pc'[r] \in {"log", "alert", "respond", "notify", "done"}
          /\ UNCHANGED <<redisState, event>>
      BY <1>5, <1>8 DEF UpsertState, LogEvent, AppendAlert, OrchestrateCargoIncident,
                        LogIncident, redisVars, durableVars
    <2>2. redisState[c] = event[r].state
      BY <1>1, <2>1 DEF Rules
    <2>3. QED
      BY <1>1, <1>3, <1>4, <2>1, <2>2 DEF Rules
  <1>9. QED
    BY <1>6, <1>7, <1>8 DEF Step

\* The steps of another request on its cargo, which began after its answer.
LEMMA OtherRules ==
    ASSUME TypeInv, InFlightOverlap, PlanInv, NEW q \in Requests, Step(q),
           NEW r \in Requests \ {q}, RanAlone(r), Rules(r)
    PROVE  Rules(r)'
  <1>1. PICK c \in Cargo : c = cargoOf(r)
    BY DEF cargoOf, TypeInv, TypeOK, Payload
  <1>2. Frame(q)
    BY StepFrame
  <1>3. /\ \A k \in Requests : cargoOf(k)' = cargoOf(k)
        /\ \A k \in Requests \ {q} : pc'[k] = pc[k]
        /\ pc'[r] = pc[r] /\ event'[r] = event[r]
    BY <1>2 DEF Frame, cargoOf
  <1>4. CASE cargoOf(q) # c
    <2>1. redisState'[c] = redisState[c] /\ LatestHash(c)' = LatestHash(c)
      BY <1>2, <1>4, LatestFrame DEF Frame
    <2>2. QED
      BY <1>1, <1>3, <1>4, <2>1 DEF Rules
  <1>5. CASE cargoOf(q) = c /\ (pc[r] # "done" \/ PushEvent(q))
    <2>1. pc[r] \notin Stages
      BY <1>1, <1>2, <1>5, AloneInFlight DEF Frame
    <2>2. PushEvent(q) => LatestHash(c)' # r
      BY <1>5, LatestFrame
    <2>3. QED
      BY <1>1, <1>3, <1>5, <2>1, <2>2 DEF Rules, Stages
  <1>6. CASE cargoOf(q) = c /\ pc[r] = "done" /\ ~PushEvent(q)
    <2>1. LatestHash(c)' = LatestHash(c)
      BY <1>6, LatestFrame
    <2>2. CASE LatestHash(c) # r
      BY <1>1, <1>3, <1>6, <2>1, <2>2 DEF Rules
    <2>3. CASE LatestHash(c) = r
      <3>1. /\ redisState[c] = event[r].state /\ redisState[c] # NoState
            /\ pc[q] \notin Restoring
        BY <1>1, <1>6, <2>3, BuiltState DEF Rules, Built
      <3>2. pc \in [Requests -> Stages \cup {"idle", "done", "aborted"}]
        BY DEF TypeInv, TypeOK
      <3> DEFINE Goal == redisState'[c] = redisState[c] /\ pc'[q] \notin Restoring
      <3> USE DEF GoTo, Restoring
      <3>3. ASSUME NEW here \in {"get1", "get2"}, NEW onMiss \in {"load1", "load2"},
                   NEW next \in {"decide", "latest"}, GetState(q, here, onMiss, next)
            PROVE  Goal
        BY <1>6, <3>1, <3>2, <3>3 DEF GetState, redisVars
      <3>4. ASSUME NEW here \in {"load1", "load2"}, NEW onFound \in {"fill1", "fill2"},
                   NEW next \in {"decide", "latest"}, LoadState(q, here, onFound, next)
            PROVE  Goal
        BY <3>1, <3>4 DEF LoadState
      <3>5. ASSUME NEW here \in {"fill1", "fill2"}, NEW next \in {"decide", "latest"},
                   FillState(q, here, next)
            PROVE  Goal
        BY <3>1, <3>5 DEF FillState
      <3>6. Decide(q) \/ GetLatestEvent(q) => Goal
        BY <3>2 DEF Decide, GetLatestEvent, redisVars
      <3>7. InsertEvent(q) \/ SaveEvidence(q) \/ SetState(q) \/ UpsertState(q) => Goal
        BY <3>1 DEF InsertEvent, SaveEvidence, SetState, UpsertState
      <3>8. LogEvent(q) \/ AppendAlert(q) \/ OrchestrateCargoIncident(q) \/ LogIncident(q) => Goal
        BY <3>2 DEF LogEvent, AppendAlert, OrchestrateCargoIncident, LogIncident, redisVars
      <3>9. Goal
        <4> HIDE DEF Goal
        <4>1. QED
          BY <1>6, <3>3, <3>4, <3>5, <3>6, <3>7, <3>8 DEF Step
      <3> HIDE DEF Restoring
      <3>10. \A k \in Requests \ {r} : cargoOf(k)' = c => pc'[k] \notin Restoring
        BY <1>1, <1>3, <1>6, <2>3, <3>9 DEF Rules
      <3>11. QED
        BY <1>1, <1>3, <1>6, <3>1, <3>9, <3>10 DEF Rules
    <2>4. QED
      BY <2>2, <2>3
  <1>7. QED
    BY <1>4, <1>5, <1>6

LEMMA LatestStep ==
    TypeInv /\ InFlightOverlap /\ PlanInv /\ LatestInv /\ [Next]_vars => LatestInv'
  <1> SUFFICES ASSUME TypeInv, InFlightOverlap, PlanInv, LatestInv, [Next]_vars,
                      NEW r \in Requests, RanAlone(r)'
               PROVE  Rules(r)'
    BY DEF LatestInv
  <1>1. RanAlone(r) => Rules(r)
    BY DEF LatestInv
  <1>2. ASSUME NEW q \in Requests, Begin(q) PROVE Rules(r)'
    <2>1. /\ pc'[q] \in {"get1", "get2"}
          /\ \A k \in Requests \ {q} : pc'[k] = pc[k] /\ body'[k] = body[k]
          /\ UNCHANGED <<event, redisState, redisLedger>>
      BY <1>2 DEF Begin, GoTo, redisVars, TypeInv, TypeOK
    <2>2. CASE q = r
      BY <2>1, <2>2 DEF Rules
    <2>3. CASE q # r
      <3>1. Rules(r) /\ cargoOf(r)' = cargoOf(r)
        BY <1>1, <1>2, <2>3, AloneBefore
      <3>2. /\ \A k \in Requests \ {q} : cargoOf(k)' = cargoOf(k)
            /\ pc'[q] \notin Restoring
            /\ \A c \in Cargo : LatestHash(c)' = LatestHash(c)
        BY <2>1 DEF cargoOf, Restoring, LatestHash
      <3>3. cargoOf(r) \in Cargo
        BY DEF cargoOf, TypeInv, TypeOK, Payload
      <3>4. QED
        BY <2>1, <2>3, <3>1, <3>2, <3>3 DEF Rules
    <2>4. QED
      BY <2>2, <2>3
  <1>3. ASSUME NEW q \in Requests, Step(q) PROVE Rules(r)'
    <2>1. Frame(q)
      BY <1>3, StepFrame
    <2>2. CASE q = r
      <3>1. RanAlone(r)
        BY <2>1, <2>2 DEF Frame, RanAlone, Overlapped, cargoOf
      <3>2. QED
        BY <1>1, <1>3, <2>2, <3>1, OwnRules
    <2>3. CASE q # r
      BY <1>1, <1>3, <2>1, <2>3, AloneBefore, OtherRules
    <2>4. QED
      BY <2>2, <2>3
  <1>4. ASSUME Crash PROVE Rules(r)'
    <2>1. /\ \A k \in Requests : pc'[k] \notin Stages
          /\ \A k \in Requests : pc'[k] = pc[k] \/ pc'[k] = "aborted"
          /\ UNCHANGED <<body, event, overlap>>
      BY <1>4 DEF Crash, InFlight, Stages, TypeInv, TypeOK
    <2>2. \/ UNCHANGED <<redisState, redisLedger>>
          \/ redisLedger' = [c \in Cargo |-> <<>>]
      BY <1>4 DEF Crash, LoseRedis, redisVars
    <2>3. /\ Rules(r)
          /\ cargoOf(r)' = cargoOf(r) /\ cargoOf(r) \in Cargo
      BY <1>1, <2>1 DEF RanAlone, Overlapped, cargoOf, TypeInv, TypeOK, Payload
    <2>4. \A k \in Requests : pc'[k] \notin Restoring
      BY <2>1 DEF Restoring, Stages
    <2>5. CASE UNCHANGED <<redisState, redisLedger>>
      BY <2>1, <2>3, <2>4, <2>5 DEF Rules, LatestHash, Stages
    <2>6. CASE redisLedger' = [c \in Cargo |-> <<>>]
      <3>1. LatestHash(cargoOf(r))' # r
        BY <2>3, <2>6, GenesisAssumption DEF LatestHash
      <3>2. QED
        BY <2>1, <3>1 DEF Rules, Stages
    <2>7. QED
      BY <2>2, <2>5, <2>6
  <1>5. CASE UNCHANGED vars
    BY <1>1, <1>5 DEF vars, requestVars, redisVars, durableVars, ghostVars, Rules, LatestHash,
                      RanAlone, Overlapped, cargoOf
  <1>6. QED
    BY <1>2, <1>3, <1>4, <1>5 DEF Next, Finished

\* LatestEventRules for any number of requests, cargo, crashes and lost data:
\* while an event recorded without a competitor is the newest one, no read,
\* no write-back and no restart puts another state in force.
THEOREM LatestEventSafety == Spec => []LatestEventRules
  <1>1. TypeInv /\ PlanInv /\ LatestInv => LatestEventRules
    <2> SUFFICES ASSUME TypeInv, PlanInv, LatestInv, NEW r \in Requests,
                        pc[r] = "done", RanAlone(r), LatestHash(cargoOf(r)) = r
                 PROVE  CurrentState(cargoOf(r)) = event[r].state
      BY DEF LatestEventRules
    <2>1. redisState[cargoOf(r)] = event[r].state
      BY DEF LatestInv, Rules
    <2>2. event[r].state # NoState
      BY BuiltState DEF Built
    <2>3. QED
      BY <2>1, <2>2 DEF CurrentState
  <1>2. ForkInv => InFlightOverlap
    BY DEF ForkInv
  <1>3. QED
    BY ReloadInvariant, TypeInit, TypeStep, ForkInit, ForkStep, LatestInit, LatestStep,
       <1>1, <1>2, PTL
    DEF Spec
===========================================================================
