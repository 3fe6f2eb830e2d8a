----------------------------- MODULE EdgeProofs -----------------------------
(***************************************************************************)
(* What surrounds the custody service, for any constants: the realtime     *)
(* service of the control tower page (FlightFeed), the demo events that    *)
(* are recorded before the first answer (CargoSeeding) and the custody     *)
(* page (CustodyPage).                                                     *)
(***************************************************************************)
EXTENDS FlightFeed, CargoSeeding, CustodyPage, FiniteSetTheorems, SequenceTheorems, TLAPS

(***************************************************************************)
(* FlightFeed.  A socket that the service remembers is not closed, so that *)
(* stop closes no socket twice; and the interval of the simulation is set  *)
(* as long as the page is there.                                           *)
(***************************************************************************)
inUse == {s \in Sockets : sockets[s] # "none"}

FeedTypeOK ==
    /\ sockets \in [Sockets -> {"none", "connecting", "open", "closing"}]
    /\ ws \in inUse \cup {NoSocket}
    /\ {timers, pollings, reconnectAttempts, starts} \subseteq Nat
    /\ mounted \in BOOLEAN
    /\ simulations = IF mounted THEN 1 ELSE 0

LoopsCounted == Cardinality(inUse) + timers + pollings = starts

PageIsTold ==
    mounted => /\ flights = flightData /\ alerts \subseteq alertData
               /\ \A a \in alertData \ alerts : a.simulated

FeedInv == FeedTypeOK /\ LoopsCounted /\ PageIsTold

LEMMA InUseFinite == IsFiniteSet(inUse) /\ Cardinality(inUse) \in Nat
  <1>1. IsFiniteSet(inUse)
    BY FeedAssumption, FS_Subset DEF inUse
  <1>2. QED
    BY <1>1, FS_CardinalityType

LEMMA FeedInitOK == FeedInit => FeedInv
  <1> SUFFICES ASSUME FeedInit PROVE FeedInv
    OBVIOUS
  <1>1. inUse = {}
    BY DEF FeedInit, inUse
  <1>2. FeedTypeOK
    <2>1. {timers, pollings, reconnectAttempts, starts} \subseteq Nat
      BY DEF FeedInit
    <2>2. mounted \in BOOLEAN /\ simulations = IF mounted THEN 1 ELSE 0
      BY DEF FeedInit
    <2>3. QED
      BY <2>1, <2>2 DEF FeedInit, FeedTypeOK
  <1>3. LoopsCounted
    BY <1>1, FS_EmptySet DEF FeedInit, LoopsCounted
  <1>4. PageIsTold
    BY DEF FeedInit, PageIsTold
  <1>5. QED
    BY <1>2, <1>3, <1>4 DEF FeedInv

\* A new connection uses one more socket.
LEMMA ConnectCounts ==
    ASSUME FeedTypeOK, connect(sockets)
    PROVE  /\ sockets' \in [Sockets -> {"none", "connecting", "open", "closing"}]
           /\ ws' \in inUse'
           /\ Cardinality(inUse') = Cardinality(inUse) + 1
  <1>1. PICK s \in Sockets : /\ sockets[s] = "none"
                             /\ sockets' = [sockets EXCEPT ![s] = "connecting"]
                             /\ ws' = s
    BY DEF connect
  <1>2. inUse' = inUse \cup {s} /\ s \notin inUse
    BY <1>1 DEF FeedTypeOK, inUse
  <1>3. Cardinality(inUse') = Cardinality(inUse) + 1
    BY <1>2, InUseFinite, FS_AddElement
  <1>4. QED
    BY <1>1, <1>2, <1>3 DEF FeedTypeOK

LEMMA FeedStep == FeedInv /\ [FeedNext]_feedVars => FeedInv'
  <1> SUFFICES ASSUME FeedInv, [FeedNext]_feedVars PROVE FeedInv'
    OBVIOUS
  <1> USE DEF FeedInv
  <1>1. CASE Reconnect
    <2>1. connect(sockets) /\ timers \in Nat /\ timers' = timers - 1 /\ timers > 0
      BY <1>1 DEF Reconnect, FeedTypeOK
    <2>2. FeedTypeOK'
      BY <1>1, <2>1, ConnectCounts DEF Reconnect, FeedTypeOK, pageVars
    <2>3. LoopsCounted'
      BY <1>1, <2>1, ConnectCounts, InUseFinite DEF Reconnect, FeedTypeOK, LoopsCounted
    <2>4. PageIsTold'
      BY <1>1 DEF Reconnect, PageIsTold, dataVars, pageVars
    <2>5. QED
      BY <2>2, <2>3, <2>4
  <1>2. ASSUME NEW s \in Sockets, OnOpen(s)
        PROVE  FeedInv'
    <2>1. inUse' = inUse
      BY <1>2 DEF OnOpen, FeedTypeOK, inUse
    <2>2. FeedTypeOK'
      BY <1>2, <2>1 DEF OnOpen, FeedTypeOK
    <2>3. LoopsCounted'
      BY <1>2, <2>1 DEF OnOpen, LoopsCounted
    <2>4. PageIsTold'
      BY <1>2 DEF OnOpen, PageIsTold, dataVars
    <2>5. QED
      BY <2>2, <2>3, <2>4
  <1>3. ASSUME NEW s \in Sockets, OnClose(s)
        PROVE  FeedInv'
    <2>1. s \in inUse /\ inUse' = inUse \ {s}
      BY <1>3 DEF OnClose, FeedTypeOK, inUse
    <2>2. Cardinality(inUse') = Cardinality(inUse) - 1
      BY <2>1, InUseFinite, FS_RemoveElement
    <2>3. /\ {timers', pollings', reconnectAttempts'} \subseteq Nat
          /\ timers' + pollings' = timers + pollings + 1
      BY <1>3 DEF OnClose, attemptReconnect, FeedTypeOK
    <2>4. FeedTypeOK'
      BY <1>3, <2>1, <2>3 DEF OnClose, FeedTypeOK, pageVars
    <2>5. LoopsCounted'
      BY <1>3, <2>2, <2>3, InUseFinite DEF OnClose, FeedTypeOK, LoopsCounted
    <2>6. PageIsTold'
      BY <1>3 DEF OnClose, PageIsTold, dataVars, pageVars
    <2>7. QED
      BY <2>4, <2>5, <2>6
  <1>4. ASSUME UNCHANGED <<linkVars, simulations, mounted, starts>>
        PROVE  FeedTypeOK' /\ LoopsCounted'
    <2>1. UNCHANGED <<sockets, ws, reconnectAttempts, timers, pollings>>
      BY <1>4 DEF linkVars
    <2>2. inUse' = inUse
      BY <2>1 DEF inUse
    <2>3. QED
      BY <1>4, <2>1, <2>2 DEF FeedTypeOK, LoopsCounted
  <1>5. ASSUME NEW s \in Sockets, NEW f \in Flights, FlightUpdate(s, f)
        PROVE  FeedInv'
    BY <1>4, <1>5 DEF FlightUpdate, PageIsTold
  <1>6. ASSUME NEW s \in Sockets, NEW u \in Ulds, NEW x, UldUpdate(s, u, x)
        PROVE  FeedInv'
    BY <1>4, <1>6 DEF UldUpdate, PageIsTold, pageVars
  <1>7. ASSUME NEW s \in Sockets, NEW a, AlertMessage(s, a)
        PROVE  FeedInv'
    BY <1>4, <1>7 DEF AlertMessage, PageIsTold
  <1>8. CASE Simulate
    <2>1. \/ alertData' = alertData
          \/ \E a : /\ a.simulated /\ \A b \in alertData : b.id # a.id
                    /\ alertData' = withAlert(a)
      BY <1>8 DEF Simulate, maybeGenerateAlert
    <2>2. alertData \subseteq alertData' /\ \A a \in alertData' \ alertData : a.simulated
      BY <2>1 DEF withAlert
    <2>3. PageIsTold'
      BY <1>8, <2>2 DEF Simulate, PageIsTold, pageVars
    <2>4. QED
      BY <1>4, <1>8, <2>3 DEF Simulate, pageVars
  <1>9. CASE Mount
    <2>1. connect(sockets) /\ starts \in Nat /\ starts' = starts + 1
      BY <1>9 DEF Mount, FeedTypeOK
    <2>2. FeedTypeOK'
      BY <1>9, <2>1, ConnectCounts DEF Mount, startSimulation, FeedTypeOK
    <2>3. LoopsCounted'
      BY <1>9, <2>1, ConnectCounts, InUseFinite DEF Mount, FeedTypeOK, LoopsCounted
    <2>4. PageIsTold'
      BY <1>9 DEF Mount, PageIsTold
    <2>5. QED
      BY <2>2, <2>3, <2>4
  <1>10. CASE Unmount
    <2>1. inUse' = inUse
      BY <1>10 DEF Unmount, FeedTypeOK, inUse
    <2>2. FeedTypeOK'
      BY <1>10, <2>1 DEF Unmount, FeedTypeOK
    <2>3. LoopsCounted'
      BY <1>10, <2>1 DEF Unmount, LoopsCounted
    <2>4. PageIsTold'
      BY <1>10 DEF Unmount, PageIsTold
    <2>5. QED
      BY <2>2, <2>3, <2>4
  <1>11. CASE UNCHANGED feedVars
    BY <1>4, <1>11 DEF feedVars, dataVars, pageVars, PageIsTold
  <1>12. QED
    BY <1>1, <1>2, <1>3, <1>5, <1>6, <1>7, <1>8, <1>9, <1>10, <1>11 DEF FeedNext

LEMMA FeedInvariant == FeedSpec => []FeedInv
  BY FeedInitOK, FeedStep, PTL DEF FeedSpec

\* What a start began goes on for good, after stop as before: realtimeService
\* never has fewer nor more sockets, timeouts and pollings than it was started.
THEOREM LoopsAddUp == FeedSpec => []LoopPerStart
  <1>1. FeedInv => LoopPerStart
    <2>1. Sockets \ inState("none") = inUse
      BY DEF inState, inUse
    <2>2. QED
      BY <2>1 DEF FeedInv, LoopsCounted, LoopPerStart
  <1>2. QED
    BY <1>1, FeedInvariant, PTL

\* A page that is there shows what its service has, but for the alerts of the
\* simulation that the service keeps from it.
THEOREM PageIsCurrent == FeedSpec => []PageShowsService
  <1>1. FeedInv => PageShowsService
    BY DEF FeedInv, FeedTypeOK, PageIsTold, PageShowsService
  <1>2. QED
    BY <1>1, FeedInvariant, PTL
-----------------------------------------------------------------------------
(***************************************************************************)
(* CargoSeeding.  Unless two first calls overlapped, a call that found the *)
(* repository empty is the only one past the flag, so the seeding it may   *)
(* start is the first; and whoever passes it later finds either seeds that *)
(* are being recorded or all of them.                                      *)
(***************************************************************************)
Under == {"listing", "listed", "seeding", "saving"}

SeedingTypeOK ==
    /\ pc \in [Callers -> Under \cup {"new", "ready", "pushed", "done", "failed"}]
    /\ {seeded, overlapped, broken} \subseteq BOOLEAN
    /\ empty \in [Callers -> BOOLEAN]
    /\ next \in [Callers -> Seeds]
    /\ ledger \in [Cargo -> Seq(Entries)]
    /\ state \in [Cargo -> Entries \cup {Nothing}]
    /\ seen \in [Readers -> SUBSET Cargo]
    /\ \A k \in Callers : pc[k] = "pushed" => k \in Writers

Quiet == \A k \in Callers : ~seeding(k)

\* The flag is set for whoever is past it, and only a call with seeds to
\* record finds nothing.
FlagInv ==
    /\ \A k \in Callers : pc[k] \in {"ready", "pushed", "seeding", "saving"} => seeded
    /\ \A k \in Callers : pc[k] = "listed" /\ ~empty[k] => stored # {}
    /\ \A k \in Callers : seeding(k) => SeedDemo
    /\ \A w \in Writers : pc[w] = "done" => stored # {}

\* As long as first calls do not overlap: seeds are recorded by one call, while
\* no other asks the repository; it began when nothing was stored.
AloneInSeeding ==
    ~overlapped =>
        /\ \A k, j \in Callers : seeding(k) /\ pc[j] \in Under => k = j
        /\ \A k \in Callers : SeedDemo /\ pc[k] = "listed" /\ empty[k] => ~seeded /\ stored = {}
        /\ SeedDemo /\ seeded => stored # {} \/ ~Quiet

\* A writer that did not pass a seeding finds it over for good.
PastSeeding ==
    ~overlapped =>
        \A w \in Writers : pc[w] \in {"ready", "pushed", "done"} /\ w \notin early =>
            Quiet /\ (SeedDemo => stored # {})

LateStates ==
    ~overlapped =>
        \A w \in Writers : pc[w] = "done" /\ w \notin early => state[cargoOf[w]] \notin Seeds

AllStored == Range(SeedEvents) \subseteq stored

\* Unless one is cut short, a seeding that began stores every shipment.
SeedsGetStored ==
    SeedDemo /\ ~broken =>
        /\ \A k \in Callers : seeding(k) => \A n \in Seeds : n < next[k] => SeedEvents[n] \in stored
        /\ seeded \/ stored # {} => AllStored \/ ~Quiet
        /\ \A k \in Callers : pc[k] = "ready" /\ k \notin early => AllStored
        /\ \A k \in Readers : pc[k] = "done" /\ k \notin early => Range(SeedEvents) \subseteq seen[k]

Absent(n) == \A i \in DOMAIN ledger[SeedEvents[n]] : ledger[SeedEvents[n]][i] # n
Once(n) ==
    \A i, j \in DOMAIN ledger[SeedEvents[n]] :
        ledger[SeedEvents[n]][i] = n /\ ledger[SeedEvents[n]][j] = n => i = j

\* A seeding that starts is the first, and it goes through the seeds in order.
SeedsInOrder ==
    ~overlapped /\ ~broken =>
        /\ stored = {} /\ Quiet => \A n \in Seeds : Absent(n)
        /\ \A k \in Callers : pc[k] = "listed" /\ empty[k] => \A n \in Seeds : Absent(n)
        /\ \A k \in Callers : seeding(k) =>
              \A n \in Seeds : (IF pc[k] = "saving" THEN n > next[k] ELSE n >= next[k]) => Absent(n)
        /\ \A n \in Seeds : Once(n)

SeedingInv == SeedingTypeOK /\ FlagInv /\ AloneInSeeding /\ PastSeeding /\ LateStates

LEMMA SeedFacts ==
    /\ Seeds = 1 .. Len(SeedEvents) /\ Len(SeedEvents) \in Nat \ {0}
    /\ \A n \in Seeds : n \in Nat \ {0} /\ SeedEvents[n] \in Cargo
    /\ Writers \cap Seeds = {} /\ Nothing \notin Entries
    /\ Range(SeedEvents) = {SeedEvents[n] : n \in Seeds} /\ Range(SeedEvents) \subseteq Cargo
  <1>1. /\ SeedEvents \in Seq(Cargo) /\ SeedEvents # <<>> /\ Writers \cap Nat = {}
    BY SeedingAssumption
  <1>2. Len(SeedEvents) \in Nat \ {0} /\ Seeds = 1 .. Len(SeedEvents)
    BY <1>1 DEF Seeds
  <1>3. \A n \in Seeds : n \in Nat \ {0} /\ SeedEvents[n] \in Cargo
    BY <1>1, <1>2
  <1>4. QED
    BY <1>1, <1>2, <1>3 DEF Entries, Nothing, Range, Seeds

LEMMA SeedingInitOK == SeedingInit => SeedingInv /\ SeedsGetStored /\ SeedsInOrder
  <1> SUFFICES ASSUME SeedingInit PROVE SeedingInv /\ SeedsGetStored /\ SeedsInOrder
    OBVIOUS
  <1>1. stored = {}
    BY DEF SeedingInit, stored
  <1>2. SeedingTypeOK
    <2>1. 1 \in Seeds
      BY SeedFacts
    <2>2. ledger \in [Cargo -> Seq(Entries)] /\ state \in [Cargo -> Entries \cup {Nothing}]
      BY DEF SeedingInit
    <2>3. {seeded, overlapped, broken} \subseteq BOOLEAN /\ empty \in [Callers -> BOOLEAN]
      BY DEF SeedingInit
    <2>4. next \in [Callers -> Seeds] /\ seen \in [Readers -> SUBSET Cargo]
      BY <2>1 DEF SeedingInit
    <2>5. QED
      BY <2>2, <2>3, <2>4 DEF SeedingInit, SeedingTypeOK
  <1>3. FlagInv
    BY DEF SeedingInit, FlagInv, seeding, Callers
  <1>4. AloneInSeeding /\ PastSeeding /\ LateStates
    BY DEF SeedingInit, AloneInSeeding, PastSeeding, LateStates, seeding, Under, Callers
  <1>5. SeedsGetStored
    BY <1>1 DEF SeedingInit, SeedsGetStored, seeding, Callers
  <1>6. \A n \in Seeds : Absent(n) /\ Once(n)
    BY SeedFacts DEF SeedingInit, Absent, Once
  <1>7. SeedsInOrder
    BY <1>6 DEF SeedsInOrder
  <1>8. QED
    BY <1>2, <1>3, <1>4, <1>5, <1>7 DEF SeedingInv

LEMMA SeedingTypeStep == SeedingTypeOK /\ [SeedingNext]_seedingVars => SeedingTypeOK'
  <1> SUFFICES ASSUME SeedingTypeOK, [SeedingNext]_seedingVars PROVE SeedingTypeOK'
    OBVIOUS
  <1> USE DEF SeedingTypeOK, Under, seedVars, storeVars, ghostVars
  <1>1. ASSUME NEW k \in Callers, Call(k)
        PROVE  SeedingTypeOK'
    BY <1>1 DEF Call
  <1>2. ASSUME NEW k \in Callers, ListCargo(k)
        PROVE  SeedingTypeOK'
    BY <1>2 DEF ListCargo
  <1>3. ASSUME NEW k \in Callers, EnsureSeedData(k)
        PROVE  SeedingTypeOK'
    <2>1. 1 \in Seeds
      BY SeedFacts
    <2>2. overlapped' \in BOOLEAN /\ next' \in [Callers -> Seeds]
      BY <1>3, <2>1 DEF EnsureSeedData
    <2>3. QED
      BY <1>3, <2>2 DEF EnsureSeedData
  <1>4. ASSUME NEW k \in Callers, PushSeed(k)
        PROVE  SeedingTypeOK'
    <2>1. next[k] \in Entries /\ SeedEvents[next[k]] \in Cargo
      BY SeedFacts DEF Entries
    <2>2. ledger' \in [Cargo -> Seq(Entries)]
      BY <1>4, <2>1 DEF PushSeed
    <2>3. QED
      BY <1>4, <2>2 DEF PushSeed
  <1>5. ASSUME NEW k \in Callers, SaveSeed(k)
        PROVE  SeedingTypeOK'
    <2>1. next[k] \in Entries /\ SeedEvents[next[k]] \in Cargo
      BY SeedFacts DEF Entries
    <2>2. state' \in [Cargo -> Entries \cup {Nothing}]
      BY <1>5, <2>1 DEF SaveSeed
    <2>3. next' \in [Callers -> Seeds]
      BY <1>5, SeedFacts DEF SaveSeed
    <2>4. QED
      BY <1>5, <2>2, <2>3 DEF SaveSeed
  <1>6. ASSUME NEW k \in Callers, ReadControlCenter(k)
        PROVE  SeedingTypeOK'
    BY <1>6 DEF ReadControlCenter, stored
  <1>7. ASSUME NEW k \in Callers, PushEvent(k)
        PROVE  SeedingTypeOK'
    BY <1>7, SeedingAssumption DEF PushEvent, Entries
  <1>8. ASSUME NEW k \in Callers, SaveEvent(k)
        PROVE  SeedingTypeOK'
    BY <1>8, SeedingAssumption DEF SaveEvent, Entries
  <1>9. CASE Restart
    BY <1>9 DEF Restart
  <1>10. CASE UNCHANGED seedingVars
    BY <1>10 DEF seedingVars
  <1>11. QED
    BY <1>1, <1>2, <1>3, <1>4, <1>5, <1>6, <1>7, <1>8, <1>9, <1>10 DEF SeedingNext

\* What is stored stays, and what a save stores.
LEMMA StoredSteps ==
    ASSUME SeedingTypeOK, NEW k \in Callers
    PROVE  /\ SaveSeed(k) => stored' = stored \cup {SeedEvents[next[k]]}
           /\ k \in Writers /\ SaveEvent(k) => stored' = stored \cup {cargoOf[k]}
  <1>1. ASSUME SaveSeed(k) PROVE stored' = stored \cup {SeedEvents[next[k]]}
    <2>1. next[k] \in Seeds
      BY DEF SeedingTypeOK
    <2>2. SeedEvents[next[k]] \in Cargo /\ next[k] # Nothing
      BY <2>1, SeedFacts DEF Nothing
    <2>3. state' = [state EXCEPT ![SeedEvents[next[k]]] = next[k]]
      BY <1>1 DEF SaveSeed
    <2>4. QED
      BY <2>2, <2>3 DEF stored, SeedingTypeOK
  <1>2. ASSUME k \in Writers, SaveEvent(k) PROVE stored' = stored \cup {cargoOf[k]}
    <2>1. cargoOf[k] \in Cargo /\ k # Nothing
      BY <1>2, SeedingAssumption, SeedFacts DEF Entries
    <2>2. state' = [state EXCEPT ![cargoOf[k]] = k]
      BY <1>2 DEF SaveEvent
    <2>3. QED
      BY <2>1, <2>2 DEF stored, SeedingTypeOK
  <1>3. QED
    BY <1>1, <1>2

LEMMA SeedingStep == SeedingInv /\ [SeedingNext]_seedingVars => SeedingInv'
  <1> SUFFICES ASSUME SeedingInv, [SeedingNext]_seedingVars PROVE SeedingInv'
    OBVIOUS
  <1>0. SeedingTypeOK'
    BY SeedingTypeStep DEF SeedingInv
  <1> DEFINE Goal == FlagInv' /\ AloneInSeeding' /\ PastSeeding' /\ LateStates'
  <1> SUFFICES Goal
    BY <1>0 DEF SeedingInv
  <1> USE DEF SeedingInv, seedVars, storeVars, ghostVars, seeding, Quiet, Under
  <1>a. SeedingTypeOK /\ FlagInv /\ AloneInSeeding /\ PastSeeding /\ LateStates
    OBVIOUS
  <1>1. ASSUME NEW k \in Callers, Call(k)
        PROVE  Goal
    <2>1. stored' = stored
      BY <1>1 DEF Call, stored
    <2>2. FlagInv'
      BY <1>1, <1>a, <2>1 DEF Call, FlagInv, SeedingTypeOK
    <2>3. AloneInSeeding'
      BY <1>1, <1>a, <2>1 DEF Call, FlagInv, AloneInSeeding, SeedingTypeOK
    <2>4. PastSeeding'
      BY <1>1, <1>a, <2>1 DEF Call, AloneInSeeding, PastSeeding, SeedingTypeOK, Callers
    <2>5. LateStates'
      BY <1>1, <1>a DEF Call, LateStates, SeedingTypeOK, Callers
    <2>6. QED
      BY <2>2, <2>3, <2>4, <2>5
  <1>2. ASSUME NEW k \in Callers, ListCargo(k)
        PROVE  Goal
    <2>1. stored' = stored
      BY <1>2 DEF ListCargo, stored
    <2>2. FlagInv'
      <3>1. /\ pc' = [pc EXCEPT ![k] = "listed"] /\ seeded' = seeded
            /\ \A j \in Callers \ {k} : pc'[j] = pc[j] /\ (empty'[j] <=> empty[j])
            /\ empty'[k] <=> stored = {}
        BY <1>2, <1>a DEF ListCargo, SeedingTypeOK
      <3>2. QED
        BY <3>1, <1>a, <2>1 DEF FlagInv, SeedingTypeOK, Callers
    <2>3. AloneInSeeding'
      BY <1>2, <1>a, <2>1 DEF ListCargo, FlagInv, AloneInSeeding, SeedingTypeOK
    <2>4. PastSeeding'
      BY <1>2, <1>a, <2>1 DEF ListCargo, PastSeeding, SeedingTypeOK, Callers
    <2>5. LateStates'
      BY <1>2, <1>a DEF ListCargo, LateStates, SeedingTypeOK, Callers
    <2>6. QED
      BY <2>2, <2>3, <2>4, <2>5
  <1>3. ASSUME NEW k \in Callers, EnsureSeedData(k)
        PROVE  Goal
    <2>1. stored' = stored
      BY <1>3 DEF EnsureSeedData, stored
    <2>2. FlagInv'
      <3>1. CASE empty[k] /\ SeedDemo
        BY <1>3, <3>1, <1>a, <2>1 DEF EnsureSeedData, FlagInv, SeedingTypeOK, Callers
      <3>2. CASE ~(empty[k] /\ SeedDemo)
        BY <1>3, <3>2, <1>a, <2>1 DEF EnsureSeedData, FlagInv, SeedingTypeOK, Callers
      <3>3. QED
        BY <3>1, <3>2
    <2>3. AloneInSeeding'
      <3>1. CASE empty[k] /\ SeedDemo
        BY <1>3, <3>1, <1>a, <2>1 DEF EnsureSeedData, FlagInv, AloneInSeeding, SeedingTypeOK
      <3>2. CASE ~(empty[k] /\ SeedDemo)
        BY <1>3, <3>2, <1>a, <2>1 DEF EnsureSeedData, FlagInv, AloneInSeeding, SeedingTypeOK
      <3>3. QED
        BY <3>1, <3>2
    <2>4. PastSeeding'
      <3>1. CASE empty[k] /\ SeedDemo
        BY <1>3, <3>1, <1>a, <2>1 DEF EnsureSeedData, FlagInv, AloneInSeeding, PastSeeding, SeedingTypeOK, Callers
      <3>2. CASE ~(empty[k] /\ SeedDemo)
        BY <1>3, <3>2, <1>a, <2>1 DEF EnsureSeedData, FlagInv, AloneInSeeding, PastSeeding, SeedingTypeOK, Callers
      <3>3. QED
        BY <3>1, <3>2
    <2>5. LateStates'
      BY <1>3, <1>a DEF EnsureSeedData, LateStates, SeedingTypeOK, Callers
    <2>6. QED
      BY <2>2, <2>3, <2>4, <2>5
  <1>4. ASSUME NEW k \in Callers, PushSeed(k)
        PROVE  Goal
    <2>1. stored' = stored
      BY <1>4 DEF PushSeed, stored
    <2>2. FlagInv'
      BY <1>4, <1>a, <2>1 DEF PushSeed, FlagInv, SeedingTypeOK
    <2>3. AloneInSeeding'
      BY <1>4, <1>a, <2>1 DEF PushSeed, AloneInSeeding, SeedingTypeOK
    <2>4. PastSeeding' /\ LateStates'
      BY <1>4, <1>a, <2>1 DEF PushSeed, PastSeeding, LateStates, SeedingTypeOK, Callers
    <2>5. QED
      BY <2>2, <2>3, <2>4
  <1>5. ASSUME NEW k \in Callers, SaveSeed(k)
        PROVE  Goal
    <2>1. stored' = stored \cup {SeedEvents[next[k]]}
      BY <1>5, <1>a, StoredSteps
    <2>2. FlagInv'
      BY <1>5, <1>a, <2>1 DEF SaveSeed, FlagInv, SeedingTypeOK
    <2>3. AloneInSeeding'
      BY <1>5, <1>a, <2>1 DEF SaveSeed, AloneInSeeding, SeedingTypeOK
    <2>4. PastSeeding'
      BY <1>5, <1>a, <2>1 DEF SaveSeed, AloneInSeeding, PastSeeding, SeedingTypeOK, Callers
    <2>5. LateStates'
      BY <1>5, <1>a DEF SaveSeed, PastSeeding, LateStates, SeedingTypeOK, Callers
    <2>6. QED
      BY <2>2, <2>3, <2>4, <2>5
  <1>6. ASSUME NEW k \in Callers, ReadControlCenter(k)
        PROVE  Goal
    <2>1. stored' = stored /\ k \notin Writers
      BY <1>6, SeedingAssumption DEF ReadControlCenter, stored
    <2>2. FlagInv'
      BY <1>6, <1>a, <2>1 DEF ReadControlCenter, FlagInv, SeedingTypeOK
    <2>3. AloneInSeeding'
      BY <1>6, <1>a, <2>1 DEF ReadControlCenter, AloneInSeeding, SeedingTypeOK
    <2>4. PastSeeding' /\ LateStates'
      BY <1>6, <1>a, <2>1 DEF ReadControlCenter, PastSeeding, LateStates, SeedingTypeOK, Callers
    <2>5. QED
      BY <2>2, <2>3, <2>4
  <1>7. ASSUME NEW k \in Callers, PushEvent(k)
        PROVE  Goal
    <2>1. stored' = stored
      BY <1>7 DEF PushEvent, stored
    <2>2. FlagInv'
      BY <1>7, <1>a, <2>1 DEF PushEvent, FlagInv, SeedingTypeOK
    <2>3. AloneInSeeding'
      BY <1>7, <1>a, <2>1 DEF PushEvent, AloneInSeeding, SeedingTypeOK
    <2>4. PastSeeding' /\ LateStates'
      BY <1>7, <1>a, <2>1 DEF PushEvent, PastSeeding, LateStates, SeedingTypeOK, Callers
    <2>5. QED
      BY <2>2, <2>3, <2>4
  <1>8. ASSUME NEW k \in Callers, SaveEvent(k)
        PROVE  Goal
    <2>0. k \in Writers /\ seeded
      BY <1>8, <1>a DEF SaveEvent, SeedingTypeOK, FlagInv
    <2>1. stored' = stored \cup {cargoOf[k]}
      BY <1>8, <1>a, <2>0, StoredSteps
    <2>2. FlagInv'
      BY <1>8, <1>a, <2>1 DEF SaveEvent, FlagInv, SeedingTypeOK
    <2>3. AloneInSeeding'
      BY <1>8, <1>a, <2>0, <2>1 DEF SaveEvent, AloneInSeeding, SeedingTypeOK
    <2>4. PastSeeding'
      BY <1>8, <1>a, <2>1 DEF SaveEvent, PastSeeding, SeedingTypeOK, Callers
    <2>5. LateStates'
      <3>1. k \notin Seeds /\ cargoOf \in [Writers -> Cargo]
        BY <2>0, SeedFacts, SeedingAssumption
      <3>2. QED
        BY <1>8, <1>a, <3>1 DEF SaveEvent, LateStates, SeedingTypeOK, Callers
    <2>6. QED
      BY <2>2, <2>3, <2>4, <2>5
  <1>9. CASE Restart
    <2>1. stored' = stored
      BY <1>9 DEF Restart, stored
    <2>2. FlagInv' /\ Quiet'
      BY <1>9, <1>a, <2>1 DEF Restart, FlagInv, SeedingTypeOK, Callers
    <2>3. AloneInSeeding'
      BY <1>9, <1>a, <2>1, <2>2 DEF Restart, AloneInSeeding, SeedingTypeOK
    <2>4. PastSeeding' /\ LateStates'
      <3>1. Starter \notin Writers
        BY SeedingAssumption
      <3>2. QED
        BY <1>9, <1>a, <2>1, <2>2, <3>1 DEF Restart, PastSeeding, LateStates, SeedingTypeOK, Callers
    <2>5. QED
      BY <2>2, <2>3, <2>4
  <1>10. CASE UNCHANGED seedingVars
    <2>1. stored' = stored
      BY <1>10 DEF seedingVars, stored
    <2>2. QED
      BY <1>10, <1>a, <2>1 DEF seedingVars, FlagInv, AloneInSeeding, PastSeeding, LateStates
  <1>11. QED
    BY <1>1, <1>2, <1>3, <1>4, <1>5, <1>6, <1>7, <1>8, <1>9, <1>10 DEF SeedingNext

LEMMA StoredStep ==
    SeedingInv /\ SeedsGetStored /\ [SeedingNext]_seedingVars => SeedsGetStored'
  <1> SUFFICES ASSUME SeedingInv, SeedsGetStored, [SeedingNext]_seedingVars, SeedDemo, ~broken'
               PROVE  SeedsGetStored'
    BY DEF SeedsGetStored
  <1> USE DEF seedVars, storeVars, ghostVars, seeding, Quiet, Under
  <1>a. SeedingTypeOK /\ FlagInv
    BY DEF SeedingInv
  <1>b. ~broken
    BY <1>a DEF SeedingNext, Call, ListCargo, EnsureSeedData, PushSeed, SaveSeed, ReadControlCenter,
                PushEvent, SaveEvent, Restart, seedingVars, SeedingTypeOK
  <1>c. /\ \A k \in Callers : seeding(k) => \A n \in Seeds : n < next[k] => SeedEvents[n] \in stored
        /\ seeded \/ stored # {} => AllStored \/ ~Quiet
        /\ \A k \in Callers : pc[k] = "ready" /\ k \notin early => AllStored
        /\ \A k \in Readers : pc[k] = "done" /\ k \notin early => Range(SeedEvents) \subseteq seen[k]
    BY <1>b DEF SeedsGetStored
  <1>1. ASSUME NEW k \in Callers, Call(k)
        PROVE  SeedsGetStored'
    <2>1. stored' = stored
      BY <1>1 DEF Call, stored
    <2>2. QED
      BY <1>1, <1>a, <1>c, <2>1 DEF Call, SeedsGetStored, AllStored, SeedingTypeOK, Callers
  <1>2. ASSUME NEW k \in Callers, ListCargo(k)
        PROVE  SeedsGetStored'
    <2>1. stored' = stored
      BY <1>2 DEF ListCargo, stored
    <2>2. QED
      BY <1>2, <1>a, <1>c, <2>1 DEF ListCargo, SeedsGetStored, AllStored, SeedingTypeOK, Callers
  <1>3. ASSUME NEW k \in Callers, EnsureSeedData(k)
        PROVE  SeedsGetStored'
    <2>1. stored' = stored
      BY <1>3 DEF EnsureSeedData, stored
    <2>2. CASE empty[k]
      <3>1. ~\E n \in Seeds : n < 1
        BY SeedFacts
      <3>2. QED
        BY <1>3, <1>a, <1>c, <2>1, <2>2, <3>1
        DEF EnsureSeedData, SeedsGetStored, AllStored, SeedingTypeOK, Callers
    <2>3. CASE ~empty[k]
      <3>1. stored # {}
        BY <1>3, <1>a, <2>3 DEF EnsureSeedData, FlagInv
      <3>2. QED
        BY <1>3, <1>a, <1>c, <2>1, <2>3, <3>1
        DEF EnsureSeedData, SeedsGetStored, AllStored, SeedingTypeOK, Callers
    <2>4. QED
      BY <2>2, <2>3
  <1>4. ASSUME NEW k \in Callers, PushSeed(k)
        PROVE  SeedsGetStored'
    <2>1. stored' = stored
      BY <1>4 DEF PushSeed, stored
    <2>2. QED
      BY <1>4, <1>a, <1>c, <2>1 DEF PushSeed, SeedsGetStored, AllStored, SeedingTypeOK, Callers
  <1>5. ASSUME NEW k \in Callers, SaveSeed(k)
        PROVE  SeedsGetStored'
    <2>1. stored' = stored \cup {SeedEvents[next[k]]} /\ next[k] \in Seeds
      BY <1>5, <1>a, StoredSteps DEF SeedingTypeOK
    <2>2. CASE next[k] < Len(SeedEvents)
      <3>1. \A n \in Seeds : n < next[k] + 1 => n < next[k] \/ n = next[k]
        BY <2>1, SeedFacts
      <3>2. /\ pc' = [pc EXCEPT ![k] = "seeding"] /\ next' = [next EXCEPT ![k] = next[k] + 1]
            /\ seen' = seen /\ early' = early
        BY <1>5, <2>2 DEF SaveSeed
      <3>3. \A j \in Callers : seeding(j)' => \A n \in Seeds : n < next'[j] => SeedEvents[n] \in stored'
        BY <1>5, <1>a, <1>c, <2>1, <3>1, <3>2 DEF SaveSeed, SeedingTypeOK
      <3>4. QED
        BY <1>5, <1>a, <1>c, <2>1, <3>2, <3>3 DEF SeedsGetStored, AllStored, SeedingTypeOK, Callers
    <2>3. CASE ~(next[k] < Len(SeedEvents))
      <3>1. \A n \in Seeds : n < next[k] \/ n = next[k]
        BY <2>1, <2>3, SeedFacts
      <3>2. AllStored'
        BY <1>5, <1>c, <2>1, <3>1, SeedFacts DEF SaveSeed, AllStored
      <3>3. QED
        BY <1>5, <1>a, <1>c, <2>1, <2>3, <3>2 DEF SaveSeed, SeedsGetStored, SeedingTypeOK, Callers
    <2>4. QED
      BY <2>2, <2>3
  <1>6. ASSUME NEW k \in Callers, ReadControlCenter(k)
        PROVE  SeedsGetStored'
    <2>1. stored' = stored
      BY <1>6 DEF ReadControlCenter, stored
    <2>2. QED
      BY <1>6, <1>a, <1>c, <2>1 DEF ReadControlCenter, SeedsGetStored, AllStored, SeedingTypeOK, Callers
  <1>7. ASSUME NEW k \in Callers, PushEvent(k)
        PROVE  SeedsGetStored'
    <2>1. stored' = stored /\ k \notin Readers
      BY <1>7, SeedingAssumption DEF PushEvent, stored
    <2>2. QED
      BY <1>7, <1>a, <1>c, <2>1 DEF PushEvent, SeedsGetStored, AllStored, SeedingTypeOK, Callers
  <1>8. ASSUME NEW k \in Callers, SaveEvent(k)
        PROVE  SeedsGetStored'
    <2>1. k \in Writers /\ k \notin Readers /\ seeded
      BY <1>8, <1>a, SeedingAssumption DEF SaveEvent, SeedingTypeOK, FlagInv
    <2>2. stored' = stored \cup {cargoOf[k]}
      BY <1>8, <1>a, <2>1, StoredSteps
    <2>3. QED
      BY <1>8, <1>a, <1>c, <2>1, <2>2 DEF SaveEvent, SeedsGetStored, AllStored, SeedingTypeOK, Callers
  <1>9. CASE Restart
    <2>1. stored' = stored /\ Quiet
      BY <1>9, <1>a DEF Restart, stored, SeedingTypeOK
    <2>2. Quiet' /\ seen' = seen /\ early' = early /\ Starter \notin Readers
      BY <1>9, <1>a, SeedingAssumption DEF Restart, SeedingTypeOK
    <2>3. QED
      BY <1>9, <1>a, <1>c, <2>1, <2>2 DEF Restart, SeedsGetStored, AllStored, SeedingTypeOK, Callers
  <1>10. CASE UNCHANGED seedingVars
    <2>1. stored' = stored
      BY <1>10 DEF seedingVars, stored
    <2>2. QED
      BY <1>10, <1>c, <2>1 DEF seedingVars, SeedsGetStored, AllStored
  <1>11. QED
    BY <1>1, <1>2, <1>3, <1>4, <1>5, <1>6, <1>7, <1>8, <1>9, <1>10 DEF SeedingNext

\* What a push makes of the entries of a ledger.
LEMMA PushedOnce ==
    ASSUME NEW list \in Seq(Entries), NEW x \in Entries, NEW y
    PROVE  LET longer == Append(list, x) IN
           /\ x # y /\ (\A i \in DOMAIN list : list[i] # y) => \A i \in DOMAIN longer : longer[i] # y
           /\ (\A i, j \in DOMAIN list : list[i] = y /\ list[j] = y => i = j)
              /\ (x # y \/ \A i \in DOMAIN list : list[i] # y) =>
                 \A i, j \in DOMAIN longer : longer[i] = y /\ longer[j] = y => i = j
  <1> DEFINE longer == Append(list, x)
  <1>1. /\ DOMAIN longer = 1 .. Len(list) + 1 /\ DOMAIN list = 1 .. Len(list) /\ Len(list) \in Nat
        /\ \A i \in DOMAIN list : longer[i] = list[i]
        /\ longer[Len(list) + 1] = x
    OBVIOUS
  <1>2. QED
    BY <1>1

LEMMA OrderStep ==
    SeedingInv /\ SeedsInOrder /\ [SeedingNext]_seedingVars => SeedsInOrder'
  <1> SUFFICES ASSUME SeedingInv, SeedsInOrder, [SeedingNext]_seedingVars, ~overlapped', ~broken'
               PROVE  SeedsInOrder'
    BY DEF SeedsInOrder
  <1> USE DEF seedVars, storeVars, ghostVars, seeding, Quiet, Under
  <1>a. SeedingTypeOK /\ FlagInv /\ AloneInSeeding
    BY DEF SeedingInv
  <1>b. ~broken /\ ~overlapped
    BY <1>a DEF SeedingNext, Call, ListCargo, EnsureSeedData, PushSeed, SaveSeed, ReadControlCenter,
                PushEvent, SaveEvent, Restart, seedingVars, SeedingTypeOK
  <1> DEFINE Pending(k, n) == IF pc[k] = "saving" THEN n > next[k] ELSE n >= next[k]
  <1>c. /\ stored = {} /\ Quiet => \A n \in Seeds : Absent(n)
        /\ \A k \in Callers : pc[k] = "listed" /\ empty[k] => \A n \in Seeds : Absent(n)
        /\ \A k \in Callers : seeding(k) => \A n \in Seeds : Pending(k, n) => Absent(n)
        /\ \A n \in Seeds : Once(n)
    BY <1>b DEF SeedsInOrder
  <1>d. /\ \A k, j \in Callers : seeding(k) /\ pc[j] \in Under => k = j
        /\ SeedDemo /\ seeded => stored # {} \/ ~Quiet
    BY <1>a, <1>b DEF AloneInSeeding
  <1>e. ASSUME ledger' = ledger
        PROVE  \A n \in Seeds : (Absent(n)' <=> Absent(n)) /\ (Once(n)' <=> Once(n))
    BY <1>e DEF Absent, Once
  <1>1. ASSUME NEW k \in Callers, Call(k)
        PROVE  SeedsInOrder'
    <2>1. stored' = stored /\ ledger' = ledger
      BY <1>1 DEF Call, stored
    <2>2. QED
      BY <1>1, <1>a, <1>c, <1>e, <2>1 DEF Call, SeedsInOrder, SeedingTypeOK
  <1>2. ASSUME NEW k \in Callers, ListCargo(k)
        PROVE  SeedsInOrder'
    <2>1. stored' = stored /\ ledger' = ledger
      BY <1>2 DEF ListCargo, stored
    <2>2. Quiet
      BY <1>2, <1>d DEF ListCargo
    <2>3. QED
      BY <1>2, <1>a, <1>c, <1>e, <2>1, <2>2 DEF ListCargo, SeedsInOrder, SeedingTypeOK
  <1>3. ASSUME NEW k \in Callers, EnsureSeedData(k)
        PROVE  SeedsInOrder'
    <2>1. stored' = stored /\ ledger' = ledger
      BY <1>3 DEF EnsureSeedData, stored
    <2>2. CASE empty[k] /\ SeedDemo
      BY <1>3, <1>a, <1>c, <1>e, <2>1, <2>2 DEF EnsureSeedData, SeedsInOrder, SeedingTypeOK
    <2>3. CASE ~(empty[k] /\ SeedDemo)
      BY <1>3, <1>a, <1>c, <1>e, <2>1, <2>3 DEF EnsureSeedData, SeedsInOrder, SeedingTypeOK
    <2>4. QED
      BY <2>2, <2>3
  <1>4. ASSUME NEW k \in Callers, PushSeed(k)
        PROVE  SeedsInOrder'
    <2> DEFINE n == next[k]
               c == SeedEvents[n]
    <2>1. /\ stored' = stored /\ ~Quiet' /\ n \in Seeds /\ n \in Nat /\ c \in Cargo /\ n \in Entries
          /\ ledger' = [ledger EXCEPT ![c] = Append(ledger[c], n)]
          /\ pc' = [pc EXCEPT ![k] = "saving"] /\ next' = next /\ empty' = empty
      BY <1>4, <1>a, SeedFacts DEF PushSeed, stored, SeedingTypeOK, Entries
    <2>2. Absent(n)
      BY <1>4, <1>c, <2>1 DEF PushSeed
    <2>3. \A m \in Seeds : m # n /\ Absent(m) => Absent(m)'
      <3> SUFFICES ASSUME NEW m \in Seeds, m # n, Absent(m) PROVE Absent(m)'
        OBVIOUS
      <3>1. SeedEvents[m] \in Cargo
        BY SeedFacts
      <3>2. CASE SeedEvents[m] = c
        <4>1. ledger[c] \in Seq(Entries) /\ ledger'[c] = Append(ledger[c], n)
          BY <2>1, <1>a DEF SeedingTypeOK
        <4>2. QED
          BY <3>2, <4>1, <2>1, PushedOnce DEF Absent
      <3>3. CASE SeedEvents[m] # c
        BY <3>1, <3>3, <2>1, <1>a DEF Absent, SeedingTypeOK
      <3>4. QED
        BY <3>2, <3>3
    <2>4. \A m \in Seeds : Once(m)'
      <3> SUFFICES ASSUME NEW m \in Seeds PROVE Once(m)'
        OBVIOUS
      <3>1. SeedEvents[m] \in Cargo /\ Once(m)
        BY <1>c, SeedFacts
      <3>2. CASE SeedEvents[m] = c
        <4>1. ledger[c] \in Seq(Entries) /\ ledger'[c] = Append(ledger[c], n)
          BY <2>1, <1>a DEF SeedingTypeOK
        <4>2. m # n \/ \A i \in DOMAIN ledger[c] : ledger[c][i] # m
          BY <2>2, <3>2 DEF Absent
        <4>3. \A i, j \in DOMAIN ledger[c] : ledger[c][i] = m /\ ledger[c][j] = m => i = j
          BY <3>1, <3>2 DEF Once
        <4>4. QED
          BY <3>2, <4>1, <4>2, <4>3, <2>1, PushedOnce DEF Once
      <3>3. CASE SeedEvents[m] # c
        BY <3>1, <3>3, <2>1, <1>a DEF Once, SeedingTypeOK
      <3>4. QED
        BY <3>2, <3>3
    <2>5. \A j \in Callers : seeding(j)' => j = k
      BY <1>4, <1>d, <2>1, <1>a DEF PushSeed, SeedingTypeOK
    <2>6. \A m \in Seeds : m > n => Absent(m)'
      BY <1>4, <1>c, <2>1, <2>3, SeedFacts DEF PushSeed
    <2>7. \A j \in Callers : pc'[j] # "listed"
      BY <1>4, <1>d, <2>1, <1>a DEF PushSeed, SeedingTypeOK
    <2>8. pc'[k] = "saving"
      BY <2>1, <1>a DEF SeedingTypeOK
    <2>9. QED
      BY <2>1, <2>4, <2>5, <2>6, <2>7, <2>8 DEF SeedsInOrder
  <1>5. ASSUME NEW k \in Callers, SaveSeed(k)
        PROVE  SeedsInOrder'
    <2>1. stored' = stored \cup {SeedEvents[next[k]]} /\ ledger' = ledger /\ next[k] \in Nat
      BY <1>5, <1>a, StoredSteps, SeedFacts DEF SaveSeed, SeedingTypeOK
    <2>2. \A j \in Callers : pc[j] \in Under => j = k
      BY <1>5, <1>d DEF SaveSeed
    <2>3. \A j \in Callers : seeding(j)' => j = k /\ pc'[k] = "seeding" /\ next'[k] = next[k] + 1
      BY <1>5, <1>a, <2>2 DEF SaveSeed, SeedingTypeOK
    <2>4. \A n \in Seeds : n >= next[k] + 1 => Absent(n)
      BY <1>5, <1>c, <2>1, SeedFacts DEF SaveSeed
    <2>5. \A j \in Callers : pc'[j] # "listed"
      BY <1>5, <1>a, <2>2 DEF SaveSeed, SeedingTypeOK
    <2>6. QED
      BY <1>c, <1>e, <2>1, <2>3, <2>4, <2>5 DEF SeedsInOrder
  <1>6. ASSUME NEW k \in Callers, ReadControlCenter(k)
        PROVE  SeedsInOrder'
    <2>1. stored' = stored /\ ledger' = ledger
      BY <1>6 DEF ReadControlCenter, stored
    <2>2. QED
      BY <1>6, <1>a, <1>c, <1>e, <2>1 DEF ReadControlCenter, SeedsInOrder, SeedingTypeOK
  <1>7. ASSUME NEW k \in Callers, PushEvent(k)
        PROVE  SeedsInOrder'
    <2>1. /\ k \in Entries /\ k \notin Seeds /\ cargoOf[k] \in Cargo /\ stored' = stored
          /\ ledger' = [ledger EXCEPT ![cargoOf[k]] = Append(ledger[cargoOf[k]], k)]
      BY <1>7, SeedFacts, SeedingAssumption DEF PushEvent, Entries, stored
    <2>2. \A m \in Seeds : (Absent(m) => Absent(m)') /\ (Once(m) => Once(m)')
      <3> SUFFICES ASSUME NEW m \in Seeds PROVE (Absent(m) => Absent(m)') /\ (Once(m) => Once(m)')
        OBVIOUS
      <3>1. SeedEvents[m] \in Cargo /\ m # k
        BY SeedFacts, <2>1
      <3>2. CASE SeedEvents[m] = cargoOf[k]
        <4>1. /\ ledger[SeedEvents[m]] \in Seq(Entries)
              /\ ledger'[SeedEvents[m]] = Append(ledger[SeedEvents[m]], k)
          BY <2>1, <3>1, <3>2, <1>a DEF SeedingTypeOK
        <4>2. QED
          BY <3>1, <4>1, <2>1, PushedOnce DEF Absent, Once
      <3>3. CASE SeedEvents[m] # cargoOf[k]
        BY <3>1, <3>3, <2>1, <1>a DEF Absent, Once, SeedingTypeOK
      <3>4. QED
        BY <3>2, <3>3
    <2>3. QED
      BY <1>7, <1>a, <1>c, <2>1, <2>2 DEF PushEvent, SeedsInOrder, SeedingTypeOK
  <1>8. ASSUME NEW k \in Callers, SaveEvent(k)
        PROVE  SeedsInOrder'
    <2>1. k \in Writers /\ ledger' = ledger
      BY <1>8, <1>a DEF SaveEvent, SeedingTypeOK
    <2>2. stored' = stored \cup {cargoOf[k]}
      BY <1>8, <1>a, <2>1, StoredSteps
    <2>3. QED
      BY <1>8, <1>a, <1>c, <1>e, <2>1, <2>2 DEF SaveEvent, SeedsInOrder, SeedingTypeOK
  <1>9. CASE Restart
    <2>1. stored' = stored /\ ledger' = ledger /\ Quiet
      BY <1>9, <1>a DEF Restart, stored, SeedingTypeOK
    <2>2. \A k \in Callers : pc'[k] \notin Under
      BY <1>9, <1>a DEF Restart, SeedingTypeOK
    <2>3. QED
      BY <1>c, <1>e, <2>1, <2>2 DEF SeedsInOrder
  <1>10. CASE UNCHANGED seedingVars
    <2>1. stored' = stored /\ ledger' = ledger
      BY <1>10 DEF seedingVars, stored
    <2>2. QED
      BY <1>10, <1>c, <1>e, <2>1 DEF seedingVars, SeedsInOrder
  <1>11. QED
    BY <1>1, <1>2, <1>3, <1>4, <1>5, <1>6, <1>7, <1>8, <1>9, <1>10 DEF SeedingNext

\* The demo events come once, and an event that a request recorded is not put
\* aside by one of them, whatever calls ensureSeedData when, and whatever
\* restarts: except for the races that SeedsComeOnceAndFirst names.
THEOREM SeedsOnce == SeedingSpec => []SeedsComeOnceAndFirst
  <1>1. SeedingInv /\ SeedsInOrder => SeedsComeOnceAndFirst
    <2> SUFFICES ASSUME SeedingInv, SeedsInOrder PROVE SeedsComeOnceAndFirst
      OBVIOUS
    <2>1. ASSUME NEW n \in Seeds PROVE ComesOnce(n)
      <3> SUFFICES ASSUME ~overlapped, ~broken PROVE ~(times(n) > 1)
        BY DEF ComesOnce
      <3> DEFINE places == {i \in DOMAIN ledger[SeedEvents[n]] : ledger[SeedEvents[n]][i] = n}
      <3>1. \A i, j \in places : i = j
        BY DEF SeedsInOrder, Once
      <3>2. CASE places = {}
        BY <3>2, FS_EmptySet DEF times
      <3>3. CASE places # {}
        <4>1. PICK i \in places : TRUE
          BY <3>3
        <4>2. places = {i}
          BY <3>1, <4>1
        <4>3. Cardinality(places) = 1
          BY <4>2, FS_Singleton
        <4>4. QED
          BY <4>3 DEF times
      <3>4. QED
        BY <3>2, <3>3
    <2>2. \A w \in Writers : Outlives(w)
      BY DEF SeedingInv, LateStates, Outlives
    <2>3. QED
      BY <2>1, <2>2 DEF SeedsComeOnceAndFirst
  <1>2. QED
    BY SeedingInitOK, SeedingStep, OrderStep, <1>1, PTL DEF SeedingSpec

\* A reader that asks before the flag is set, while it is, or after, is
\* answered with every demo shipment or passed while they were being recorded.
THEOREM ReadersSee == SeedingSpec => []ReaderSeesSeeds
  <1>1. SeedsGetStored => ReaderSeesSeeds
    BY DEF SeedsGetStored, ReaderSeesSeeds
  <1>2. QED
    BY SeedingInitOK, SeedingStep, StoredStep, <1>1, PTL DEF SeedingSpec
-----------------------------------------------------------------------------
(***************************************************************************)
(* CustodyPage.  Loads that were asked before one that has been shown are  *)
(* the first of those in flight.  As long as there is no excuse, the last  *)
(* load in flight is one of the shipment selected, whose answers are up to *)
(* date; and once that is shown, nothing but late loads remains.           *)
(***************************************************************************)
Versions == 0 .. MaxEvents
Load == [cargo : Shipments, read : UNION {[asked -> Versions] : asked \in SUBSET Parts},
         late : BOOLEAN, task : BOOLEAN]
Task == [at : {"idle", "posting", "posted", "booting", "loading", "asking"},
         cargo : Shipments \cup {NoShipment}]

PageTypeOK ==
    /\ version \in [Shipments -> Versions]
    /\ selected \in Shipments
    /\ shown \in [cargo : Shipments, read : [Parts -> Versions]] \cup {NoShipment}
    /\ task \in Task
    /\ loads \in Seq(Load)
    /\ boots \in Seq(BOOLEAN)
    /\ socket \in {"connecting", "connected"}
    /\ wire \in Seq(Shipments)

\* One action at a time: its bootstrap, and then its load, is the only one.
ActionCargo == task.at \in {"posting", "posted", "booting", "loading"} => task.cargo \in Shipments
OneBoot ==
    \A i \in DOMAIN boots : boots[i] =>
        task.at = "booting" /\ \A j \in DOMAIN boots : boots[j] => i = j
OneLoad ==
    \A i \in DOMAIN loads : loads[i].task =>
        task.at = "loading" /\ \A j \in DOMAIN loads : loads[j].task => i = j
ActionInv == ActionCargo /\ OneBoot /\ OneLoad

LateFirst == \A i, j \in DOMAIN loads : i < j /\ loads[j].late => loads[i].late

\* There is no load that will bring what the page shows up to date.
NoneFresh == loads = <<>> \/ loads[Len(loads)].late

ScreenInv ==
    excuse = {} /\ ~waiting =>
        IF NoneFresh
        THEN /\ shown # NoShipment /\ shown.cargo = selected
             /\ \A p \in Parts : shown.read[p] = version[selected]
        ELSE LET load == loads[Len(loads)] IN
             /\ load.cargo = selected
             /\ \A p \in DOMAIN load.read : load.read[p] = version[selected]

PageInv == PageTypeOK /\ ActionInv /\ LateFirst /\ ScreenInv

LEMMA WithoutOne ==
    ASSUME NEW S, NEW s \in Seq(S), NEW i \in DOMAIN s
    PROVE  /\ RemoveAt(s, i) \in Seq(S)
           /\ Len(RemoveAt(s, i)) = Len(s) - 1
           /\ \A j \in 1 .. Len(s) - 1 : RemoveAt(s, i)[j] = IF j < i THEN s[j] ELSE s[j + 1]
  <1> DEFINE before == SubSeq(s, 1, i - 1)
             after == SubSeq(s, i + 1, Len(s))
  <1>1. Len(s) \in Nat /\ i \in 1 .. Len(s)
    OBVIOUS
  <1>2. before \in Seq(S) /\ Len(before) = i - 1 /\ \A j \in 1 .. i - 1 : before[j] = s[j]
    BY <1>1
  <1>3. /\ after \in Seq(S) /\ Len(after) = Len(s) - i
        /\ \A j \in 1 .. Len(s) - i : after[j] = s[i + j]
    <2>1. \A k \in i + 1 .. Len(s) : s[k] \in S
      BY <1>1
    <2>2. /\ after \in Seq(S) /\ Len(after) = IF i + 1 <= Len(s) THEN Len(s) - (i + 1) + 1 ELSE 0
          /\ \A j \in 1 .. Len(s) - (i + 1) + 1 : after[j] = s[i + 1 + j - 1]
      BY <1>1, <2>1, SubSeqProperties
    <2>3. QED
      BY <1>1, <2>2
  <1> HIDE DEF before, after
  <1>4. before \o after \in Seq(S) /\ Len(before \o after) = Len(s) - 1
    <2>1. before \o after \in Seq(S) /\ Len(before \o after) = Len(before) + Len(after)
      BY <1>2, <1>3, ConcatProperties
    <2>2. QED
      BY <1>1, <1>2, <1>3, <2>1
  <1>5. ASSUME NEW j \in 1 .. Len(s) - 1
        PROVE  (before \o after)[j] = IF j < i THEN s[j] ELSE s[j + 1]
    <2>1. CASE j < i
      BY <1>1, <1>2, <1>3, <2>1
    <2>2. CASE ~(j < i)
      <3>1. (before \o after)[j] = after[j - (i - 1)]
        BY <1>1, <1>2, <1>3, <2>2, ConcatProperties
      <3>2. j - (i - 1) \in 1 .. Len(s) - i /\ i + (j - (i - 1)) = j + 1
        BY <1>1, <2>2
      <3>3. QED
        BY <1>3, <2>2, <3>1, <3>2
    <2>3. QED
      BY <2>1, <2>2
  <1>6. QED
    BY <1>4, <1>5 DEF RemoveAt, before, after

LEMMA WithLast ==
    ASSUME NEW S, NEW s \in Seq(S), NEW x \in S
    PROVE  /\ Append(s, x) \in Seq(S)
           /\ Len(Append(s, x)) = Len(s) + 1 /\ Append(s, x)[Len(s) + 1] = x
           /\ DOMAIN Append(s, x) = 1 .. Len(s) + 1 /\ DOMAIN s = 1 .. Len(s) /\ Len(s) \in Nat
           /\ \A j \in DOMAIN s : Append(s, x)[j] = s[j]
           /\ Append(s, x) # s /\ Append(s, x) # <<>>
  OBVIOUS

LEMMA RangeWithLast ==
    ASSUME NEW S, NEW s \in Seq(S), NEW x \in S
    PROVE  Range(Append(s, x)) = Range(s) \cup {x}
  <1> DEFINE longer == Append(s, x)
  <1>1. /\ DOMAIN longer = DOMAIN s \cup {Len(s) + 1} /\ longer[Len(s) + 1] = x
        /\ \A j \in DOMAIN s : longer[j] = s[j]
    BY WithLast
  <1> HIDE DEF longer
  <1>2. Range(longer) \subseteq Range(s) \cup {x}
    BY <1>1 DEF Range
  <1>3. \A j \in DOMAIN s : s[j] \in Range(longer)
    BY <1>1 DEF Range
  <1>4. x \in Range(longer)
    BY <1>1 DEF Range
  <1>5. Range(s) \subseteq Range(longer)
    BY <1>3 DEF Range
  <1>6. QED
    BY <1>2, <1>4, <1>5 DEF longer

LEMMA NewLoadType ==
    ASSUME NEW c \in Shipments, NEW byTask \in BOOLEAN
    PROVE  /\ newLoad(c, byTask) \in Load
           /\ newLoad(c, byTask).cargo = c /\ newLoad(c, byTask).task = byTask
           /\ newLoad(c, byTask).late = FALSE /\ DOMAIN newLoad(c, byTask).read = {}
  <1>1. <<>> \in [{} -> Versions] /\ DOMAIN <<>> = {}
    OBVIOUS
  <1>2. {} \in SUBSET Parts
    OBVIOUS
  <1>3. <<>> \in UNION {[asked -> Versions] : asked \in SUBSET Parts}
    BY <1>1, <1>2
  <1>4. QED
    BY <1>1, <1>3 DEF newLoad, Load

\* A call of loadShipment: the new load is the last one, or there is an excuse.
LEMMA StartedLoad ==
    ASSUME PageTypeOK, LateFirst, NEW c \in Shipments, NEW byTask \in BOOLEAN,
           StartLoad(c, byTask)
    PROVE  /\ loads' \in Seq(Load) /\ LateFirst' /\ ScreenInv'
           /\ \/ loads' = loads
              \/ /\ loads' # loads /\ DOMAIN loads' = 1 .. Len(loads) + 1 /\ DOMAIN loads = 1 .. Len(loads)
                 /\ Len(loads) \in Nat
                 /\ \A i \in DOMAIN loads : loads'[i] = loads[i]
                 /\ loads'[Len(loads) + 1].task = byTask
  <1> DEFINE new == newLoad(c, byTask)
  <1>1. loads \in Seq(Load)
    BY DEF PageTypeOK
  <1>2. CASE Len(loads) < MaxLoads
    <2>1. /\ loads' = Append(loads, new) /\ excuse' = IF c = selected' THEN {} ELSE excuse \cup {"stray"}
          /\ new \in Load /\ new.cargo = c /\ new.task = byTask /\ new.late = FALSE
          /\ DOMAIN new.read = {}
      BY <1>2, NewLoadType DEF StartLoad
    <2> HIDE DEF new
    <2>2. /\ loads' \in Seq(Load) /\ Len(loads') = Len(loads) + 1 /\ loads'[Len(loads')] = new
          /\ DOMAIN loads' = 1 .. Len(loads) + 1 /\ DOMAIN loads = 1 .. Len(loads)
          /\ Len(loads) \in Nat /\ \A i \in DOMAIN loads : loads'[i] = loads[i]
          /\ loads' # loads /\ loads' # <<>>
      BY <1>1, <2>1, WithLast
    <2>3. LateFirst'
      <3> SUFFICES ASSUME NEW i \in DOMAIN loads', NEW j \in DOMAIN loads', i < j, loads'[j].late
                   PROVE  loads'[i].late
        BY DEF LateFirst
      <3>1. j # Len(loads) + 1
        BY <2>1, <2>2
      <3>2. i \in DOMAIN loads /\ j \in DOMAIN loads
        BY <2>2, <3>1
      <3>3. QED
        BY <2>2, <3>2 DEF LateFirst
    <2>4. ~NoneFresh'
      BY <2>1, <2>2 DEF NoneFresh
    <2>5. ScreenInv'
      BY <2>1, <2>2, <2>4 DEF ScreenInv
    <2>6. loads'[Len(loads) + 1].task = byTask
      BY <2>1, <2>2
    <2>7. QED
      BY <2>2, <2>3, <2>5, <2>6
  <1>3. CASE ~(Len(loads) < MaxLoads)
    <2>1. loads' = loads /\ excuse' # {}
      BY <1>3 DEF StartLoad
    <2>2. QED
      BY <1>1, <2>1 DEF LateFirst, ScreenInv
  <1>4. QED
    BY <1>2, <1>3

\* The loads left once one was shown.
LEMMA AnsweredLoads ==
    ASSUME PageTypeOK, LateFirst, NEW i \in DOMAIN loads, loads' = answered(i)
    PROVE  /\ loads' \in Seq(Load) /\ Len(loads') = Len(loads) - 1 /\ Len(loads) \in Nat
           /\ i \in 1 .. Len(loads) /\ LateFirst'
           /\ \A j \in 1 .. Len(loads') :
                 IF j < i
                 THEN loads'[j].late /\ loads'[j].task = loads[j].task
                 ELSE loads'[j] = loads[j + 1]
  <1>1. loads \in Seq(Load) /\ Len(loads) \in Nat /\ DOMAIN loads = 1 .. Len(loads)
    BY DEF PageTypeOK
  <1>2. \A j \in DOMAIN loads : loads[j] \in Load
    BY <1>1
  <1>3. \A j \in DOMAIN loads : LET late == [loads[j] EXCEPT !.late = TRUE] IN
            late \in Load /\ late.late = TRUE /\ late.task = loads[j].task
    BY <1>2 DEF Load
  <1>4. /\ loads' = [j \in 1 .. Len(loads) - 1 |->
                        IF j < i THEN [loads[j] EXCEPT !.late = TRUE] ELSE loads[j + 1]]
    BY DEF answered
  <1>5. Len(loads) - 1 \in Nat /\ \A j \in 1 .. Len(loads) - 1 : j \in DOMAIN loads /\ j + 1 \in DOMAIN loads
    BY <1>1
  <1>6. \A j \in 1 .. Len(loads) - 1 :
            (IF j < i THEN [loads[j] EXCEPT !.late = TRUE] ELSE loads[j + 1]) \in Load
    BY <1>2, <1>3, <1>5
  <1>7. loads' \in Seq(Load) /\ Len(loads') = Len(loads) - 1 /\ DOMAIN loads' = 1 .. Len(loads) - 1
    BY <1>4, <1>5, <1>6, SeqDef
  <1>8. \A j \in 1 .. Len(loads') :
            IF j < i THEN loads'[j].late = TRUE /\ loads'[j].task = loads[j].task
            ELSE loads'[j] = loads[j + 1]
    BY <1>3, <1>4, <1>5, <1>7
  <1>9. LateFirst'
    <2> SUFFICES ASSUME NEW j \in 1 .. Len(loads'), NEW k \in 1 .. Len(loads'), j < k, loads'[k].late
                 PROVE  loads'[j].late
      BY <1>7 DEF LateFirst
    <2>1. CASE j < i
      BY <1>8, <2>1
    <2>2. CASE ~(j < i)
      <3>1. loads'[j] = loads[j + 1] /\ loads'[k] = loads[k + 1]
        BY <1>1, <1>7, <1>8, <2>2
      <3>2. j + 1 \in DOMAIN loads /\ k + 1 \in DOMAIN loads /\ j + 1 < k + 1
        BY <1>1, <1>7
      <3>3. QED
        BY <3>1, <3>2 DEF LateFirst
    <2>3. QED
      BY <2>1, <2>2
  <1>10. QED
    BY <1>1, <1>7, <1>8, <1>9

LEMMA PageInitOK == PageInit => PageInv
  <1> SUFFICES ASSUME PageInit PROVE PageInv
    OBVIOUS
  <1> DEFINE new == newLoad(First, FALSE)
  <1>1. First \in Shipments /\ 0 \in Versions
    BY PageAssumption DEF Versions
  <1>2. /\ new \in Load /\ new.cargo = First /\ new.task = FALSE /\ new.late = FALSE
        /\ DOMAIN new.read = {}
    BY <1>1, NewLoadType
  <1> HIDE DEF new
  <1>3. loads = <<new>> /\ boots = <<FALSE>>
    BY DEF PageInit, new
  <1>4. /\ loads \in Seq(Load) /\ Len(loads) = 1 /\ DOMAIN loads = {1} /\ loads[1] = new
        /\ boots \in Seq(BOOLEAN) /\ DOMAIN boots = {1} /\ boots[1] = FALSE
    BY <1>2, <1>3
  <1>5. PageTypeOK
    <2>1. version \in [Shipments -> Versions] /\ selected \in Shipments
      BY <1>1 DEF PageInit
    <2>2. task \in Task
      BY DEF PageInit, Task, Idle
    <2>3. wire \in Seq(Shipments) /\ socket = "connecting" /\ shown = NoShipment
      BY DEF PageInit
    <2>4. QED
      BY <1>4, <2>1, <2>2, <2>3 DEF PageTypeOK
  <1>6. ActionInv
    BY <1>2, <1>4 DEF PageInit, ActionInv, ActionCargo, OneBoot, OneLoad, Idle
  <1>7. LateFirst
    BY <1>4 DEF LateFirst
  <1>8. ScreenInv
    <2>1. ~NoneFresh
      BY <1>2, <1>3, <1>4 DEF NoneFresh
    <2>2. QED
      BY <1>2, <1>4, <2>1 DEF ScreenInv, PageInit
  <1>9. QED
    BY <1>5, <1>6, <1>7, <1>8 DEF PageInv

\* A call of bootstrap.
LEMMA StartedBoot ==
    ASSUME PageTypeOK, NEW byTask \in BOOLEAN, StartBoot(byTask)
    PROVE  /\ boots' \in Seq(BOOLEAN)
           /\ \/ boots' = boots
              \/ /\ boots' # boots /\ DOMAIN boots' = 1 .. Len(boots) + 1 /\ DOMAIN boots = 1 .. Len(boots)
                 /\ Len(boots) \in Nat /\ \A i \in DOMAIN boots : boots'[i] = boots[i]
                 /\ boots'[Len(boots) + 1] = byTask
  <1>1. boots \in Seq(BOOLEAN)
    BY DEF PageTypeOK
  <1>2. QED
    BY <1>1, WithLast DEF StartBoot

\* One that is not an action's leaves the action alone.
LEMMA OtherBoot ==
    ASSUME PageTypeOK, OneBoot, StartBoot(FALSE), task' = task
    PROVE  OneBoot'
  <1>1. CASE boots' = boots
    BY <1>1 DEF OneBoot
  <1>2. CASE boots' # boots
    <2>1. /\ DOMAIN boots' = 1 .. Len(boots) + 1 /\ DOMAIN boots = 1 .. Len(boots) /\ Len(boots) \in Nat
          /\ \A i \in DOMAIN boots : boots'[i] = boots[i]
          /\ ~boots'[Len(boots) + 1]
      BY <1>2, StartedBoot
    <2>2. \A i \in DOMAIN boots' : i \in DOMAIN boots \/ i = Len(boots) + 1
      BY <2>1
    <2>3. \A i \in DOMAIN boots' : boots'[i] => i \in DOMAIN boots /\ boots[i]
      BY <2>1, <2>2
    <2>4. QED
      BY <2>3 DEF OneBoot
  <1>3. QED
    BY <1>1, <1>2

LEMMA OtherLoad ==
    ASSUME PageTypeOK, LateFirst, OneLoad, NEW c \in Shipments, StartLoad(c, FALSE), task' = task
    PROVE  OneLoad'
  <1>1. CASE loads' = loads
    BY <1>1 DEF OneLoad
  <1>2. CASE loads' # loads
    <2>1. /\ DOMAIN loads' = 1 .. Len(loads) + 1 /\ DOMAIN loads = 1 .. Len(loads) /\ Len(loads) \in Nat
          /\ \A i \in DOMAIN loads : loads'[i] = loads[i]
          /\ ~loads'[Len(loads) + 1].task
      BY <1>2, StartedLoad
    <2>2. \A i \in DOMAIN loads' : i \in DOMAIN loads \/ i = Len(loads) + 1
      BY <2>1
    <2>3. \A i \in DOMAIN loads' : loads'[i].task => i \in DOMAIN loads /\ loads[i].task
      BY <2>1, <2>2
    <2>4. QED
      BY <2>3 DEF OneLoad
  <1>3. QED
    BY <1>1, <1>2

\* What a step that starts or answers nothing leaves as it was.
LEMMA ScreenKept ==
    ASSUME ScreenInv, UNCHANGED <<version, selected, shown, loads, wire, excuse>>
    PROVE  ScreenInv'
  BY DEF ScreenInv, NoneFresh, waiting

\* An event that the backend records of the shipment selected is on its way, or
\* was not announced.
LEMMA RecordedScreen ==
    ASSUME PageTypeOK, ScreenInv, NEW c \in Shipments, Record(c), UNCHANGED <<selected, shown, loads, socket>>
    PROVE  /\ ScreenInv' /\ version' \in [Shipments -> Versions] /\ wire' \in Seq(Shipments)
  <1> USE DEF PageTypeOK
  <1>1. /\ version' = [version EXCEPT ![c] = version[c] + 1] /\ version[c] < MaxEvents
        /\ version' \in [Shipments -> Versions]
    BY PageAssumption DEF Record, Versions
  <1>2. CASE socket = "connected"
    <2>1. wire' = Append(wire, c) /\ excuse' = excuse
      BY <1>2 DEF Record
    <2>2. Range(wire') = Range(wire) \cup {c} /\ wire' \in Seq(Shipments)
      BY <2>1, RangeWithLast, WithLast
    <2>3. waiting' <=> waiting \/ c = selected
      BY <2>2 DEF waiting
    <2>4. CASE c = selected
      BY <2>2, <2>3, <2>4, <1>1 DEF ScreenInv
    <2>5. CASE c # selected
      <3>1. version'[selected] = version[selected] /\ (waiting' <=> waiting)
        BY <1>1, <2>3, <2>5
      <3>2. QED
        BY <1>1, <2>1, <2>2, <3>1 DEF ScreenInv, NoneFresh
    <2>6. QED
      BY <2>4, <2>5
  <1>3. CASE socket # "connected"
    <2>1. wire' = wire /\ excuse' = IF c = selected THEN excuse \cup {"unheard"} ELSE excuse
      BY <1>3 DEF Record
    <2>2. CASE c = selected
      BY <2>1, <2>2, <1>1 DEF ScreenInv
    <2>3. CASE c # selected
      <3>1. version'[selected] = version[selected] /\ (waiting' <=> waiting)
        BY <1>1, <2>1, <2>3 DEF waiting
      <3>2. QED
        BY <1>1, <2>1, <2>3, <3>1 DEF ScreenInv, NoneFresh
    <2>4. QED
      BY <2>2, <2>3
  <1>4. QED
    BY <1>2, <1>3

\* A handled event is no longer waited for.
LEMMA WireShorter ==
    ASSUME PageTypeOK, wire # <<>>, wire' = Tail(wire)
    PROVE  /\ wire' \in Seq(Shipments) /\ Head(wire) \in Shipments
           /\ Range(wire) = Range(wire') \cup {Head(wire)}
  <1>1. /\ wire \in Seq(Shipments) /\ Len(wire) \in Nat \ {0} /\ Head(wire) = wire[1]
        /\ wire' \in Seq(Shipments) /\ Len(wire') = Len(wire) - 1
        /\ \A i \in 1 .. Len(wire) - 1 : wire'[i] = wire[i + 1]
    BY HeadTailProperties DEF PageTypeOK
  <1>2. DOMAIN wire = 1 .. Len(wire) /\ DOMAIN wire' = 1 .. Len(wire) - 1
    BY <1>1
  <1>3. \A i \in DOMAIN wire : i = 1 \/ (i - 1 \in DOMAIN wire' /\ wire[i] = wire'[i - 1])
    BY <1>1, <1>2
  <1>4. \A i \in DOMAIN wire' : i + 1 \in DOMAIN wire /\ wire'[i] = wire[i + 1]
    BY <1>1, <1>2
  <1>5. Range(wire) \subseteq Range(wire') \cup {Head(wire)}
    <2> SUFFICES ASSUME NEW i \in DOMAIN wire PROVE wire[i] \in Range(wire') \cup {Head(wire)}
      BY DEF Range
    <2>1. CASE i = 1
      BY <1>1, <2>1
    <2>2. CASE i # 1
      BY <1>3, <2>2 DEF Range
    <2>3. QED
      BY <2>1, <2>2
  <1>6. Range(wire') \cup {Head(wire)} \subseteq Range(wire)
    BY <1>1, <1>2, <1>4 DEF Range
  <1>7. QED
    BY <1>1, <1>2, <1>5, <1>6

\* A load that is over ends the action it belongs to, and no other.
LEMMA LoadOver ==
    ASSUME PageTypeOK, ActionInv, NEW i \in DOMAIN loads, boots' = boots,
           loads' \in Seq(Load), Len(loads') = Len(loads) - 1,
           \A j \in 1 .. Len(loads') : loads'[j].task = IF j < i THEN loads[j].task ELSE loads[j + 1].task,
           task' = IF loads[i].task THEN Idle ELSE task
    PROVE  ActionInv' /\ task' \in Task
  <1> DEFINE old(j) == IF j < i THEN j ELSE j + 1
  <1>1. /\ Len(loads) \in Nat /\ DOMAIN loads = 1 .. Len(loads) /\ DOMAIN loads' = 1 .. Len(loads) - 1
        /\ task \in Task /\ Idle \in Task
    BY DEF PageTypeOK, Task, Idle
  <1>2. \A j \in DOMAIN loads' : /\ old(j) \in DOMAIN loads /\ old(j) # i
                                /\ loads'[j].task = loads[old(j)].task
    BY <1>1
  <1>3. \A j, k \in DOMAIN loads' : old(j) = old(k) => j = k
    BY <1>1
  <1> HIDE DEF old
  <1>4. CASE loads[i].task
    <2>1. task' = Idle /\ task.at = "loading" /\ \A j \in DOMAIN loads : loads[j].task => i = j
      BY <1>4 DEF ActionInv, OneLoad
    <2>2. OneLoad'
      BY <1>2, <2>1 DEF OneLoad
    <2>3. OneBoot'
      BY <2>1 DEF ActionInv, OneBoot
    <2>4. QED
      BY <1>1, <2>1, <2>2, <2>3 DEF ActionInv, ActionCargo, Idle
  <1>5. CASE ~loads[i].task
    <2>1. task' = task
      BY <1>5
    <2>2. OneLoad'
      BY <1>2, <1>3, <2>1 DEF ActionInv, OneLoad
    <2>3. QED
      BY <1>1, <2>1, <2>2 DEF ActionInv, ActionCargo, OneBoot
  <1>6. QED
    BY <1>4, <1>5

\* A part that was read is as it is in the backend.
LEMMA PartRead ==
    ASSUME PageInv, NEW i, NEW p, ReadPart(i, p)
    PROVE  PageInv'
  <1> DEFINE load == loads[i]
             read == [q \in DOMAIN load.read \cup {p} |->
                         IF q = p THEN version[load.cargo] ELSE load.read[q]]
             new == [load EXCEPT !.read = read]
  <1>1. /\ i \in DOMAIN loads /\ p \in Parts \ DOMAIN load.read /\ loads' = [loads EXCEPT ![i] = new]
        /\ UNCHANGED <<version, selected, control, shown, task, boots, socket, wire, excuse>>
    BY DEF ReadPart, screenVars, socketVars
  <1>2. /\ loads \in Seq(Load) /\ load \in Load /\ version \in [Shipments -> Versions]
        /\ DOMAIN loads = 1 .. Len(loads) /\ Len(loads) \in Nat
    BY <1>1 DEF PageInv, PageTypeOK
  <1>3. /\ load.cargo \in Shipments /\ load.late \in BOOLEAN /\ load.task \in BOOLEAN
        /\ load.read \in UNION {[asked -> Versions] : asked \in SUBSET Parts}
    BY <1>2 DEF Load
  <1>4. PICK asked \in SUBSET Parts : load.read \in [asked -> Versions]
    BY <1>3
  <1>5. read \in [asked \cup {p} -> Versions] /\ asked \cup {p} \in SUBSET Parts
    BY <1>1, <1>2, <1>3, <1>4
  <1>6. read \in UNION {[some -> Versions] : some \in SUBSET Parts}
    BY <1>5
  <1>7. /\ new \in Load /\ new.read = read /\ new.cargo = load.cargo /\ new.late = load.late
        /\ new.task = load.task
    BY <1>2, <1>6 DEF Load
  <1>8. DOMAIN read = DOMAIN load.read \cup {p} /\ read[p] = version[load.cargo]
        /\ \A q \in DOMAIN load.read : read[q] = load.read[q]
    BY <1>1
  <1> HIDE DEF new, read
  <1>9. /\ loads' \in Seq(Load) /\ DOMAIN loads' = DOMAIN loads /\ Len(loads') = Len(loads)
        /\ loads'[i] = new /\ \A j \in DOMAIN loads : j # i => loads'[j] = loads[j]
        /\ (loads' = <<>> <=> loads = <<>>)
    BY <1>1, <1>2, <1>7
  <1>10. \A j \in DOMAIN loads : loads'[j].late = loads[j].late /\ loads'[j].task = loads[j].task
                                /\ loads'[j].cargo = loads[j].cargo
    BY <1>7, <1>9
  <1>11. PageTypeOK'
    BY <1>1, <1>9 DEF PageInv, PageTypeOK
  <1>12. ActionInv' /\ LateFirst'
    BY <1>1, <1>9, <1>10 DEF PageInv, ActionInv, ActionCargo, OneBoot, OneLoad, LateFirst
  <1>13. NoneFresh' <=> NoneFresh
    <2>1. CASE loads = <<>>
      BY <1>9, <2>1 DEF NoneFresh
    <2>2. CASE loads # <<>>
      <3>1. Len(loads) \in DOMAIN loads
        BY <1>2, <2>2
      <3>2. QED
        BY <1>9, <1>10, <2>2, <3>1 DEF NoneFresh
    <2>3. QED
      BY <2>1, <2>2
  <1>14. ScreenInv'
    <2> SUFFICES ASSUME excuse = {}, ~waiting, ~NoneFresh
                 PROVE  LET last == loads'[Len(loads')] IN
                        /\ last.cargo = selected
                        /\ \A q \in DOMAIN last.read : last.read[q] = version[selected]
      BY <1>1, <1>13 DEF PageInv, ScreenInv, waiting
    <2> DEFINE last == loads[Len(loads)]
    <2>1. last.cargo = selected /\ \A q \in DOMAIN last.read : last.read[q] = version[selected]
      BY DEF PageInv, ScreenInv
    <2>2. Len(loads) \in DOMAIN loads
      BY <1>2 DEF NoneFresh
    <2>3. CASE Len(loads) = i
      BY <1>7, <1>8, <1>9, <2>1, <2>3
    <2>4. CASE Len(loads) # i
      BY <1>9, <2>1, <2>2, <2>4
    <2>5. QED
      BY <2>3, <2>4
  <1>15. QED
    BY <1>11, <1>12, <1>14 DEF PageInv

\* Once the last load was shown, only late ones remain.
LEMMA ShipmentShown ==
    ASSUME PageInv, NEW i, ShowShipment(i)
    PROVE  PageInv'
  <1> DEFINE load == loads[i]
  <1>1. /\ i \in DOMAIN loads /\ DOMAIN load.read = Parts
        /\ shown' = [cargo |-> load.cargo, read |-> load.read] /\ loads' = answered(i)
        /\ task' = IF load.task THEN Idle ELSE task
        /\ excuse' = IF load.late THEN excuse \cup {"late"} ELSE excuse
        /\ UNCHANGED <<version, selected, control, boots, socket, wire>>
    BY DEF ShowShipment, socketVars
  <1>2. PageTypeOK /\ ActionInv /\ LateFirst /\ ScreenInv
    BY DEF PageInv
  <1>3. load \in Load /\ load.cargo \in Shipments /\ load.read \in [Parts -> Versions]
    <2>1. load \in Load
      BY <1>1, <1>2 DEF PageTypeOK
    <2>2. PICK asked \in SUBSET Parts : load.read \in [asked -> Versions]
      BY <2>1 DEF Load
    <2>3. QED
      BY <1>1, <2>1, <2>2 DEF Load
  <1>4. /\ loads' \in Seq(Load) /\ Len(loads') = Len(loads) - 1 /\ Len(loads) \in Nat
        /\ i \in 1 .. Len(loads) /\ LateFirst'
        /\ \A j \in 1 .. Len(loads') :
              IF j < i
              THEN loads'[j].late /\ loads'[j].task = loads[j].task
              ELSE loads'[j] = loads[j + 1]
    BY <1>1, <1>2, AnsweredLoads
  <1>5. ActionInv' /\ task' \in Task
    <2>1. \A j \in 1 .. Len(loads') : loads'[j].task = IF j < i THEN loads[j].task ELSE loads[j + 1].task
      BY <1>4
    <2>2. QED
      BY <1>1, <1>2, <1>4, <2>1, LoadOver
  <1>6. shown' \in [cargo : Shipments, read : [Parts -> Versions]] /\ shown' # NoShipment
    <2>1. shown' \in [cargo : Shipments, read : [Parts -> Versions]]
      BY <1>1, <1>3
    <2>2. QED
      BY <2>1, PageAssumption DEF Versions
  <1>7. PageTypeOK'
    BY <1>1, <1>2, <1>4, <1>5, <1>6 DEF PageTypeOK
  <1>8. ScreenInv'
    <2> SUFFICES ASSUME excuse' = {}, ~waiting' PROVE ScreenInv'
      BY DEF ScreenInv
    <2>1. excuse = {} /\ ~load.late /\ ~waiting
      BY <1>1 DEF waiting
    <2>2. loads # <<>> /\ Len(loads) \in DOMAIN loads
      BY <1>2, <1>4 DEF PageTypeOK
    <2>3. ~loads[Len(loads)].late
      <3>1. CASE i = Len(loads)
        BY <2>1, <3>1
      <3>2. CASE i # Len(loads)
        BY <1>1, <1>2, <1>4, <2>1, <2>2, <3>2 DEF LateFirst
      <3>3. QED
        BY <3>1, <3>2
    <2>4. /\ loads[Len(loads)].cargo = selected
          /\ \A p \in DOMAIN loads[Len(loads)].read : loads[Len(loads)].read[p] = version[selected]
      BY <1>2, <2>1, <2>2, <2>3 DEF ScreenInv, NoneFresh
    <2>5. CASE i = Len(loads)
      <3>1. NoneFresh'
        BY <1>4, <2>5 DEF NoneFresh
      <3>2. shown'.cargo = selected /\ \A p \in Parts : shown'.read[p] = version[selected]
        BY <1>1, <2>4, <2>5
      <3>3. QED
        BY <1>1, <1>6, <3>1, <3>2 DEF ScreenInv
    <2>6. CASE i # Len(loads)
      <3>1. Len(loads') \in 1 .. Len(loads') /\ ~(Len(loads') < i) /\ Len(loads') + 1 = Len(loads)
        BY <1>4, <2>6
      <3>2. loads'[Len(loads')] = loads[Len(loads)]
        BY <1>4, <3>1
      <3>3. ~NoneFresh'
        BY <1>4, <2>3, <3>1, <3>2 DEF NoneFresh
      <3>4. QED
        BY <1>1, <2>4, <3>2, <3>3 DEF ScreenInv
    <2>7. QED
      BY <2>5, <2>6
  <1>9. QED
    BY <1>4, <1>5, <1>7, <1>8 DEF PageInv

\* The last load may fail with an excuse only.
LEMMA LoadFailed ==
    ASSUME PageInv, NEW i, FailLoad(i)
    PROVE  PageInv'
  <1> DEFINE load == loads[i]
  <1>1. /\ i \in DOMAIN loads /\ loads' = RemoveAt(loads, i)
        /\ task' = IF load.task THEN Idle ELSE task
        /\ excuse' = IF i = Len(loads) /\ ~load.late THEN excuse \cup {"failed"} ELSE excuse
        /\ UNCHANGED <<version, selected, control, shown, boots, socket, wire>>
    BY DEF FailLoad, socketVars, screenVars
  <1>2. PageTypeOK /\ ActionInv /\ LateFirst /\ ScreenInv
    BY DEF PageInv
  <1>3. loads \in Seq(Load) /\ Len(loads) \in Nat /\ i \in 1 .. Len(loads)
    BY <1>1, <1>2 DEF PageTypeOK
  <1>4. /\ loads' \in Seq(Load) /\ Len(loads') = Len(loads) - 1
        /\ \A j \in 1 .. Len(loads) - 1 : loads'[j] = IF j < i THEN loads[j] ELSE loads[j + 1]
    BY <1>1, <1>3, WithoutOne
  <1>5. ActionInv' /\ task' \in Task
    <2>1. \A j \in 1 .. Len(loads') : loads'[j].task = IF j < i THEN loads[j].task ELSE loads[j + 1].task
      BY <1>4
    <2>2. QED
      BY <1>1, <1>2, <1>4, <2>1, LoadOver
  <1>6. PageTypeOK'
    BY <1>1, <1>2, <1>4, <1>5 DEF PageTypeOK
  <1>7. LateFirst'
    <2> SUFFICES ASSUME NEW j \in 1 .. Len(loads'), NEW k \in 1 .. Len(loads'), j < k, loads'[k].late
                 PROVE  loads'[j].late
      BY <1>4 DEF LateFirst
    <2> DEFINE old(n) == IF n < i THEN n ELSE n + 1
    <2>1. /\ old(j) \in DOMAIN loads /\ old(k) \in DOMAIN loads /\ old(j) < old(k)
          /\ loads'[j] = loads[old(j)] /\ loads'[k] = loads[old(k)]
      BY <1>3, <1>4
    <2> HIDE DEF old
    <2>2. QED
      BY <1>2, <2>1 DEF LateFirst
  <1>8. ScreenInv'
    <2> SUFFICES ASSUME excuse' = {}, ~waiting' PROVE ScreenInv'
      BY DEF ScreenInv
    <2>1. excuse = {} /\ ~waiting
      BY <1>1 DEF waiting
    <2>2. loads # <<>> /\ Len(loads) \in DOMAIN loads
      BY <1>3
    <2>3. CASE i = Len(loads)
      <3>1. loads[Len(loads)].late
        BY <1>1, <2>3
      <3>2. NoneFresh'
        <4>1. CASE Len(loads') = 0
          BY <1>4, <4>1 DEF NoneFresh
        <4>2. CASE Len(loads') # 0
          <5>1. /\ Len(loads') \in 1 .. Len(loads) - 1 /\ Len(loads') < i /\ Len(loads') \in DOMAIN loads
            BY <1>3, <1>4, <2>3, <4>2
          <5>2. loads'[Len(loads')] = loads[Len(loads')]
            BY <1>4, <5>1
          <5>3. QED
            BY <1>2, <2>2, <2>3, <3>1, <5>1, <5>2 DEF LateFirst, NoneFresh
        <4>3. QED
          BY <4>1, <4>2
      <3>3. QED
        BY <1>1, <1>2, <2>1, <3>1, <3>2 DEF ScreenInv, NoneFresh
    <2>4. CASE i # Len(loads)
      <3>1. Len(loads') \in 1 .. Len(loads) - 1 /\ ~(Len(loads') < i) /\ Len(loads') + 1 = Len(loads)
        BY <1>3, <1>4, <2>4
      <3>2. loads'[Len(loads')] = loads[Len(loads)] /\ loads' # <<>>
        BY <1>4, <3>1
      <3>3. QED
        BY <1>1, <1>2, <2>1, <2>2, <3>2 DEF ScreenInv, NoneFresh
    <2>5. QED
      BY <2>3, <2>4
  <1>9. QED
    BY <1>5, <1>6, <1>7, <1>8 DEF PageInv

\* What the boots in flight are once one of them is over.
LEMMA BootOver ==
    ASSUME PageTypeOK, OneBoot, NEW i \in DOMAIN boots, boots' = RemoveAt(boots, i)
    PROVE  /\ boots' \in Seq(BOOLEAN)
           /\ boots[i] => \A j \in DOMAIN boots' : ~boots'[j]
           /\ \A j \in DOMAIN boots' : boots'[j] =>
                 task.at = "booting" /\ \A k \in DOMAIN boots' : boots'[k] => j = k
  <1> DEFINE old(j) == IF j < i THEN j ELSE j + 1
  <1>1. boots \in Seq(BOOLEAN) /\ Len(boots) \in Nat /\ i \in 1 .. Len(boots)
    BY DEF PageTypeOK
  <1>2. /\ boots' \in Seq(BOOLEAN) /\ Len(boots') = Len(boots) - 1
        /\ \A j \in 1 .. Len(boots) - 1 : boots'[j] = IF j < i THEN boots[j] ELSE boots[j + 1]
    BY <1>1, WithoutOne
  <1>3. \A j \in DOMAIN boots' : /\ old(j) \in DOMAIN boots /\ old(j) # i
                                /\ boots'[j] = boots[old(j)]
    BY <1>1, <1>2
  <1>4. \A j, k \in DOMAIN boots' : old(j) = old(k) => j = k
    BY <1>1, <1>2
  <1> HIDE DEF old
  <1>5. QED
    BY <1>2, <1>3, <1>4 DEF OneBoot

LEMMA ListShown ==
    ASSUME PageInv, NEW i, ShowList(i)
    PROVE  PageInv'
  <1>1. /\ i \in DOMAIN boots /\ boots' = RemoveAt(boots, i)
        /\ UNCHANGED <<version, selected, shown, socket, wire>>
        /\ IF boots[i] THEN GoOnToLoad(task.cargo) ELSE UNCHANGED <<task, loads, excuse>>
    BY DEF ShowList, socketVars
  <1>2. PageTypeOK /\ ActionInv /\ LateFirst /\ ScreenInv
    BY DEF PageInv
  <1>3. /\ boots' \in Seq(BOOLEAN)
        /\ boots[i] => \A j \in DOMAIN boots' : ~boots'[j]
        /\ \A j \in DOMAIN boots' : boots'[j] =>
              task.at = "booting" /\ \A k \in DOMAIN boots' : boots'[k] => j = k
    BY <1>1, <1>2, BootOver DEF ActionInv
  <1>4. CASE boots[i]
    <2>1. /\ task.at = "booting" /\ task.cargo \in Shipments
          /\ \A j \in DOMAIN loads : ~loads[j].task
      BY <1>1, <1>2, <1>4 DEF ActionInv, OneBoot, OneLoad, ActionCargo
    <2>2. /\ StartLoad(task.cargo, TRUE)
          /\ task' = IF loads' = loads THEN Idle ELSE [task EXCEPT !.at = "loading"]
      BY <1>1, <1>4 DEF GoOnToLoad
    <2>3. /\ loads' \in Seq(Load) /\ LateFirst' /\ ScreenInv'
          /\ \/ loads' = loads
             \/ /\ loads' # loads /\ DOMAIN loads' = 1 .. Len(loads) + 1 /\ DOMAIN loads = 1 .. Len(loads)
                /\ Len(loads) \in Nat /\ \A j \in DOMAIN loads : loads'[j] = loads[j]
                /\ loads'[Len(loads) + 1].task = TRUE
      BY <1>2, <2>1, <2>2, StartedLoad
    <2>4. task' \in Task /\ ActionCargo'
      BY <1>2, <2>1, <2>2 DEF PageTypeOK, Task, Idle, ActionCargo
    <2>5. OneBoot'
      BY <1>3, <1>4 DEF OneBoot
    <2>6. OneLoad'
      <3>1. CASE loads' = loads
        BY <2>1, <3>1 DEF OneLoad
      <3>2. CASE loads' # loads
        <4>1. task'.at = "loading"
          BY <1>2, <2>2, <3>2 DEF PageTypeOK, Task
        <4>2. \A j \in DOMAIN loads' : j \in DOMAIN loads \/ j = Len(loads) + 1
          BY <2>3, <3>2
        <4>3. \A j \in DOMAIN loads' : loads'[j].task => j = Len(loads) + 1
          BY <2>1, <2>3, <3>2, <4>2
        <4>4. QED
          BY <4>1, <4>3 DEF OneLoad
      <3>3. QED
        BY <3>1, <3>2
    <2>7. QED
      BY <1>1, <1>2, <1>3, <2>3, <2>4, <2>5, <2>6 DEF PageInv, PageTypeOK, ActionInv
  <1>5. CASE ~boots[i]
    <2>1. UNCHANGED <<task, loads, excuse>>
      BY <1>1, <1>5
    <2>2. ScreenInv'
      BY <1>1, <1>2, <2>1, ScreenKept
    <2>3. ActionInv' /\ LateFirst'
      BY <1>2, <1>3, <2>1 DEF ActionInv, ActionCargo, OneBoot, OneLoad, LateFirst
    <2>4. QED
      BY <1>1, <1>2, <1>3, <2>1, <2>2, <2>3 DEF PageInv, PageTypeOK
  <1>6. QED
    BY <1>4, <1>5

LEMMA BootFailed ==
    ASSUME PageInv, NEW i, FailBoot(i)
    PROVE  PageInv'
  <1>1. /\ i \in DOMAIN boots /\ boots' = RemoveAt(boots, i)
        /\ task' = IF boots[i] THEN Idle ELSE task
        /\ UNCHANGED <<version, selected, control, shown, loads, socket, wire, excuse>>
    BY DEF FailBoot, screenVars, socketVars
  <1>2. PageTypeOK /\ ActionInv /\ LateFirst /\ ScreenInv
    BY DEF PageInv
  <1>3. /\ boots' \in Seq(BOOLEAN)
        /\ boots[i] => \A j \in DOMAIN boots' : ~boots'[j]
        /\ \A j \in DOMAIN boots' : boots'[j] =>
              task.at = "booting" /\ \A k \in DOMAIN boots' : boots'[k] => j = k
    BY <1>1, <1>2, BootOver DEF ActionInv
  <1>4. ScreenInv' /\ LateFirst'
    BY <1>1, <1>2, ScreenKept DEF LateFirst
  <1>5. Idle \in Task /\ task' \in Task
    BY <1>1, <1>2 DEF PageTypeOK, Task, Idle
  <1>6. ActionInv'
    <2>1. CASE boots[i]
      <3>1. task' = Idle /\ \A j \in DOMAIN loads : ~loads[j].task
        BY <1>1, <1>2, <2>1 DEF ActionInv, OneBoot, OneLoad
      <3>2. QED
        BY <1>1, <1>3, <2>1, <3>1 DEF ActionInv, OneBoot, OneLoad, ActionCargo, Idle
    <2>2. CASE ~boots[i]
      BY <1>1, <1>2, <1>3, <2>2 DEF ActionInv, OneBoot, OneLoad, ActionCargo
    <2>3. QED
      BY <2>1, <2>2
  <1>7. QED
    BY <1>1, <1>2, <1>3, <1>4, <1>5, <1>6 DEF PageInv, PageTypeOK

LEMMA PageStep == PageInv /\ [PageNext]_custodyPageVars => PageInv'
  <1> SUFFICES ASSUME PageInv, [PageNext]_custodyPageVars PROVE PageInv'
    OBVIOUS
  <1>0. PageTypeOK /\ ActionInv /\ LateFirst /\ ScreenInv
    BY DEF PageInv
  <1> USE DEF screenVars, callVars, socketVars
  <1>1. ASSUME NEW i \in DOMAIN loads,
               (\E p \in Parts : ReadPart(i, p)) \/ ShowShipment(i) \/ FailLoad(i)
        PROVE  PageInv'
    BY <1>1, PartRead, ShipmentShown, LoadFailed
  <1>2. ASSUME NEW i \in DOMAIN boots, ShowList(i) \/ FailBoot(i)
        PROVE  PageInv'
    BY <1>2, ListShown, BootFailed
  <1>3. CASE AnswerPost
    <2>1. /\ task.at = "posted" /\ StartBoot(TRUE)
          /\ task' = IF boots' = boots THEN Idle ELSE [task EXCEPT !.at = "booting"]
          /\ UNCHANGED <<version, selected, control, shown, loads, socket, wire, excuse>>
      BY <1>3 DEF AnswerPost
    <2>2. /\ \A i \in DOMAIN boots : ~boots[i]
          /\ \A i \in DOMAIN loads : ~loads[i].task
          /\ task.cargo \in Shipments
      BY <1>0, <2>1 DEF ActionInv, OneBoot, OneLoad, ActionCargo
    <2>3. /\ boots' \in Seq(BOOLEAN)
          /\ \/ boots' = boots
             \/ /\ boots' # boots /\ DOMAIN boots' = 1 .. Len(boots) + 1 /\ DOMAIN boots = 1 .. Len(boots)
                /\ Len(boots) \in Nat /\ \A i \in DOMAIN boots : boots'[i] = boots[i]
      BY <1>0, <2>1, StartedBoot
    <2>4. task' \in Task /\ ActionCargo' /\ (boots' # boots => task'.at = "booting")
      BY <1>0, <2>1, <2>2 DEF PageTypeOK, Task, Idle, ActionCargo
    <2>5. OneBoot'
      <3>1. CASE boots' = boots
        BY <2>2, <3>1 DEF OneBoot
      <3>2. CASE boots' # boots
        <4>1. \A i \in DOMAIN boots' : i \in DOMAIN boots \/ i = Len(boots) + 1
          BY <2>3, <3>2
        <4>2. \A i \in DOMAIN boots' : boots'[i] => i = Len(boots) + 1
          BY <2>2, <2>3, <3>2, <4>1
        <4>3. QED
          BY <2>4, <3>2, <4>2 DEF OneBoot
      <3>3. QED
        BY <3>1, <3>2
    <2>6. OneLoad' /\ LateFirst' /\ ScreenInv'
      BY <1>0, <2>1, <2>2, ScreenKept DEF OneLoad, LateFirst
    <2>7. QED
      BY <1>0, <2>1, <2>3, <2>4, <2>5, <2>6 DEF PageInv, PageTypeOK, ActionInv
  <1>4. ASSUME task.at \notin {"booting", "loading"}, task' \in Task,
               task'.at \in {"posting", "posted"} => task'.cargo \in Shipments,
               task'.at \notin {"booting", "loading"},
               UNCHANGED <<selected, shown, loads, boots, socket>>
        PROVE  ActionInv' /\ LateFirst'
    BY <1>0, <1>4 DEF ActionInv, ActionCargo, OneBoot, OneLoad, LateFirst
  <1>5. CASE AnswerCopilot \/ FailTask \/ AskCopilot
    <2>1. /\ task' \in Task /\ task'.at \in {"idle", "asking"}
          /\ UNCHANGED <<version, selected, shown, loads, boots, socket, wire, excuse>>
      BY <1>5 DEF AnswerCopilot, FailTask, AskCopilot, Task, Idle
    <2>2. task.at \notin {"booting", "loading"}
      BY <1>5 DEF AnswerCopilot, FailTask, AskCopilot, busy, Idle
    <2>3. QED
      BY <1>0, <1>4, <2>1, <2>2, ScreenKept DEF PageInv, PageTypeOK
  <1>6. CASE SubmitAction
    <2>1. /\ shown # NoShipment /\ task = Idle /\ task' = [at |-> "posting", cargo |-> shown.cargo]
          /\ UNCHANGED <<version, selected, shown, loads, boots, socket, wire, excuse>>
      BY <1>6 DEF SubmitAction, busy
    <2>2. shown.cargo \in Shipments /\ task.at = "idle"
      BY <1>0, <2>1 DEF PageTypeOK, Idle
    <2>3. QED
      BY <1>0, <1>4, <2>1, <2>2, ScreenKept DEF PageInv, PageTypeOK, Task
  <1>7. CASE Post
    <2>1. /\ task.at = "posting" /\ Record(task.cargo) /\ task' = [task EXCEPT !.at = "posted"]
          /\ UNCHANGED <<selected, shown, loads, boots, socket>>
      BY <1>7 DEF Post
    <2>2. task.cargo \in Shipments /\ task' \in Task /\ task'.at = "posted" /\ task'.cargo = task.cargo
      BY <1>0, <2>1 DEF PageTypeOK, ActionInv, ActionCargo, Task
    <2>3. ScreenInv' /\ version' \in [Shipments -> Versions] /\ wire' \in Seq(Shipments)
      BY <1>0, <2>1, <2>2, RecordedScreen
    <2>4. QED
      BY <1>0, <1>4, <2>1, <2>2, <2>3 DEF PageInv, PageTypeOK
  <1>8. ASSUME NEW c \in Shipments, RecordElsewhere(c)
        PROVE  PageInv'
    <2>1. Record(c) /\ UNCHANGED <<selected, shown, task, loads, boots, socket>>
      BY <1>8 DEF RecordElsewhere
    <2>2. ScreenInv' /\ version' \in [Shipments -> Versions] /\ wire' \in Seq(Shipments)
      BY <1>0, <2>1, RecordedScreen
    <2>3. ActionInv' /\ LateFirst'
      BY <1>0, <2>1 DEF ActionInv, ActionCargo, OneBoot, OneLoad, LateFirst
    <2>4. QED
      BY <1>0, <2>1, <2>2, <2>3 DEF PageInv, PageTypeOK
  <1>9. ASSUME NEW c \in Shipments, Select(c)
        PROVE  PageInv'
    <2>1. /\ selected' = c /\ StartLoad(c, FALSE) /\ socket' = "connecting" /\ wire' = <<>>
          /\ UNCHANGED <<version, shown, task, boots>>
      BY <1>9 DEF Select
    <2>2. loads' \in Seq(Load) /\ LateFirst' /\ ScreenInv'
      BY <1>0, <2>1, StartedLoad
    <2>3. ActionInv'
      BY <1>0, <2>1, OtherLoad DEF ActionInv, ActionCargo, OneBoot
    <2>4. QED
      BY <1>0, <2>1, <2>2, <2>3 DEF PageInv, PageTypeOK
  <1>10. CASE Connect
    <2>1. socket' = "connected" /\ UNCHANGED <<version, selected, shown, task, loads, boots, wire, excuse>>
      BY <1>10 DEF Connect
    <2>2. ActionInv' /\ LateFirst' /\ ScreenInv'
      BY <1>0, <2>1, ScreenKept DEF ActionInv, ActionCargo, OneBoot, OneLoad, LateFirst
    <2>3. QED
      BY <1>0, <2>1, <2>2 DEF PageInv, PageTypeOK
  <1>11. CASE Disconnect
    <2>1. /\ socket' = "connecting" /\ wire' = <<>>
          /\ excuse' = IF waiting THEN excuse \cup {"unheard"} ELSE excuse
          /\ UNCHANGED <<version, selected, shown, task, loads, boots>>
      BY <1>11 DEF Disconnect, waiting
    <2>2. ActionInv' /\ LateFirst'
      BY <1>0, <2>1 DEF ActionInv, ActionCargo, OneBoot, OneLoad, LateFirst
    <2>3. ScreenInv'
      BY <1>0, <2>1 DEF ScreenInv, NoneFresh
    <2>4. QED
      BY <1>0, <2>1, <2>2, <2>3 DEF PageInv, PageTypeOK
  <1>12. CASE HearEvent
    <2>1. /\ wire # <<>> /\ wire' = Tail(wire) /\ StartBoot(FALSE)
          /\ IF Head(wire) = selected THEN StartLoad(selected, FALSE) ELSE UNCHANGED <<loads, excuse>>
          /\ UNCHANGED <<version, selected, shown, task, socket>>
      BY <1>12 DEF HearEvent
    <2>2. /\ wire' \in Seq(Shipments) /\ Head(wire) \in Shipments
          /\ Range(wire) = Range(wire') \cup {Head(wire)}
      BY <1>0, <2>1, WireShorter
    <2>3. boots' \in Seq(BOOLEAN) /\ OneBoot'
      BY <1>0, <2>1, StartedBoot, OtherBoot DEF ActionInv
    <2>4. CASE Head(wire) = selected
      <3>1. StartLoad(selected, FALSE) /\ selected \in Shipments
        BY <1>0, <2>1, <2>4 DEF PageTypeOK
      <3>2. loads' \in Seq(Load) /\ LateFirst' /\ ScreenInv'
        BY <1>0, <3>1, StartedLoad
      <3>3. ActionInv'
        BY <1>0, <2>1, <2>3, <3>1, OtherLoad DEF ActionInv, ActionCargo
      <3>4. QED
        BY <1>0, <2>1, <2>2, <2>3, <3>2, <3>3 DEF PageInv, PageTypeOK
    <2>5. CASE Head(wire) # selected
      <3>1. UNCHANGED <<loads, excuse>> /\ (waiting' <=> waiting)
        BY <2>1, <2>2, <2>5 DEF waiting
      <3>2. ScreenInv' /\ LateFirst'
        BY <1>0, <2>1, <3>1 DEF ScreenInv, NoneFresh, LateFirst
      <3>3. ActionInv'
        BY <1>0, <2>1, <2>3, <3>1 DEF ActionInv, ActionCargo, OneLoad
      <3>4. QED
        BY <1>0, <2>1, <2>2, <2>3, <3>1, <3>2, <3>3 DEF PageInv, PageTypeOK
    <2>6. QED
      BY <2>4, <2>5
  <1>13. CASE UNCHANGED custodyPageVars
    <2>1. UNCHANGED <<version, selected, shown, task, loads, boots, socket, wire, excuse>>
      BY <1>13 DEF custodyPageVars
    <2>2. ActionInv' /\ LateFirst' /\ ScreenInv'
      BY <1>0, <2>1, ScreenKept DEF ActionInv, ActionCargo, OneBoot, OneLoad, LateFirst
    <2>3. QED
      BY <1>0, <2>1, <2>2 DEF PageInv, PageTypeOK
  <1>14. QED
    BY <1>1, <1>2, <1>3, <1>5, <1>6, <1>7, <1>8, <1>9, <1>10, <1>11, <1>12, <1>13 DEF PageNext, Answers

\* Whatever answers are late, lost or out of order, whatever is announced while
\* the socket is down, the page shows the shipment selected as the backend has
\* it once nothing is in flight, or for one of the reasons named it does not.
THEOREM PageCatchesUp == PageSpec => []ShownIsCurrent
  <1>1. PageInv => ShownIsCurrent
    BY DEF PageInv, ScreenInv, NoneFresh, ShownIsCurrent
  <1>2. QED
    BY <1>1, PageInitOK, PageStep, PTL DEF PageSpec
=============================================================================
