------------------------- MODULE CargoViewsProofs -------------------------
(***************************************************************************)
(* What the dashboard shows of the custody stores, for any constants of    *)
(* CargoViews: any number of cargo, requests, views, crashes and rows.     *)
(* The invariants of CargoCustodyProofs carry over, but for what a request *)
(* knows of its cargo while a view writes an older state back.             *)
(***************************************************************************)
EXTENDS CargoViews, CargoCustodyProofs, WellFoundedInduction

(***************************************************************************)
(* Sorting.  The well-founded orders stand for the induction.              *)
(***************************************************************************)
LEMMA LeastNatural ==
    ASSUME NEW T \in SUBSET Nat, T # {}
    PROVE  \E n \in T : \A m \in T : n <= m
  <1>1. PICK n \in T : \A m \in T : <<m, n>> \notin OpToRel(<, Nat)
    BY WFMin, NatLessThanWellFounded
  <1>2. \A m \in T : ~(m < n)
    BY <1>1 DEF OpToRel
  <1>3. QED
    BY <1>2

Sorted(list, key) == \A i, j \in DOMAIN list : i < j => key[list[i]] >= key[list[j]]

LEMMA SortedExists ==
    ASSUME NEW S, IsFiniteSet(S), NEW key, \A x \in S : key[x] \in Nat
    PROVE  \E list \in SetToSeqs(S) : Sorted(list, key)
  <1> DEFINE Unsorted == {X \in SUBSET S : ~ \E list \in SetToSeqs(X) : Sorted(list, key)}
  <1>1. SUFFICES ASSUME Unsorted # {} PROVE FALSE
    <2>1. S \in SUBSET S
      OBVIOUS
    <2>2. QED
      BY <1>1, <2>1
  <1>2. PICK X \in Unsorted : \A Y \in Unsorted : <<Y, X>> \notin StrictSubsetOrdering(S)
    <2>1. Unsorted \subseteq FiniteSubsetsOf(S)
      BY FS_FiniteSubsetsOfFinite
    <2>2. QED
      BY <1>1, <2>1, WFMin, FS_StrictSubsetOrderingWellFounded
  <1>3. IsFiniteSet(X) /\ Cardinality(X) \in Nat
    BY FS_Subset, FS_CardinalityType
  <1>4. X # {}
    <2>1. SUFFICES ASSUME X = {} PROVE FALSE
      OBVIOUS
    <2>2. Cardinality(X) = 0
      BY <2>1, FS_EmptySet
    <2>3. <<>> \in SetToSeqs(X)
      BY <2>2 DEF SetToSeqs
    <2>4. Sorted(<<>>, key)
      BY DEF Sorted
    <2>5. QED
      BY <2>3, <2>4
  <1>5. PICK x \in X : \A y \in X : key[x] <= key[y]
    <2> DEFINE values == {key[y] : y \in X}
    <2>1. values \in SUBSET Nat /\ values # {}
      BY <1>4
    <2>2. PICK n \in values : \A m \in values : n <= m
      BY <2>1, LeastNatural
    <2>3. QED
      BY <2>2
  <1> DEFINE Y == X \ {x}
             n == Cardinality(X)
  <1>6. /\ IsFiniteSet(Y) /\ Cardinality(Y) = n - 1 /\ n \in Nat \ {0}
        /\ Y \in SUBSET S /\ Y # X
    BY <1>3, <1>4, FS_RemoveElement, FS_EmptySet
  <1>7. <<Y, X>> \in StrictSubsetOrdering(S)
    BY <1>6, FS_FiniteSubsetsOfFinite DEF StrictSubsetOrdering
  <1>8. Y \notin Unsorted
    BY <1>2, <1>7
  <1>9. PICK list \in SetToSeqs(Y) : Sorted(list, key)
    BY <1>6, <1>8
  <1>10. /\ list \in [1 .. n - 1 -> Y] /\ DOMAIN list = 1 .. n - 1
         /\ \A i, j \in 1 .. n - 1 : i # j => list[i] # list[j]
    BY <1>6, <1>9 DEF SetToSeqs
  <1> DEFINE longer == [i \in 1 .. n |-> IF i = n THEN x ELSE list[i]]
  <1>11. longer \in SetToSeqs(X)
    <2>1. longer \in [1 .. n -> X]
      BY <1>6, <1>10
    <2>2. \A i, j \in 1 .. n : i # j => longer[i] # longer[j]
      BY <1>6, <1>10
    <2>3. QED
      BY <2>1, <2>2 DEF SetToSeqs
  <1>12. Sorted(longer, key)
    <2>1. \A i \in 1 .. n - 1 : list[i] \in X /\ key[list[i]] \in Nat
      BY <1>10
    <2>2. \A i, j \in 1 .. n - 1 : i < j => key[list[i]] >= key[list[j]]
      BY <1>9, <1>10 DEF Sorted
    <2>3. key[x] \in Nat
      OBVIOUS
    <2>4. \A i \in 1 .. n - 1 : key[list[i]] >= key[x]
      BY <1>5, <2>1, <2>3
    <2>5. QED
      BY <1>6, <2>1, <2>2, <2>4 DEF Sorted
  <1>13. QED
    BY <1>11, <1>12

\* What sorting gives: the rows, each once, the highest first.
LEMMA SortedRows ==
    ASSUME NEW S, IsFiniteSet(S), NEW key, \A x \in S : key[x] \in Nat
    PROVE  LET list == sortedBy(S, key) IN
           /\ list \in Seq(S) /\ ToSet(list) = S
           /\ Sorted(list, key)
  <1> DEFINE list == sortedBy(S, key)
             n == Cardinality(S)
  <1>1. list \in SetToSeqs(S) /\ Sorted(list, key)
    BY SortedExists DEF sortedBy, Sorted
  <1>2. /\ list \in [1 .. n -> S] /\ n \in Nat
        /\ \A i, j \in 1 .. n : i # j => list[i] # list[j]
    BY <1>1, FS_CardinalityType DEF SetToSeqs
  <1>3. list \in Injection(1 .. n, S)
    BY <1>2 DEF Injection, IsInjective
  <1>4. IsFiniteSet(1 .. n) /\ Cardinality(1 .. n) = n
    BY <1>2, FS_Interval
  <1>5. list \in Surjection(1 .. n, S)
    BY <1>3, <1>4, FS_Injection
  <1>6. ToSet(list) = S
    BY <1>2, <1>5 DEF ToSet, Surjection
  <1>7. QED
    BY <1>1, <1>2, <1>6

(***************************************************************************)
(* The figures computed from a list.                                       *)
(***************************************************************************)
LEMMA RowsFinite ==
    ASSUME NEW S, NEW list \in Seq(S)
    PROVE  IsFiniteSet(ToSet(list)) /\ ToSet(list) \subseteq S
  <1>1. list \in Surjection(1 .. Len(list), ToSet(list))
    BY DEF Surjection, ToSet
  <1>2. IsFiniteSet(1 .. Len(list))
    BY FS_Interval
  <1>3. QED
    BY <1>1, <1>2, FS_Surjection DEF ToSet

LEMMA CountPositive ==
    ASSUME NEW S, IsFiniteSet(S), NEW T \in SUBSET S, T # {}
    PROVE  Cardinality(T) > 0
  BY FS_Subset, FS_EmptySet, FS_CardinalityType

\* The first of the rows in order is the highest.
LEMMA HighestFirst ==
    ASSUME NEW S, IsFiniteSet(S), NEW key, \A x \in S : key[x] \in Nat, NEW n \in Nat \ {0},
           NEW x \in ToSet(Slice(Slice(sortedBy(S, key), n), 1)), NEW y \in S
    PROVE  x \in S /\ key[x] >= key[y]
  <1> DEFINE list == sortedBy(S, key)
             top == Slice(list, n)
  <1>1. /\ list \in Seq(S) /\ ToSet(list) = S
        /\ \A i, j \in DOMAIN list : i < j => key[list[i]] >= key[list[j]]
    BY SortedRows DEF Sorted
  <1>2. Len(list) >= 1
    BY <1>1 DEF ToSet
  <1>3. top \in Seq(S) /\ Len(top) >= 1 /\ top[1] = list[1]
    BY <1>1, <1>2 DEF Slice
  <1>4. Slice(top, 1) = <<list[1]>>
    <2> HIDE DEF top
    <2>1. Slice(top, 1) = SubSeq(top, 1, 1)
      BY <1>3 DEF Slice
    <2>2. QED
      BY <1>3, <2>1
  <1>5. x = list[1]
    BY <1>4 DEF ToSet
  <1>6. PICK j \in 1 .. Len(list) : y = list[j]
    BY <1>1 DEF ToSet
  <1>7. QED
    BY <1>1, <1>2, <1>5, <1>6


LEMMA ScoreIsNatural ==
    ASSUME NEW n \in 0 .. 100 PROVE n \in Nat /\ n + 15 \in Nat /\ n + 0 \in Nat
  OBVIOUS

LEMMA FiguresShow ==
    ASSUME NEW Rows, NEW list \in Seq(Rows), NEW s \in ToSet(list),
           \A x \in ToSet(list) : x.riskScore \in 0 .. 100
    PROVE  ShownAs(s, list)
  <1>1. IsFiniteSet(ToSet(list))
    BY RowsFinite
  <1>2. ASSUME s.chainBroken
        PROVE  /\ [id |-> <<"cargo", s.cargoId>>, custodyState |-> "BROKEN"]
                      \in {cargoNode(x) : x \in ToSet(list)}
               /\ s.cargoId \in brokenChainMatches(list)
               /\ flights(list)[s.flight].chainBrokenCount > 0
    <2>1. cargoNode(s) = [id |-> <<"cargo", s.cargoId>>, custodyState |-> "BROKEN"]
      BY <1>2 DEF cargoNode
    <2>2. s.cargoId \in brokenChainMatches(list)
      BY <1>2 DEF brokenChainMatches, Shipments
    <2> DEFINE rows == {t \in ToSet(list) : t.flight = s.flight}
    <2>3. Cardinality({t \in rows : t.chainBroken}) > 0
      BY <1>1, <1>2, CountPositive
    <2>4. flights(list)[s.flight].chainBrokenCount = Cardinality({t \in rows : t.chainBroken})
      BY DEF flights, Shipments, CountOf
    <2>5. QED
      BY <2>1, <2>2, <2>3, <2>4
  <1>3. ASSUME s.stopLoad
        PROVE  /\ flights(list)[s.flight].stopLoadCount > 0
               /\ aiOpsContext({}, list).stopLoadCargo > 0
    <2> DEFINE rows == {t \in ToSet(list) : t.flight = s.flight}
    <2>1. /\ Cardinality({t \in rows : t.stopLoad}) > 0
          /\ Cardinality({t \in ToSet(list) : t.stopLoad}) > 0
      BY <1>1, <1>3, CountPositive
    <2>2. flights(list)[s.flight].stopLoadCount = Cardinality({t \in rows : t.stopLoad})
      BY DEF flights, Shipments, CountOf
    <2>3. aiOpsContext({}, list).stopLoadCargo = Cardinality({t \in ToSet(list) : t.stopLoad})
      BY DEF aiOpsContext, Summary, Shipments, CountOf
    <2>4. QED
      BY <2>1, <2>2, <2>3
  <1>4. ASSUME s.riskLevel # "LOW", NEW x \in ToSet(aiOpsContext({}, list).highestRiskCargo)
        PROVE  x.riskScore >= s.riskScore
    <2> DEFINE rows == {t \in ToSet(list) : t.riskLevel # "LOW"}
               key == [t \in rows |-> t.riskScore]
    <2>1. IsFiniteSet(rows) /\ (\A t \in rows : key[t] \in Nat) /\ s \in rows
      <3>1. IsFiniteSet(rows) /\ s \in rows /\ rows \subseteq ToSet(list)
        BY <1>1, <1>4, FS_Subset
      <3>2. ASSUME NEW t \in rows PROVE key[t] \in Nat
        <4>1. t.riskScore \in 0 .. 100
          BY <3>1
        <4>2. key[t] = t.riskScore
          OBVIOUS
        <4>3. t.riskScore \in Nat
          BY <4>1, ScoreIsNatural
        <4>4. QED
          BY <4>2, <4>3
      <3>3. QED
        BY <3>1, <3>2
    <2>2. x \in ToSet(Slice(Slice(sortedBy(rows, key), 10), 1))
      BY <1>4 DEF aiOpsContext, highRisk, Shipments
    <2> HIDE DEF rows, key
    <2>3. x \in rows /\ key[x] >= key[s]
      BY <2>1, <2>2, HighestFirst
    <2>4. QED
      BY <2>1, <2>3 DEF key
  <1>5. ASSUME NEW x \in ToSet(highestTheftRisk(list))
        PROVE  theftRisk(x) >= theftRisk(s)
    <2> DEFINE rows == ToSet(list)
               key == [t \in rows |-> theftRisk(t)]
    <2>1. IsFiniteSet(rows) /\ (\A t \in rows : key[t] \in Nat)
      <3>1. ASSUME NEW t \in ToSet(list) PROVE theftRisk(t) \in Nat
        <4>1. t.riskScore \in 0 .. 100
          OBVIOUS
        <4>2. t.riskScore + (IF t.lastAction = "CargoMissing" THEN 15 ELSE 0) \in Nat
          BY <4>1, ScoreIsNatural
        <4>3. QED
          BY <4>2 DEF theftRisk
      <3>2. QED
        BY <1>1, <3>1
    <2>2. x \in ToSet(Slice(sortedBy(rows, key), 1))
      BY <1>5 DEF highestTheftRisk, Shipments
    <2>3. Slice(Slice(sortedBy(rows, key), 1), 1) = Slice(sortedBy(rows, key), 1)
      <3>1. sortedBy(rows, key) \in Seq(rows)
        <4> HIDE DEF key
        <4>1. QED
          BY <2>1, SortedRows
      <3> HIDE DEF key, rows
      <3>2. QED
        BY <3>1 DEF Slice
    <2> HIDE DEF key
    <2>4. x \in rows /\ key[x] >= key[s]
      BY <2>1, <2>2, <2>3, HighestFirst
    <2>5. QED
      BY <2>4 DEF key
  <1>6. QED
    BY <1>2, <1>3, <1>4, <1>5 DEF ShownAs

\* A row that names a handler is all it takes for the handler to be shown.
LEMMA RowShowsHandler ==
    ASSUME NEW handler, NEW c, NEW s \in ToSet(view.list),
           s.cargoId = c, handler \in s.touchedBy
    PROVE  HandlerShown(handler, c)
  <1> DEFINE parties == stakeholders(view.tasks, view.list)
             edge == [type |-> "HANDLED_BY", from |-> cargoNode(s).id, to |-> <<"actor", handler>>]
  <1>1. handler \in DOMAIN parties /\ c \in parties[handler].cargoIds
    BY DEF stakeholders, Shipments
  <1>2. handler \in partiesWithCustody(parties)
    BY <1>1 DEF partiesWithCustody
  <1>3. edge \in graphEdges(view.list)
    <2>1. edge \in {[type |-> "HANDLED_BY", from |-> cargoNode(s).id, to |-> <<"actor", actor>>] :
                        actor \in s.touchedBy}
      OBVIOUS
    <2> DEFINE edges(t) ==
          {[type |-> "ASSIGNED_TO_FLIGHT", from |-> cargoNode(t).id, to |-> <<"flight", t.flight>>],
           [type |-> "LOCATED_AT", from |-> cargoNode(t).id, to |-> <<"location", t.currentLocation>>]}
          \cup {[type |-> "HANDLED_BY", from |-> cargoNode(t).id, to |-> <<"actor", actor>>] :
                   actor \in t.touchedBy}
    <2>2. graphEdges(view.list) = UNION {edges(t) : t \in ToSet(view.list)}
      BY DEF graphEdges, Shipments
    <2>3. edge \in edges(s)
      BY <2>1
    <2> HIDE DEF edges, edge
    <2>4. QED
      BY <2>2, <2>3
  <1>4. edge.from = <<"cargo", c>> /\ edge.to = <<"actor", handler>>
    BY DEF cargoNode
  <1>5. <<"actor", handler>> \in graphNodes(view.list)
    BY <1>3, <1>4 DEF graphNodes
  <1>6. QED
    BY <1>1, <1>2, <1>3, <1>4, <1>5 DEF HandlerShown

(***************************************************************************)
(* Types.  A state that is stored, or was read, was reported by a request; *)
(* everyone who touched it reported on its cargo.                          *)
(***************************************************************************)
Row ==
    [cargoId : Cargo, flight : {flightOf[c] : c \in Cargo},
     currentLocation : {locationOf[r] : r \in Requests},
     currentTeam : {teamOf[r] : r \in Requests},
     touchedBy : SUBSET {handlerOf[r] : r \in Requests},
     lastUpdatedAt : Nat, lastAction : CARGO_EVENTS \cup {NoAction},
     currentStatus : {normalizeCargoStatus(a) : a \in CARGO_EVENTS \cup {NoAction}},
     riskScore : 0 .. 100, riskLevel : {"HIGH", "MEDIUM", "LOW"},
     chainBroken : BOOLEAN, stopLoad : BOOLEAN, currentCustodian : Requests]

Fields == {"kind", "stage", "cargo", "before", "epoch", "alerts", "tasks", "list", "state",
           "history", "link", "markers"}

ViewShape ==
    /\ DOMAIN view = Fields
    /\ view.kind \in ListViews \cup StateViews \cup {"none", "video", "replay"}
    /\ view.stage \in ReadStages \cup {"idle", "answered"}
    /\ view.before \subseteq Requests
    /\ view.list \in Seq(Row)
    /\ view.state \in State

\* A view on one cargo names it; only those come to the stages on one cargo.
ViewKinds ==
    /\ view.kind \in StateViews \cup {"video", "replay"} => view.cargo \in Cargo
    /\ view.stage \in {"alerts", "list", "listLedger"} => view.kind \in ListViews
    /\ view.stage = "alerts" => view.kind # "control-center"
    /\ view.stage \in {"state", "load", "fill"} => view.kind \in StateViews
    /\ view.stage = "evidence" => view.kind \in {"video", "replay"}
    /\ view.stage \in {"history", "historyLedger"} =>
          view.kind \in {"live-events", "chain-of-custody", "video", "replay"}

ViewTypeOK == ViewShape /\ ViewKinds

Genuine(c, s) ==
    /\ s # NoState => s.custodian \in Requests
    /\ \A q \in s.touched : q \in Requests /\ pc[q] # "idle" /\ cargoOf(q) = c

GenuineInv ==
    /\ \A c \in Cargo : Genuine(c, redisState[c]) /\ Genuine(c, ledgerState[c])
    /\ \A r \in Requests :
          IF pc[r] = "idle" THEN prev[r] = NoState ELSE Genuine(cargoOf(r), prev[r])
    /\ view.kind \in StateViews => Genuine(view.cargo, view.state)

LEMMA ShipmentType ==
    ASSUME TypeInv, NEW c \in Cargo, NEW s \in State, s.custodian \in Requests
    PROVE  Shipment(c, s) \in Row
  <1>1. /\ flightOf[c] \in {flightOf[d] : d \in Cargo}
        /\ locationOf[s.custodian] \in {locationOf[r] : r \in Requests}
        /\ teamOf[s.custodian] \in {teamOf[r] : r \in Requests}
    OBVIOUS
  <1>2. {handlerOf[r] : r \in s.touched} \in SUBSET {handlerOf[r] : r \in Requests}
    BY DEF State
  <1>3. body[s.custodian].at \in Nat
    BY DEF TypeInv, TypeOK, Payload
  <1>4. /\ s.action \in CARGO_EVENTS \cup {NoAction} /\ s.risk \in 0 .. 100
        /\ s.chainBroken \in BOOLEAN /\ s.stopLoad \in BOOLEAN
    BY DEF State
  <1>5. /\ normalizeCargoStatus(s.action)
              \in {normalizeCargoStatus(a) : a \in CARGO_EVENTS \cup {NoAction}}
        /\ riskLevel(s.risk) \in {"HIGH", "MEDIUM", "LOW"}
    BY <1>4 DEF riskLevel
  <1>6. QED
    BY <1>1, <1>2, <1>3, <1>4, <1>5 DEF Shipment, Row

\* The index as a list: a row for every cargo there is a state of.
LEMMA ListOfRows ==
    ASSUME TypeInv, NEW states \in [Cargo -> State],
           \A c \in Cargo : states[c] # NoState => states[c].custodian \in Requests
    PROVE  LET list == newestFirst(rowsOf(states)) IN
           list \in Seq(Row) /\ ToSet(list) = rowsOf(states)
  <1> DEFINE cargos == {c \in Cargo : states[c] # NoState}
             row == [c \in cargos |-> Shipment(c, states[c])]
             rows == rowsOf(states)
             key == [s \in rows |-> s.lastUpdatedAt]
  <1>1. rows = {Shipment(c, states[c]) : c \in cargos}
    BY DEF rowsOf
  <1>2. rows \subseteq Row
    BY <1>1, ShipmentType
  <1>3. IsFiniteSet(rows)
    <2>1. IsFiniteSet(cargos)
      BY ViewBoundsAssumption, FS_Subset
    <2>2. row \in Surjection(cargos, rows)
      BY <1>1 DEF Surjection
    <2> HIDE DEF cargos, row, rows
    <2>3. QED
      BY <2>1, <2>2, FS_Surjection
  <1>4. \A s \in rows : key[s] \in Nat
    <2>1. \A s \in Row : s.lastUpdatedAt \in Nat
      BY DEF Row
    <2> HIDE DEF rows
    <2>2. QED
      BY <1>2, <2>1
  <1>5. newestFirst(rows) = sortedBy(rows, key)
    BY DEF newestFirst
  <1> HIDE DEF rows, key
  <1>6. sortedBy(rows, key) \in Seq(rows) /\ ToSet(sortedBy(rows, key)) = rows
    BY <1>3, <1>4, SortedRows
  <1>7. sortedBy(rows, key) \in Seq(Row)
    BY <1>2, <1>6
  <1>8. QED
    BY <1>5, <1>6, <1>7 DEF rows

Look ==
    /\ UNCHANGED vars
    /\ \/ \E r \in Requests : OpenReplay(r)
       \/ \E kind \in ListViews : Ask(kind, NoCargo)
       \/ \E kind \in StateViews \cup {"video"}, c \in Cargo : Ask(kind, c)
       \/ ReadAlerts \/ ReadIndex \/ ReadLedgerList \/ ReadState \/ ReadLedgerState
       \/ ReadEvidence \/ ReadReplayEvidence \/ ReadHistory \/ ReadLedgerHistory

\* A step of the composition is one of CargoCustody, or of a view; and of
\* those only the write-back touches a store.
LEMMA ViewSteps ==
    ASSUME [NextWithViews]_allVars
    PROVE  \/ \E r \in Requests : BeginRequest(r)
           \/ \E r \in Requests : StepRequest(r)
           \/ CrashServer
           \/ WriteBack
           \/ Look
           \/ UNCHANGED allVars
  <1>1. CASE NextWithViews
    <2>1. (\E r \in Requests : OpenReplay(r)) => Look
      BY DEF OpenReplay, Look
    <2>2. (\E kind \in ListViews : Ask(kind, NoCargo)) => Look
      BY DEF Ask, Look
    <2>3. (\E kind \in StateViews \cup {"video"}, c \in Cargo : Ask(kind, c)) => Look
      BY DEF Ask, Look
    <2>4. ViewStep => WriteBack \/ Look
      BY DEF ViewStep, Look, ReadAlerts, ReadIndex, ReadLedgerList, ReadState, ReadLedgerState,
             ReadEvidence, ReadReplayEvidence, ReadHistory, ReadLedgerHistory
    <2>5. AllFinished => UNCHANGED allVars
      BY DEF AllFinished, Finished, allVars
    <2>6. QED
      BY <1>1, <2>1, <2>2, <2>3, <2>4, <2>5 DEF NextWithViews
  <1>2. QED
    BY <1>1

LEMMA CustodySteps ==
    ASSUME [NextWithViews]_allVars PROVE [Next]_vars \/ WriteBack
  <1>1. \A r \in Requests : BeginRequest(r) => Next
    BY DEF BeginRequest, Next
  <1>2. \A r \in Requests : StepRequest(r) => Next
    BY DEF StepRequest, Next
  <1>3. CrashServer => Next
    BY DEF CrashServer, Next
  <1>4. QED
    BY <1>1, <1>2, <1>3, ViewSteps DEF Look, allVars

(***************************************************************************)
(* What each step makes of a view.  A read leaves what was asked for alone.*)
(***************************************************************************)
Asked == <<view.kind, view.cargo, view.before, view.epoch, view.link>>

LEMMA AskFields ==
    ASSUME NEW kind, NEW c, Ask(kind, c)
    PROVE  /\ UNCHANGED <<vars, links, raced>> /\ DOMAIN view' = Fields
           /\ view'.kind = kind /\ view'.cargo = c /\ view'.epoch = epoch
           /\ view'.before = {r \in Requests : pc[r] = "done"} /\ view'.link = Nobody
           /\ view'.alerts = {} /\ view'.tasks = {} /\ view'.list = <<>>
           /\ view'.state = NoState /\ view'.history = <<>> /\ view'.markers = {}
           /\ kind = "control-center" => view'.stage = "list"
           /\ kind \in ListViews \ {"control-center"} => view'.stage = "alerts"
           /\ kind \in StateViews => view'.stage = "state"
           /\ kind = "video" => view'.stage = "evidence"
  BY DEF Ask, NoView, Fields, ListViews, StateViews

LEMMA OpenFields ==
    ASSUME NEW r, OpenReplay(r)
    PROVE  /\ UNCHANGED <<vars, links, raced>> /\ DOMAIN view' = Fields /\ r \in links
           /\ view'.kind = "replay" /\ view'.cargo = cargoOf(r) /\ view'.link = r
           /\ view'.before = {} /\ view'.alerts = {} /\ view'.tasks = {} /\ view'.list = <<>>
           /\ view'.state = NoState /\ view'.history = <<>> /\ view'.markers = {}
           /\ view'.stage = "evidence"
  BY DEF OpenReplay, NoView, Fields

LEMMA IdleFields ==
    /\ DOMAIN NoView = Fields /\ NoView.kind = "none" /\ NoView.stage = "idle"
    /\ NoView.before = {} /\ NoView.list = <<>> /\ NoView.state = NoState
    /\ NoView.cargo = NoCargo /\ NoView.alerts = {} /\ NoView.tasks = {}
  BY DEF NoView, Fields

LEMMA ListFields ==
    ASSUME DOMAIN view = Fields
    PROVE  /\ ReadAlerts =>
                 /\ UNCHANGED <<vars, links, raced>> /\ DOMAIN view' = Fields /\ UNCHANGED Asked
                 /\ view.stage = "alerts" /\ view'.stage = "list"
                 /\ view'.alerts = alerts /\ view'.tasks = tasksOf(holds)
                 /\ view'.list = view.list /\ view'.state = view.state
           /\ ReadIndex =>
                 /\ UNCHANGED <<vars, links, raced>> /\ DOMAIN view' = Fields /\ UNCHANGED Asked
                 /\ view.stage = "list"
                 /\ view'.stage = IF rowsOf(redisState) = {} THEN "listLedger" ELSE afterList
                 /\ view'.alerts = view.alerts /\ view'.tasks = view.tasks
                 /\ view'.list = newestFirst(rowsOf(redisState)) /\ view'.state = view.state
           /\ ReadLedgerList =>
                 /\ UNCHANGED <<vars, links, raced>> /\ DOMAIN view' = Fields /\ UNCHANGED Asked
                 /\ view.stage = "listLedger" /\ view'.stage = afterList
                 /\ view'.alerts = view.alerts /\ view'.tasks = view.tasks
                 /\ view'.list = newestFirst(rowsOf(ledgerState)) /\ view'.state = view.state
  BY DEF ReadAlerts, ReadIndex, ReadLedgerList, Asked, Fields

LEMMA StateFields ==
    ASSUME DOMAIN view = Fields
    PROVE  /\ ReadState =>
                 /\ UNCHANGED <<vars, links, raced>> /\ DOMAIN view' = Fields /\ UNCHANGED Asked
                 /\ view.stage = "state" /\ view'.list = view.list
                 /\ view'.state = redisState[view.cargo]
                 /\ view'.stage = IF redisState[view.cargo] = NoState THEN "load"
                                  ELSE IF view.kind = "risk" THEN "answered" ELSE "history"
           /\ ReadLedgerState =>
                 /\ UNCHANGED <<vars, links>> /\ DOMAIN view' = Fields /\ UNCHANGED Asked
                 /\ view.stage = "load" /\ view'.list = view.list
                 /\ view'.state = ledgerState[view.cargo]
                 /\ view'.stage = IF ledgerState[view.cargo] # NoState THEN "fill"
                                  ELSE IF view.kind = "risk" THEN "answered" ELSE "history"
                 /\ raced' = IF ledgerState[view.cargo] = NoState THEN raced
                             ELSE raced \cup {r \in InFlight : cargoOf(r) = view.cargo}
           /\ WriteBack =>
                 /\ UNCHANGED <<links, raced>> /\ DOMAIN view' = Fields /\ UNCHANGED Asked
                 /\ view.stage = "fill" /\ view'.list = view.list
                 /\ view'.state = view.state
                 /\ view'.stage = IF view.kind = "risk" THEN "answered" ELSE "history"
                 /\ redisState' = [redisState EXCEPT ![view.cargo] = view.state]
                 /\ UNCHANGED <<requestVars, redisLedger, alerts, holds, durableVars, ghostVars>>
  BY DEF ReadState, ReadLedgerState, WriteBack, Asked, Fields

LEMMA EvidenceFields ==
    ASSUME DOMAIN view = Fields
    PROVE  /\ ReadEvidence =>
                 /\ UNCHANGED <<vars, raced>> /\ DOMAIN view' = Fields /\ UNCHANGED Asked
                 /\ view.stage = "evidence" /\ view.kind = "video"
                 /\ view'.list = view.list /\ view'.state = view.state
                 /\ view'.stage = IF {r \in evidence : cargoOf(r) = view.cargo} = {}
                                  THEN "history" ELSE "answered"
                 /\ links' = links \cup {r \in evidence : cargoOf(r) = view.cargo}
           /\ ReadReplayEvidence =>
                 /\ UNCHANGED <<vars, links, raced>> /\ DOMAIN view' = Fields /\ UNCHANGED Asked
                 /\ view.stage = "evidence" /\ view.kind = "replay"
                 /\ view'.list = view.list /\ view'.state = view.state
                 /\ view.link \in evidence =>
                       view'.stage = "answered" /\ view'.markers = storedMarkers(view.link)
                 /\ view.link \notin evidence => view'.stage = "history"
  BY DEF ReadEvidence, ReadReplayEvidence, Asked, Fields

\* The histories an answer shows: of every cargo, its list in Redis or, when
\* that was empty, its rows in the ledger store.
cachedHistory == [c \in historyOf |-> idsOf(redisLedger[c])]

loadedHistory ==
    [c \in DOMAIN view.history |->
        IF view.history[c] # <<>> THEN view.history[c] ELSE ledgerHistory(c)]

AnswerFields(histories) ==
    LET ids == UNION {ToSet(histories[c]) : c \in DOMAIN histories} IN
    /\ view'.history = histories /\ view'.stage = "answered"
    /\ view'.markers = IF view.kind = "replay" /\ view.link \in ids
                       THEN markersOf(view.link) ELSE {}
    /\ links' = IF view.kind = "video" THEN links \cup {r \in ids : body[r].media} ELSE links

LEMMA HistoryFields ==
    ASSUME DOMAIN view = Fields
    PROVE  /\ ReadHistory =>
                 /\ UNCHANGED <<vars, raced>> /\ DOMAIN view' = Fields /\ UNCHANGED Asked
                 /\ view.stage = "history"
                 /\ view'.list = view.list /\ view'.state = view.state
                 /\ IF \A c \in historyOf : cachedHistory[c] # <<>>
                    THEN AnswerFields(cachedHistory)
                    ELSE /\ view'.history = cachedHistory /\ view'.stage = "historyLedger"
                         /\ links' = links
           /\ ReadLedgerHistory =>
                 /\ UNCHANGED <<vars, raced>> /\ DOMAIN view' = Fields /\ UNCHANGED Asked
                 /\ view.stage = "historyLedger"
                 /\ view'.list = view.list /\ view'.state = view.state
                 /\ AnswerFields(loadedHistory)
  <1>1. ASSUME NEW histories, Answer(histories)
        PROVE  /\ AnswerFields(histories) /\ DOMAIN view' = Fields /\ UNCHANGED Asked
               /\ view'.list = view.list /\ view'.state = view.state
    BY <1>1 DEF Answer, AnswerFields, Asked, Fields
  <1>2. CASE ReadHistory
    <2>1. CASE \A c \in historyOf : cachedHistory[c] # <<>>
      <3>1. Answer(cachedHistory) /\ UNCHANGED <<vars, raced>> /\ view.stage = "history"
        BY <1>2, <2>1 DEF ReadHistory, cachedHistory
      <3>2. ReadLedgerHistory => FALSE
        BY <3>1 DEF ReadLedgerHistory
      <3>3. QED
        BY <1>1, <2>1, <3>1, <3>2
    <2>2. CASE ~ \A c \in historyOf : cachedHistory[c] # <<>>
      <3>1. /\ view' = [view EXCEPT !.history = cachedHistory, !.stage = "historyLedger"]
            /\ UNCHANGED <<vars, raced, links>> /\ view.stage = "history"
        BY <1>2, <2>2 DEF ReadHistory, cachedHistory
      <3>2. ReadLedgerHistory => FALSE
        BY <3>1 DEF ReadLedgerHistory
      <3>3. QED
        BY <2>2, <3>1, <3>2 DEF Asked, Fields
    <2>3. QED
      BY <2>1, <2>2
  <1>3. CASE ReadLedgerHistory
    <2>1. Answer(loadedHistory) /\ UNCHANGED <<vars, raced>> /\ view.stage = "historyLedger"
      BY <1>3 DEF ReadLedgerHistory, loadedHistory
    <2>2. ReadHistory => FALSE
      BY <2>1 DEF ReadHistory
    <2>3. QED
      BY <1>1, <2>1, <2>2
  <1>4. QED
    BY <1>2, <1>3

(***************************************************************************)
(* What was pushed.  An event that was pushed stays what it is; the list   *)
(* of Redis has those of this Redis incarnation, each once, but for what   *)
(* is trimmed from a list that is full.                                    *)
(***************************************************************************)
Recorded(r) ==
    /\ r \in Requests /\ pc[r] \in PastPush
    /\ event[r].id = r /\ event[r] \in pushed[cargoOf(r)]

InList(c, e) == \E i \in DOMAIN redisLedger[c] : redisLedger[c][i] = e

ListInv ==
    \A c \in Cargo :
        /\ Len(redisLedger[c]) <= Retention
        /\ \A i \in DOMAIN redisLedger[c] :
              redisLedger[c][i] \in pushed[c] /\ redisLedger[c][i].epoch = epoch
        /\ \A i, j \in DOMAIN redisLedger[c] :
              redisLedger[c][i].id = redisLedger[c][j].id => i = j
        /\ \A e \in pushed[c] : e.epoch = epoch => InList(c, e) \/ MayBeTrimmed(c)

Traced ==
    /\ \A c \in Cargo : \A e \in pushed[c] : event[e.id] = e /\ Recorded(e.id) /\ cargoOf(e.id) = c
    /\ \A r \in Requests :
          /\ pc[r] \in Built \ {"push"} => Recorded(r)
          /\ pc[r] \in Built \ {"done"} => event[r].epoch = epoch
    /\ \A r \in evidence : Recorded(r)
    /\ \A c \in Cargo : IsFiniteSet(ledger[c])

TrailInv == ListInv /\ Traced

LEMMA TrailInit == Init => TrailInv
  BY RetentionAssumption, FS_EmptySet DEF Init, TrailInv, ListInv, Traced, Built

\* A step that is not a push leaves the lists alone.
LEMMA TrailSteps ==
    ASSUME TypeInv, NEW r \in Requests, Step(r), ~PushEvent(r)
    PROVE  /\ UNCHANGED <<redisLedger, pushed, epoch, body>>
           /\ GetLatestEvent(r) \/ UNCHANGED event
           /\ \A q \in Requests \ {r} : pc'[q] = pc[q] /\ event'[q] = event[q]
           /\ pc[r] \in PastPush => pc'[r] \in PastPush
           /\ pc'[r] \in Built \ {"push"} => pc[r] \in Built \ {"push", "done"}
           /\ pc'[r] = "push" => GetLatestEvent(r)
           /\ evidence' = evidence \/ (pc[r] = "evidence" /\ evidence' = evidence \cup {r})
           /\ ledger' = ledger
              \/ ledger' = [ledger EXCEPT ![cargoOf(r)] = @ \cup {event[r]}]
  <1> USE DEF GoTo, PastPush, Built, TypeInv, TypeOK, redisVars, durableVars, ghostVars
  <1>1. CASE \/ GetState(r, "get1", "load1", "decide") \/ LoadState(r, "load1", "fill1", "decide")
             \/ FillState(r, "fill1", "decide") \/ Decide(r)
             \/ GetState(r, "get2", "load2", "latest") \/ LoadState(r, "load2", "fill2", "latest")
             \/ FillState(r, "fill2", "latest")
    BY <1>1 DEF GetState, LoadState, FillState, Decide
  <1>2. CASE GetLatestEvent(r)
    BY <1>2 DEF GetLatestEvent
  <1>3. CASE InsertEvent(r) \/ SaveEvidence(r)
    BY <1>3 DEF InsertEvent, SaveEvidence
  <1>4. CASE \/ SetState(r) \/ UpsertState(r) \/ LogEvent(r) \/ AppendAlert(r)
             \/ OrchestrateCargoIncident(r) \/ LogIncident(r)
    BY <1>4 DEF SetState, UpsertState, LogEvent, AppendAlert, OrchestrateCargoIncident, LogIncident
  <1>5. QED
    BY <1>1, <1>2, <1>3, <1>4 DEF Step


LEMMA BeginFrame ==
    ASSUME TypeInv, NEW r \in Requests, Begin(r)
    PROVE  /\ pc[r] = "idle" /\ pc'[r] \in {"get1", "get2"}
           /\ \A q \in Requests \ {r} : pc'[q] = pc[q] /\ body'[q] = body[q]
           /\ UNCHANGED <<prev, event, redisLedger, redisState, alerts, holds, ledger,
                          ledgerState, evidence, epoch, pushed>>
           /\ overlap' = overlap \cup ({r} \X InFlight) \cup (InFlight \X {r})
  BY DEF Begin, GoTo, redisVars, durableVars, TypeInv, TypeOK

LEMMA CrashFrame ==
    ASSUME TypeInv, Crash
    PROVE  /\ \A r \in Requests : pc'[r] = pc[r] \/ (pc[r] \in Stages /\ pc'[r] = "aborted")
           /\ \A r \in Requests : pc'[r] \notin Stages
           /\ UNCHANGED <<body, prev, event, pushed, overlap>>
           /\ LoseRedis \/ UNCHANGED <<redisLedger, redisState, alerts, holds, epoch>>
           /\ \/ LedgerMayBeLost /\ LoseLedger
              \/ UNCHANGED <<ledger, ledgerState, evidence>>
  BY DEF Crash, InFlight, Stages, redisVars, durableVars, TypeInv, TypeOK

LEMMA PushedList ==
    ASSUME NEW S, NEW e \in S, NEW events \in Seq(S), Len(events) <= Retention
    PROVE  LET list == Trim(<<e>> \o events) IN
           /\ list \in Seq(S) /\ Len(list) \in 1 .. Retention /\ list[1] = e
           /\ Len(list) <= Len(events) + 1
           /\ \A i \in 2 .. Len(list) : list[i] = events[i - 1]
           /\ Len(list) = Len(events) + 1 \/ (Len(events) = Retention /\ Len(list) = Retention)
  <1> DEFINE all == <<e>> \o events
  <1>1. /\ all \in Seq(S) /\ Len(all) = 1 + Len(events) /\ all[1] = e
        /\ \A i \in 2 .. Len(all) : all[i] = events[i - 1]
    OBVIOUS
  <1>2. CASE Len(all) > Retention
    <2>1. /\ SubSeq(all, 1, Retention) \in Seq(S)
          /\ Len(SubSeq(all, 1, Retention)) = Retention
          /\ \A i \in 1 .. Retention : SubSeq(all, 1, Retention)[i] = all[i]
      BY <1>1, <1>2, RetentionAssumption
    <2> HIDE DEF all
    <2>2. QED
      BY <1>1, <1>2, <2>1, RetentionAssumption DEF Trim, all
  <1>3. CASE ~(Len(all) > Retention)
    <2> DEFINE list == Trim(<<e>> \o events)
    <2>1. list = all
      BY <1>3 DEF Trim
    <2> HIDE DEF all, list
    <2>2. /\ list \in Seq(S) /\ Len(list) \in 1 .. Retention /\ list[1] = e
          /\ Len(list) = Len(events) + 1
          /\ \A i \in 2 .. Len(list) : list[i] = events[i - 1]
      BY <1>1, <1>3, <2>1, RetentionAssumption
    <2>3. QED
      BY <2>2 DEF list
  <1>4. QED
    BY <1>2, <1>3

\* What was recorded stays.
LEMMA RecordedStays ==
    ASSUME TypeInv, [Next]_vars, NEW r, Recorded(r)
    PROVE  /\ Recorded(r)' /\ event'[r] = event[r] /\ body'[r] = body[r]
           /\ cargoOf(r)' = cargoOf(r) /\ cargoOf(r) \in Cargo
  <1> USE DEF Recorded, cargoOf
  <1>1. cargoOf(r) \in Cargo /\ r \in Requests
    BY DEF TypeInv, TypeOK, Payload
  <1>2. ASSUME NEW q \in Requests, Begin(q)
        PROVE  pc'[r] = pc[r] /\ UNCHANGED <<event, pushed>> /\ body'[r] = body[r]
    BY <1>2, BeginFrame DEF PastPush
  <1>3. ASSUME NEW q \in Requests, Step(q), ~PushEvent(q)
        PROVE  pc'[r] \in PastPush /\ UNCHANGED <<body, pushed>> /\ event'[r] = event[r]
    BY <1>3, TrailSteps DEF GetLatestEvent, PastPush
  <1>4. ASSUME NEW q \in Requests, PushEvent(q)
        PROVE  /\ pc'[r] = pc[r] /\ UNCHANGED <<body, event>>
               /\ pushed[cargoOf(r)] \subseteq pushed'[cargoOf(r)]
    BY <1>1, <1>4 DEF PushEvent, GoTo, PastPush, TypeInv, TypeOK
  <1>5. ASSUME Crash
        PROVE  pc'[r] \in PastPush /\ UNCHANGED <<body, event, pushed>>
    BY <1>1, <1>5, CrashFrame DEF PastPush
  <1>6. CASE UNCHANGED vars
    BY <1>1, <1>6 DEF vars, requestVars, ghostVars
  <1>7. QED
    BY <1>1, <1>2, <1>3, <1>4, <1>5, <1>6 DEF Next, Step, Finished

LEMMA TrailStep == TypeInv /\ ForkInv /\ TrailInv /\ [Next]_vars => TrailInv'
  <1> SUFFICES ASSUME TypeInv, ForkInv, TrailInv, [Next]_vars PROVE TrailInv'
    OBVIOUS
  <1>1. \A r : Recorded(r) => Recorded(r)' /\ event'[r] = event[r] /\ cargoOf(r)' = cargoOf(r)
    BY RecordedStays
  <1>2. \A c \in Cargo : pushed[c] \in SUBSET Event /\ redisLedger[c] \in Seq(Event)
    BY DEF TypeInv, TypeOK
  <1>3. CASE UNCHANGED <<redisLedger, pushed, epoch>>
    <2>1. ListInv'
      BY <1>3 DEF TrailInv, ListInv, InList, MayBeTrimmed
    <2>2. \A c \in Cargo : \A e \in pushed'[c] :
              event'[e.id] = e /\ Recorded(e.id)' /\ cargoOf(e.id)' = c
      BY <1>1, <1>3 DEF TrailInv, Traced
    <2>3. ASSUME NEW r \in Requests, Begin(r) PROVE TrailInv'
      <3>1. \A q \in Requests : pc'[q] \in Built => pc'[q] = pc[q] /\ event'[q] = event[q]
        BY <2>3, BeginFrame DEF Built
      <3>2. evidence' = evidence /\ ledger' = ledger
        BY <2>3, BeginFrame
      <3>3. Traced'
        BY <1>1, <1>3, <2>2, <3>1, <3>2 DEF TrailInv, Traced
      <3>4. QED
        BY <2>1, <3>3 DEF TrailInv
    <2>4. ASSUME NEW r \in Requests, Step(r), ~PushEvent(r) PROVE TrailInv'
      <3>1. \A q \in Requests : pc'[q] \in Built \ {"push"} => Recorded(q)'
        <4>1. \A q \in Requests : pc'[q] \in Built \ {"push"} => pc[q] \in Built \ {"push"}
          BY <2>4, TrailSteps
        <4>2. QED
          BY <1>1, <4>1 DEF TrailInv, Traced
      <3>2. \A q \in Requests : pc'[q] \in Built \ {"done"} => event'[q].epoch = epoch'
        <4>1. \A q \in Requests \ {r} : pc'[q] = pc[q] /\ event'[q] = event[q]
          BY <2>4, TrailSteps
        <4>2. CASE GetLatestEvent(r)
          <5>1. event'[r].epoch = epoch
            BY <4>2 DEF GetLatestEvent, TypeInv, TypeOK
          <5>2. QED
            BY <1>3, <4>1, <5>1 DEF TrailInv, Traced
        <4>3. CASE ~GetLatestEvent(r)
          <5>1. UNCHANGED event /\ pc'[r] # "push"
                /\ (pc'[r] \in Built \ {"push"} => pc[r] \in Built \ {"push", "done"})
            BY <2>4, <4>3, TrailSteps
          <5>2. QED
            BY <1>3, <4>1, <5>1 DEF TrailInv, Traced
        <4>4. QED
          BY <4>2, <4>3
      <3>3. \A q \in evidence' : Recorded(q)'
        <4>1. evidence' = evidence \/ (pc[r] = "evidence" /\ evidence' = evidence \cup {r})
          BY <2>4, TrailSteps
        <4>2. pc[r] = "evidence" => Recorded(r)
          BY DEF TrailInv, Traced, Built
        <4>3. QED
          BY <1>1, <4>1, <4>2 DEF TrailInv, Traced
      <3>4. \A c \in Cargo : IsFiniteSet(ledger'[c])
        <4>1. ledger' = ledger \/ ledger' = [ledger EXCEPT ![cargoOf(r)] = @ \cup {event[r]}]
          BY <2>4, TrailSteps
        <4>2. \A c \in Cargo : ledger'[c] = ledger[c] \/ ledger'[c] = ledger[c] \cup {event[r]}
          BY <4>1 DEF TypeInv, TypeOK
        <4>3. ASSUME NEW c \in Cargo PROVE IsFiniteSet(ledger'[c])
          <5>1. IsFiniteSet(ledger[c])
            BY DEF TrailInv, Traced
          <5>2. IsFiniteSet(ledger[c] \cup {event[r]})
            BY <5>1, FS_AddElement
          <5>3. QED
            BY <4>2, <5>1, <5>2
        <4>4. QED
          BY <4>3
      <3>5. QED
        BY <2>1, <2>2, <3>1, <3>2, <3>3, <3>4 DEF TrailInv, Traced
    <2>5. CASE UNCHANGED vars
      <3>1. UNCHANGED <<pc, event, body, evidence, ledger>>
        BY <2>5 DEF vars, requestVars, durableVars
      <3>2. Traced'
        BY <1>1, <1>3, <2>2, <3>1 DEF TrailInv, Traced
      <3>3. QED
        BY <2>1, <3>2 DEF TrailInv
    <2>6. ASSUME NEW r \in Requests, PushEvent(r) PROVE FALSE
      <3>1. event[r] \in pushed'[cargoOf(r)]
        BY <2>6 DEF PushEvent, TypeInv, TypeOK, Payload, cargoOf
      <3>2. event[r].id = r /\ pc[r] = "push"
        BY <2>6 DEF PushEvent, TypeInv, EventBuilt, Built
      <3>3. QED
        BY <1>3, <3>1, <3>2 DEF TrailInv, Traced, Recorded, PastPush, TypeInv, TypeOK, Payload, cargoOf
    <2>7. CASE Crash
      <3>1. \A q \in Requests : pc'[q] \in Built => pc'[q] = pc[q] /\ event'[q] = event[q]
        BY <2>7, CrashFrame DEF Built
      <3>2. \/ evidence' = evidence /\ ledger' = ledger
            \/ evidence' = {} /\ ledger' = [c \in Cargo |-> {}]
        BY <2>7, CrashFrame DEF LoseLedger
      <3>3. Traced'
        BY <1>1, <1>3, <2>2, <3>1, <3>2, FS_EmptySet DEF TrailInv, Traced
      <3>4. QED
        BY <2>1, <3>3 DEF TrailInv
    <2>8. QED
      BY <2>3, <2>4, <2>5, <2>6, <2>7 DEF Next, Step, Finished
  <1>4. ASSUME NEW r \in Requests, PushEvent(r) PROVE TrailInv'
    <2> DEFINE d == cargoOf(r)
               list == redisLedger[d]
               longer == Trim(<<event[r]>> \o list)
    <2>1. /\ pc[r] = "push" /\ pc' = [pc EXCEPT ![r] = "insert"] /\ d \in Cargo
          /\ redisLedger' = [redisLedger EXCEPT ![d] = longer]
          /\ pushed' = [pushed EXCEPT ![d] = @ \cup {event[r]}]
          /\ UNCHANGED <<event, body, epoch, evidence, ledger>>
      BY <1>4 DEF PushEvent, GoTo, durableVars, TypeInv, TypeOK, Payload, cargoOf
    <2>2. event[r] \in Event /\ event[r].id = r /\ event[r].epoch = epoch
      BY <2>1 DEF TypeInv, EventBuilt, Built, TrailInv, Traced
    <2>3. /\ redisLedger'[d] = longer
          /\ \A c \in Cargo \ {d} : redisLedger'[c] = redisLedger[c] /\ pushed'[c] = pushed[c]
          /\ pushed'[d] = pushed[d] \cup {event[r]}
      BY <2>1 DEF TypeInv, TypeOK
    <2>4. /\ longer \in Seq(Event) /\ Len(longer) \in 1 .. Retention /\ longer[1] = event[r]
          /\ Len(longer) <= Len(list) + 1
          /\ \A i \in 2 .. Len(longer) : longer[i] = list[i - 1]
          /\ Len(longer) = Len(list) + 1 \/ (Len(list) = Retention /\ Len(longer) = Retention)
      BY <1>2, <2>1, <2>2, PushedList DEF TrailInv, ListInv
    <2>5. \A e \in pushed[d] : e.id # r
      BY <2>1 DEF TrailInv, Traced, Recorded, PastPush
    <2>6. \A i \in 2 .. Len(longer) : i - 1 \in DOMAIN list
      BY <1>2, <2>1, <2>4
    <2>7. ASSUME NEW c \in Cargo
          PROVE  /\ Len(redisLedger'[c]) <= Retention
                 /\ \A i \in DOMAIN redisLedger'[c] :
                       redisLedger'[c][i] \in pushed'[c] /\ redisLedger'[c][i].epoch = epoch'
                 /\ \A i, j \in DOMAIN redisLedger'[c] :
                       redisLedger'[c][i].id = redisLedger'[c][j].id => i = j
                 /\ \A e \in pushed'[c] : e.epoch = epoch' => InList(c, e)' \/ MayBeTrimmed(c)'
      <3>1. CASE c # d
        BY <2>1, <2>3, <3>1 DEF TrailInv, ListInv, InList, MayBeTrimmed
      <3>2. CASE c = d
        <4>1. Len(longer) <= Retention /\ DOMAIN longer = 1 .. Len(longer)
          BY <2>4, RetentionAssumption
        <4>2. ASSUME NEW i \in DOMAIN longer
              PROVE  longer[i] \in pushed'[d] /\ longer[i].epoch = epoch'
          BY <2>1, <2>2, <2>3, <2>4, <2>6, <4>1 DEF TrailInv, ListInv
        <4>3. ASSUME NEW i \in DOMAIN longer, NEW j \in DOMAIN longer, longer[i].id = longer[j].id
              PROVE  i = j
          <5>1. \A k \in 2 .. Len(longer) : longer[k].id # r
            BY <2>1, <2>4, <2>5, <2>6 DEF TrailInv, ListInv
          <5>2. CASE i = 1 \/ j = 1
            BY <2>2, <2>4, <4>1, <4>3, <5>1, <5>2
          <5>3. CASE i # 1 /\ j # 1
            <6>1. i \in 2 .. Len(longer) /\ j \in 2 .. Len(longer)
              BY <4>1, <5>3
            <6>2. i - 1 = j - 1
              BY <2>1, <2>4, <2>6, <4>3, <6>1 DEF TrailInv, ListInv
            <6>3. QED
              BY <6>1, <6>2
          <5>4. QED
            BY <5>2, <5>3
        <4>4. ASSUME NEW e \in pushed'[d], e.epoch = epoch', Len(longer) # Retention
              PROVE  \E i \in DOMAIN longer : longer[i] = e
          <5>1. Len(longer) = Len(list) + 1 /\ Len(list) # Retention
            BY <1>2, <2>1, <2>4, <4>4, RetentionAssumption DEF TrailInv, ListInv
          <5>2. CASE e = event[r]
            BY <2>4, <4>1, <5>2
          <5>3. CASE e \in pushed[d]
            <6>1. PICK i \in DOMAIN list : list[i] = e
              BY <2>1, <4>4, <5>1, <5>3 DEF TrailInv, ListInv, InList, MayBeTrimmed
            <6>2. i + 1 \in 2 .. Len(longer)
              BY <1>2, <2>1, <5>1, <6>1
            <6>3. longer[i + 1] = e
              BY <1>2, <2>1, <2>4, <6>1, <6>2
            <6>4. QED
              BY <4>1, <6>2, <6>3
          <5>4. QED
            BY <2>3, <5>2, <5>3
        <4>5. QED
          BY <2>3, <3>2, <4>1, <4>2, <4>3, <4>4 DEF InList, MayBeTrimmed
      <3>3. QED
        BY <3>1, <3>2
    <2>8. Recorded(r)'
      BY <2>1, <2>2, <2>3 DEF Recorded, PastPush, cargoOf, TypeInv, TypeOK
    <2>9. \A c \in Cargo : \A e \in pushed'[c] :
              event'[e.id] = e /\ Recorded(e.id)' /\ cargoOf(e.id)' = c
      <3>1. event'[r] = event[r] /\ cargoOf(r)' = d
        BY <2>1 DEF cargoOf
      <3>2. QED
        BY <1>1, <2>2, <2>3, <2>8, <3>1 DEF TrailInv, Traced
    <2>10. Traced'
      <3>1. \A q \in Requests : pc'[q] \in Built \ {"push"} => Recorded(q)'
        BY <1>1, <2>1, <2>8 DEF TrailInv, Traced, TypeInv, TypeOK
      <3>2. \A q \in Requests : pc'[q] \in Built \ {"done"} => event'[q].epoch = epoch'
        BY <2>1, <2>2 DEF TrailInv, Traced, TypeInv, TypeOK
      <3>3. QED
        BY <1>1, <2>1, <2>9, <3>1, <3>2 DEF TrailInv, Traced
    <2>11. QED
      BY <2>7, <2>10 DEF TrailInv, ListInv
  <1>5. CASE Crash
    <2>1. CASE LoseRedis
      <3>1. /\ redisLedger' = [c \in Cargo |-> <<>>] /\ epoch' = epoch + 1
            /\ UNCHANGED <<pushed, event>>
        BY <1>5, <2>1, CrashFrame DEF LoseRedis
      <3>2. \A c \in Cargo : \A e \in pushed[c] : e.epoch # epoch'
        BY <1>2, <3>1 DEF ForkInv, PushedFirst, TypeInv, TypeOK, Event
      <3>3. ListInv'
        BY <3>1, <3>2, RetentionAssumption DEF ListInv
      <3>4. \A q \in Requests : pc'[q] \in Built => pc'[q] = pc[q] /\ pc[q] = "done"
        BY <1>5, CrashFrame DEF Built, Stages
      <3>5. \/ evidence' = evidence /\ ledger' = ledger
            \/ evidence' = {} /\ ledger' = [c \in Cargo |-> {}]
        BY <1>5, CrashFrame DEF LoseLedger
      <3>6. \A c \in Cargo : IsFiniteSet(ledger'[c])
        BY <3>5, FS_EmptySet DEF TrailInv, Traced
      <3>7. \A q \in evidence' : Recorded(q)'
        BY <1>1, <3>5 DEF TrailInv, Traced
      <3>8. Traced'
        BY <1>1, <3>1, <3>4, <3>6, <3>7 DEF TrailInv, Traced
      <3>9. QED
        BY <3>3, <3>8 DEF TrailInv
    <2>2. QED
      BY <1>3, <1>5, <2>1, CrashFrame
  <1>6. QED
    <2>1. ASSUME NEW r \in Requests, Begin(r) PROVE UNCHANGED <<redisLedger, pushed, epoch>>
      BY <2>1, BeginFrame
    <2>2. ASSUME NEW r \in Requests, Step(r), ~PushEvent(r)
          PROVE  UNCHANGED <<redisLedger, pushed, epoch>>
      BY <2>2, TrailSteps
    <2>3. UNCHANGED vars => UNCHANGED <<redisLedger, pushed, epoch>>
      BY DEF vars, redisVars, ghostVars
    <2>4. QED
      BY <1>3, <1>4, <1>5, <2>1, <2>2, <2>3 DEF Next, Finished

\* The custody invariants say nothing of what a view writes back, but that it
\* is a state.
CustodyInv == TypeInv /\ ForkInv /\ GapInv /\ PlanInv /\ TrailInv

LEMMA CustodyInit == Init => CustodyInv
  BY TypeInit, ForkInit, GapInit, ReloadInit, TrailInit DEF CustodyInv, ReloadInv

LEMMA CustodyStep == CustodyInv /\ ViewTypeOK /\ [NextWithViews]_allVars => CustodyInv'
  <1> SUFFICES ASSUME CustodyInv, ViewTypeOK, [NextWithViews]_allVars PROVE CustodyInv'
    OBVIOUS
  <1>1. CASE [Next]_vars
    BY <1>1, TypeStep, ForkStep, GapStep, PlanStep, TrailStep DEF CustodyInv
  <1>2. CASE WriteBack
    <2>1. /\ redisState' = [redisState EXCEPT ![view.cargo] = view.state]
          /\ UNCHANGED <<requestVars, redisLedger, alerts, holds, durableVars, ghostVars>>
      BY <1>2 DEF WriteBack
    <2>2. view.state \in State
      BY DEF ViewTypeOK, ViewShape
    <2>3. /\ UNCHANGED <<pc, body, prev, plan, event, redisLedger, alerts, holds>>
          /\ UNCHANGED <<ledger, ledgerState, evidence, audit, crashes, epoch, pushed, overlap>>
      BY <2>1 DEF requestVars, durableVars, ghostVars
    <2>4. TypeInv'
      <3>1. TypeOK /\ EventBuilt
        BY DEF CustodyInv, TypeInv
      <3>2. redisState' \in [Cargo -> State]
        BY <2>1, <2>2, <3>1 DEF TypeOK
      <3>3. TypeOK'
        BY <2>3, <3>1, <3>2 DEF TypeOK
      <3>4. EventBuilt'
        BY <2>3, <3>1 DEF EventBuilt
      <3>5. QED
        BY <3>3, <3>4 DEF TypeInv
    <2>5. ForkInv'
      BY <2>3 DEF CustodyInv, ForkInv, InFlightOverlap, InFlight, Overlapped, PushedFirst,
                  HeadWasPushed, HeadIsUnlinked, PushReady, Forks, ForkAllowed, cargoOf
    <2>6. GapInv'
      BY <2>3 DEF CustodyInv, GapInv, PushedInOrder, AboutToWrite, Linked, Inserted, cargoOf
    <2>7. PlanInv'
      BY <2>3 DEF CustodyInv, PlanInv, OverlapStarted, Overlapped, EventFromPlan, PlanFromBody
    <2>8. TrailInv'
      BY <2>3 DEF CustodyInv, TrailInv, ListInv, InList, MayBeTrimmed, Traced, Recorded, cargoOf
    <2>9. QED
      BY <2>4, <2>5, <2>6, <2>7, <2>8 DEF CustodyInv
  <1>3. QED
    BY <1>1, <1>2, CustodySteps

\* Where a request's step takes a state from, and where it stores one.
LEMMA StoreSteps ==
    ASSUME TypeInv, NEW r \in Requests, Step(r)
    PROVE  LET c == cargoOf(r) IN
           /\ c \in Cargo /\ cargoOf(r)' = c
           /\ pc[r] \in Stages /\ pc'[r] # "idle"
           /\ \/ prev' = prev
              \/ /\ prev' = [prev EXCEPT ![r] = redisState[c]]
                 /\ pc[r] \in {"get1", "get2"} /\ UNCHANGED <<redisState, ledgerState>>
              \/ /\ prev' = [prev EXCEPT ![r] = ledgerState[c]]
                 /\ pc[r] \in {"load1", "load2"} /\ UNCHANGED <<redisState, ledgerState>>
           /\ \/ redisState' = redisState
              \/ /\ redisState' = [redisState EXCEPT ![c] = prev[r]]
                 /\ pc[r] \in {"fill1", "fill2"} /\ UNCHANGED <<prev, ledgerState>>
                 /\ pc'[r] \in {"decide", "latest"}
              \/ /\ redisState' = [redisState EXCEPT ![c] = event[r].state]
                 /\ pc[r] = "set" /\ pc'[r] = "upsert" /\ UNCHANGED <<prev, ledgerState>>
           /\ \/ ledgerState' = ledgerState
              \/ /\ ledgerState' = [ledgerState EXCEPT ![c] = event[r].state]
                 /\ pc[r] = "upsert" /\ pc'[r] = "log" /\ UNCHANGED <<prev, redisState>>
  <1> USE DEF GoTo, Stages, cargoOf, TypeInv, TypeOK, Payload, redisVars, durableVars
  <1>1. CASE GetState(r, "get1", "load1", "decide") \/ GetState(r, "get2", "load2", "latest")
    BY <1>1 DEF GetState
  <1>2. CASE LoadState(r, "load1", "fill1", "decide") \/ LoadState(r, "load2", "fill2", "latest")
    BY <1>2 DEF LoadState
  <1>3. CASE FillState(r, "fill1", "decide") \/ FillState(r, "fill2", "latest")
    BY <1>3 DEF FillState
  <1>4. CASE Decide(r) \/ GetLatestEvent(r) \/ PushEvent(r)
    BY <1>4 DEF Decide, GetLatestEvent, PushEvent
  <1>5. CASE InsertEvent(r) \/ SaveEvidence(r) \/ SetState(r) \/ UpsertState(r)
    BY <1>5 DEF InsertEvent, SaveEvidence, SetState, UpsertState
  <1>6. CASE LogEvent(r) \/ AppendAlert(r) \/ OrchestrateCargoIncident(r) \/ LogIncident(r)
    BY <1>6 DEF LogEvent, AppendAlert, OrchestrateCargoIncident, LogIncident
  <1>7. QED
    BY <1>1, <1>2, <1>3, <1>4, <1>5, <1>6 DEF Step

LEMMA GenuineKept ==
    ASSUME NEW c, NEW s, Genuine(c, s),
           \A q \in Requests : pc[q] # "idle" => pc'[q] # "idle" /\ cargoOf(q)' = cargoOf(q)
    PROVE  Genuine(c, s)'
  BY DEF Genuine

LEMMA GenuineNoState == \A c : Genuine(c, NoState)
  BY DEF Genuine, NoState

\* No step forgets a request, or what it reported on.
LEMMA Started ==
    ASSUME TypeInv, [Next]_vars \/ WriteBack
    PROVE  \A q \in Requests : pc[q] # "idle" => pc'[q] # "idle" /\ cargoOf(q)' = cargoOf(q)
  <1>1. ASSUME NEW r \in Requests, Begin(r), NEW q \in Requests, pc[q] # "idle"
        PROVE  pc'[q] # "idle" /\ cargoOf(q)' = cargoOf(q)
    BY <1>1, BeginFrame DEF cargoOf
  <1>2. ASSUME NEW r \in Requests, Step(r), NEW q \in Requests, pc[q] # "idle"
        PROVE  pc'[q] # "idle" /\ cargoOf(q)' = cargoOf(q)
    BY <1>2, StepFrame DEF Frame, cargoOf
  <1>3. ASSUME Crash, NEW q \in Requests, pc[q] # "idle"
        PROVE  pc'[q] # "idle" /\ cargoOf(q)' = cargoOf(q)
    BY <1>3, CrashFrame DEF cargoOf
  <1>4. CASE WriteBack
    BY <1>4 DEF WriteBack, requestVars, cargoOf
  <1>5. CASE UNCHANGED vars
    BY <1>5 DEF vars, requestVars, cargoOf
  <1>6. QED
    BY <1>1, <1>2, <1>3, <1>4, <1>5 DEF Next, Finished

LEMMA ViewInit == InitViews => ViewTypeOK /\ GenuineInv
  <1> SUFFICES ASSUME InitViews PROVE ViewTypeOK /\ GenuineInv
    OBVIOUS
  <1>1. view = NoView /\ Init
    BY DEF InitViews
  <1>2. ViewTypeOK
    BY <1>1, IdleFields, NoStateType DEF ViewTypeOK, ViewShape, ViewKinds, ReadStages,
       StateViews, ListViews
  <1>3. GenuineInv
    BY <1>1, IdleFields, GenuineNoState DEF GenuineInv, Init, StateViews
  <1>4. QED
    BY <1>2, <1>3

LEMMA ViewTypeStep ==
    TypeInv /\ ViewTypeOK /\ GenuineInv /\ [NextWithViews]_allVars => ViewTypeOK'
  <1> SUFFICES ASSUME TypeInv, ViewTypeOK, GenuineInv, [NextWithViews]_allVars PROVE ViewTypeOK'
    OBVIOUS
  <1> USE DEF ViewTypeOK
  <1>1. CASE UNCHANGED view
    BY <1>1 DEF ViewShape, ViewKinds
  <1>2. CASE view' = NoView
    BY <1>2, IdleFields, NoStateType DEF ViewShape, ViewKinds, ReadStages, StateViews, ListViews
  <1> DEFINE Kinds1 == ListViews \cup StateViews \cup {"none", "video", "replay"}
  <1>3. ASSUME NEW kind \in ListViews, Ask(kind, NoCargo) PROVE ViewTypeOK'
    <2>1. kind = "control-center" \/ kind \in ListViews \ {"control-center"}
      OBVIOUS
    <2>2. view'.stage \in {"list", "alerts"} /\ (view'.stage = "alerts" => kind # "control-center")
      BY <1>3, <2>1, AskFields
    <2>3. view'.kind = kind /\ kind \notin StateViews \cup {"video", "replay"}
      BY <1>3, AskFields DEF ListViews, StateViews
    <2>4. ViewShape'
      <3>1. /\ DOMAIN view' = Fields /\ view'.before = {r \in Requests : pc[r] = "done"}
            /\ view'.list = <<>> /\ view'.state = NoState
        BY <1>3, AskFields
      <3>2. <<>> \in Seq(Row) /\ {r \in Requests : pc[r] = "done"} \subseteq Requests
        OBVIOUS
      <3>3. QED
        BY <2>2, <2>3, <3>1, <3>2, NoStateType DEF ViewShape, ReadStages
    <2>5. ViewKinds'
      BY <2>2, <2>3 DEF ViewKinds
    <2>6. QED
      BY <2>4, <2>5
  <1>4. ASSUME NEW kind \in StateViews \cup {"video"}, NEW c \in Cargo, Ask(kind, c)
        PROVE  ViewTypeOK'
    <2>1. /\ view'.stage \in {"state", "evidence"}
          /\ view'.stage = "state" => kind \in StateViews
          /\ view'.stage = "evidence" => kind = "video"
      BY <1>4, AskFields DEF StateViews
    <2>2. view'.kind = kind /\ view'.cargo = c
      BY <1>4, AskFields
    <2>3. ViewShape'
      <3>1. /\ DOMAIN view' = Fields /\ view'.before = {r \in Requests : pc[r] = "done"}
            /\ view'.list = <<>> /\ view'.state = NoState
        BY <1>4, AskFields
      <3>2. <<>> \in Seq(Row) /\ {r \in Requests : pc[r] = "done"} \subseteq Requests
        OBVIOUS
      <3>3. QED
        BY <2>1, <2>2, <3>1, <3>2, NoStateType DEF ViewShape, ReadStages
    <2>4. ViewKinds'
      BY <2>1, <2>2 DEF ViewKinds
    <2>5. QED
      BY <2>3, <2>4
  <1>5. ASSUME NEW r \in Requests, OpenReplay(r) PROVE ViewTypeOK'
    <2>1. cargoOf(r) \in Cargo
      BY DEF TypeInv, TypeOK, Payload, cargoOf
    <2>2. /\ DOMAIN view' = Fields /\ view'.before = {} /\ view'.kind = "replay"
          /\ view'.list = <<>> /\ view'.state = NoState /\ view'.stage = "evidence"
          /\ view'.cargo = cargoOf(r)
      BY <1>5, OpenFields
    <2>3. <<>> \in Seq(Row)
      OBVIOUS
    <2>4. ViewShape'
      BY <2>2, <2>3, NoStateType DEF ViewShape, ReadStages
    <2>5. ViewKinds'
      BY <2>1, <2>2 DEF ViewKinds, ListViews
    <2>6. QED
      BY <2>4, <2>5
  <1>6. DOMAIN view = Fields
    BY DEF ViewShape
  <1>7. CASE ReadAlerts
    BY <1>6, <1>7, ListFields DEF ViewShape, ViewKinds, ReadStages, Asked
  <1>8. ASSUME ReadIndex \/ ReadLedgerList PROVE ViewTypeOK'
    <2>1. /\ newestFirst(rowsOf(redisState)) \in Seq(Row)
          /\ newestFirst(rowsOf(ledgerState)) \in Seq(Row)
      BY ListOfRows DEF GenuineInv, Genuine, TypeInv, TypeOK
    <2>2. view.kind \in ListViews
      BY <1>8 DEF ReadIndex, ReadLedgerList, ViewKinds
    <2>3. /\ view'.stage \in {"listLedger", "answered", "history"}
          /\ view'.stage = "history" => view.kind = "live-events"
          /\ view'.list \in Seq(Row) /\ view'.state = view.state /\ DOMAIN view' = Fields
          /\ UNCHANGED Asked
      BY <1>6, <1>8, <2>1, ListFields DEF afterList
    <2>4. /\ view'.kind = view.kind /\ view'.cargo = view.cargo /\ view'.before = view.before
      BY <2>3 DEF Asked
    <2>5. ViewShape'
      BY <2>3, <2>4 DEF ViewShape, ReadStages
    <2>6. ViewKinds'
      BY <2>2, <2>3, <2>4 DEF ViewKinds
    <2>7. QED
      BY <2>5, <2>6
  <1>9. ASSUME ReadState \/ ReadLedgerState \/ WriteBack PROVE ViewTypeOK'
    <2>1. view.kind \in StateViews /\ view.cargo \in Cargo
      BY <1>9 DEF ReadState, ReadLedgerState, WriteBack, ViewKinds
    <2>2. redisState[view.cargo] \in State /\ ledgerState[view.cargo] \in State
      BY <2>1 DEF TypeInv, TypeOK
    <2>3. /\ view'.stage \in {"load", "fill", "answered", "history"}
          /\ view'.stage = "history" => view.kind # "risk"
          /\ view'.list = view.list /\ DOMAIN view' = Fields /\ UNCHANGED Asked
          /\ view'.state \in State
      BY <1>6, <1>9, <2>2, StateFields DEF ViewShape
    <2>4. /\ view'.kind = view.kind /\ view'.cargo = view.cargo /\ view'.before = view.before
      BY <2>3 DEF Asked
    <2>5. ViewShape'
      BY <2>3, <2>4 DEF ViewShape, ReadStages
    <2>6. ViewKinds'
      BY <2>1, <2>3, <2>4 DEF ViewKinds, StateViews
    <2>7. QED
      BY <2>5, <2>6
  <1>10. ASSUME ReadEvidence \/ ReadReplayEvidence \/ ReadHistory \/ ReadLedgerHistory
         PROVE  ViewTypeOK'
    <2>1. /\ view'.stage \in {"history", "historyLedger", "answered"}
          /\ view'.list = view.list /\ view'.state = view.state
          /\ DOMAIN view' = Fields /\ UNCHANGED Asked
      BY <1>6, <1>10, EvidenceFields, HistoryFields DEF AnswerFields
    <2>2. view.kind \in {"live-events", "chain-of-custody", "video", "replay"}
      BY <1>10 DEF ReadEvidence, ReadReplayEvidence, ReadHistory, ReadLedgerHistory, ViewKinds
    <2>3. /\ view'.kind = view.kind /\ view'.cargo = view.cargo /\ view'.before = view.before
      BY <2>1 DEF Asked
    <2>4. ViewShape'
      BY <2>1, <2>3 DEF ViewShape, ReadStages
    <2>5. ViewKinds'
      BY <2>1, <2>2, <2>3 DEF ViewKinds
    <2>6. QED
      BY <2>4, <2>5
  <1>11. QED
    BY <1>1, <1>2, <1>3, <1>4, <1>5, <1>7, <1>8, <1>9, <1>10, ViewSteps
    DEF Look, BeginRequest, StepRequest, CrashServer, allVars, viewVars

LEMMA GenuineStep ==
    CustodyInv /\ ViewTypeOK /\ GenuineInv /\ [NextWithViews]_allVars => GenuineInv'
  <1> SUFFICES ASSUME CustodyInv, ViewTypeOK, GenuineInv, [NextWithViews]_allVars
               PROVE  GenuineInv'
    OBVIOUS
  <1>1. /\ TypeInv /\ PlanInv /\ \A r \in Requests : cargoOf(r) \in Cargo
        /\ redisState \in [Cargo -> State] /\ ledgerState \in [Cargo -> State]
        /\ prev \in [Requests -> State] /\ DOMAIN view = Fields
    BY DEF CustodyInv, TypeInv, TypeOK, Payload, cargoOf, ViewTypeOK, ViewShape
  <1>2. \A q \in Requests : pc[q] # "idle" => pc'[q] # "idle" /\ cargoOf(q)' = cargoOf(q)
    BY <1>1, Started, CustodySteps
  <1>3. \A c, s : Genuine(c, s) => Genuine(c, s)'
    BY <1>2, GenuineKept
  <1>4. \A c : Genuine(c, NoState)'
    BY <1>3, GenuineNoState
  <1> DEFINE Stores == \A c \in Cargo : Genuine(c, redisState[c])' /\ Genuine(c, ledgerState[c])'
             Read == \A r \in Requests :
                        IF pc'[r] = "idle" THEN prev'[r] = NoState
                        ELSE Genuine(cargoOf(r), prev[r])'
             Viewed == view'.kind \in StateViews => Genuine(view.cargo, view.state)'
  <1>5. UNCHANGED <<redisState, ledgerState>> => Stores
    BY <1>3 DEF GenuineInv
  <1>6. UNCHANGED prev /\ (\A r \in Requests : pc'[r] = "idle" <=> pc[r] = "idle") => Read
    BY <1>2, <1>3 DEF GenuineInv
  <1>7. UNCHANGED view => Viewed
    BY <1>3 DEF GenuineInv
  <1>8. CASE Look \/ UNCHANGED allVars
    <2>0. UNCHANGED vars
      BY <1>8 DEF Look, allVars
    <2>1. Stores /\ Read
      BY <1>5, <1>6, <2>0 DEF vars, requestVars, redisVars, durableVars
    <2>2. CASE UNCHANGED view
      BY <1>7, <2>1, <2>2 DEF GenuineInv
    <2>3. CASE ReadState \/ ReadLedgerState
      <3>1. /\ UNCHANGED Asked /\ view.cargo \in Cargo
            /\ view'.state = redisState[view.cargo] \/ view'.state = ledgerState[view.cargo]
        BY <1>1, <2>3, StateFields DEF ViewTypeOK, ViewKinds, ReadState, ReadLedgerState
      <3>2. Genuine(view.cargo, view'.state)
        BY <3>1 DEF GenuineInv
      <3>3. view'.cargo = view.cargo
        BY <3>1 DEF Asked
      <3>4. Genuine(view.cargo, view.state)'
        BY <1>3, <3>2, <3>3
      <3>5. QED
        BY <2>1, <3>4 DEF GenuineInv
    <2>4. CASE \/ ReadAlerts \/ ReadIndex \/ ReadLedgerList \/ ReadEvidence \/ ReadReplayEvidence
               \/ ReadHistory \/ ReadLedgerHistory
      <3>1. UNCHANGED Asked /\ view'.state = view.state
        BY <1>1, <2>4, ListFields, EvidenceFields, HistoryFields
      <3>2. view'.kind = view.kind /\ view'.cargo = view.cargo
        BY <3>1 DEF Asked
      <3>3. Viewed
        BY <1>3, <3>1, <3>2 DEF GenuineInv
      <3>4. QED
        BY <2>1, <3>3 DEF GenuineInv
    <2>5. CASE \/ \E r \in Requests : OpenReplay(r)
               \/ \E kind, c : Ask(kind, c)
      <3>1. view'.state = NoState
        BY <2>5, AskFields, OpenFields
      <3>2. Viewed
        BY <1>4, <3>1
      <3>3. QED
        BY <2>1, <3>2 DEF GenuineInv
    <2>6. QED
      BY <1>8, <2>2, <2>3, <2>4, <2>5 DEF Look, allVars, viewVars
  <1>9. ASSUME NEW r \in Requests, BeginRequest(r) PROVE GenuineInv'
    <2>1. /\ pc[r] = "idle" /\ pc'[r] # "idle" /\ UNCHANGED <<prev, redisState, ledgerState, view>>
          /\ \A q \in Requests \ {r} : pc'[q] = pc[q]
      BY <1>1, <1>9, BeginFrame DEF BeginRequest
    <2>2. Read
      BY <1>2, <1>3, <1>4, <2>1 DEF GenuineInv
    <2>3. QED
      BY <1>5, <1>7, <2>1, <2>2 DEF GenuineInv
  <1>10. ASSUME NEW r \in Requests, StepRequest(r) PROVE GenuineInv'
    <2> DEFINE c == cargoOf(r)
    <2>1. Step(r) /\ UNCHANGED view /\ Frame(r) /\ c \in Cargo /\ c' = c
      BY <1>1, <1>10, StepFrame, StoreSteps DEF StepRequest, viewVars
    <2>2. Genuine(c, prev[r]) /\ pc[r] # "idle" /\ pc'[r] # "idle"
      BY <1>1, <2>1, StoreSteps DEF GenuineInv, Stages
    <2>3. pc[r] \in Built => Genuine(c, event[r].state)
      BY <1>1, <2>2, BuiltState DEF Genuine
    <2>4. Read
      <3>1. Genuine(c, prev'[r])
        BY <1>1, <2>1, <2>2, StoreSteps DEF GenuineInv
      <3>2. \A q \in Requests \ {r} : prev'[q] = prev[q] /\ pc'[q] = pc[q]
        BY <2>1 DEF Frame
      <3>3. Genuine(cargoOf(r), prev[r])'
        BY <1>3, <2>1, <3>1
      <3>4. QED
        BY <1>2, <1>3, <2>2, <3>2, <3>3 DEF GenuineInv
    <2>5. \A d \in Cargo : Genuine(d, redisState'[d]) /\ Genuine(d, ledgerState'[d])
      <3>1. /\ \A d \in Cargo \ {c} : redisState'[d] = redisState[d] /\ ledgerState'[d] = ledgerState[d]
        BY <2>1 DEF Frame
      <3>2. redisState'[c] \in {redisState[c], prev[r]} \/ (pc[r] = "set" /\ redisState'[c] = event[r].state)
        BY <1>1, <2>1, StoreSteps
      <3>3. ledgerState'[c] = ledgerState[c] \/ (pc[r] = "upsert" /\ ledgerState'[c] = event[r].state)
        BY <1>1, <2>1, StoreSteps
      <3>4. QED
        BY <2>1, <2>2, <2>3, <3>1, <3>2, <3>3 DEF GenuineInv, Built
    <2>6. Stores
      BY <1>3, <2>5
    <2>7. QED
      BY <1>7, <2>1, <2>4, <2>6 DEF GenuineInv
  <1>11. CASE CrashServer
    <2>1. Crash /\ view' = NoView
      BY <1>11 DEF CrashServer
    <2>2. \A r \in Requests : pc'[r] = "idle" <=> pc[r] = "idle"
      BY <1>1, <2>1, CrashFrame DEF Stages
    <2>3. Read
      BY <1>1, <1>6, <2>1, <2>2, CrashFrame
    <2>4. /\ redisState' = redisState \/ redisState' = [c \in Cargo |-> NoState]
          /\ ledgerState' = ledgerState \/ ledgerState' = [c \in Cargo |-> NoState]
      BY <1>1, <2>1, CrashFrame DEF LoseRedis, LoseLedger
    <2>5. Stores
      BY <1>3, <1>4, <2>4 DEF GenuineInv
    <2>6. Viewed
      BY <2>1, IdleFields DEF StateViews
    <2>7. QED
      BY <2>3, <2>5, <2>6 DEF GenuineInv
  <1>12. CASE WriteBack
    <2>1. /\ redisState' = [redisState EXCEPT ![view.cargo] = view.state]
          /\ UNCHANGED <<requestVars, durableVars>> /\ UNCHANGED Asked /\ view'.state = view.state
          /\ view.stage = "fill"
      BY <1>1, <1>12, StateFields
    <2>2. view.kind \in StateViews /\ view.cargo \in Cargo
      BY <2>1 DEF ViewTypeOK, ViewKinds
    <2>3. \A c \in Cargo : Genuine(c, redisState'[c])
      BY <1>1, <2>1, <2>2 DEF GenuineInv
    <2>4. Stores
      BY <1>3, <2>1, <2>3 DEF GenuineInv, durableVars
    <2>5. Read
      BY <1>6, <2>1 DEF requestVars
    <2>6. view'.kind = view.kind /\ view'.cargo = view.cargo
      BY <2>1 DEF Asked
    <2>7. Viewed
      BY <1>3, <2>1, <2>6 DEF GenuineInv
    <2>8. QED
      BY <2>4, <2>5, <2>7 DEF GenuineInv
  <1>13. QED
    BY <1>8, <1>9, <1>10, <1>11, <1>12, ViewSteps

(***************************************************************************)
(* The tower.  Whoever is past the write of the state leaves it in the     *)
(* index, and so does every alert and every hold.                          *)
(***************************************************************************)
Indexed(c) == c \in Cargo /\ redisState[c] # NoState

\* The cargos of the alerts and tasks a view has read.
raised == {cargoOf(r) : r \in view.alerts} \cup {t.cargoId : t \in view.tasks}

KeepsIndex ==
    /\ \A r \in Requests :
          /\ pc[r] \in {"fill1", "fill2"} => prev[r] # NoState
          /\ pc[r] \in {"upsert", "log", "alert", "respond", "notify"} => Indexed(cargoOf(r))
    /\ \A r \in alerts : pc[r] # "idle" /\ Indexed(cargoOf(r))
    /\ \A c \in holds : Indexed(c)
    /\ view.stage = "fill" => view.state # NoState

TowerInv ==
    view.kind = "control-tower" =>
        /\ view.stage \in {"list", "listLedger", "answered"} =>
              \A r \in view.alerts : r \in Requests /\ pc[r] # "idle"
        /\ view.stage = "list" => \A c \in raised : Indexed(c)
        /\ view.stage = "listLedger" => raised = {}
        /\ view.stage = "answered" => raised \subseteq listed

IndexInv == KeepsIndex /\ TowerInv

LEMMA IndexInit == InitViews => IndexInv
  BY IdleFields DEF InitViews, Init, IndexInv, KeepsIndex, TowerInv

LEMMA ListedRows ==
    ASSUME NEW states, ToSet(view.list) = rowsOf(states)
    PROVE  listed = {c \in Cargo : states[c] # NoState}
  <1>1. \A c, s : Shipment(c, s).cargoId = c
    BY DEF Shipment
  <1>2. QED
    BY <1>1 DEF listed, rowsOf

\* Only a crash takes a state out of the index.
LEMMA IndexStays ==
    ASSUME CustodyInv, ViewTypeOK, KeepsIndex, NEW c, Indexed(c),
           \/ \E r \in Requests : Begin(r) \/ Step(r)
           \/ WriteBack \/ UNCHANGED vars
    PROVE  Indexed(c)'
  <1>1. /\ TypeInv /\ PlanInv /\ c \in Cargo /\ redisState \in [Cargo -> State]
    BY DEF CustodyInv, TypeInv, TypeOK, Indexed
  <1>2. ASSUME NEW r \in Requests, Begin(r) PROVE Indexed(c)'
    BY <1>1, <1>2, BeginFrame DEF Indexed
  <1>3. ASSUME NEW r \in Requests, Step(r) PROVE Indexed(c)'
    <2>1. pc[r] = "set" => event[r].state # NoState
      BY <1>1, BuiltState DEF Built
    <2>2. pc[r] \in {"fill1", "fill2"} => prev[r] # NoState
      BY DEF KeepsIndex
    <2>3. QED
      BY <1>1, <1>3, <2>1, <2>2, StoreSteps DEF Indexed
  <1>4. CASE WriteBack
    BY <1>1, <1>4, StateFields DEF Indexed, KeepsIndex, ViewTypeOK, ViewShape
  <1>5. CASE UNCHANGED vars
    BY <1>5 DEF Indexed, vars, redisVars
  <1>6. QED
    BY <1>2, <1>3, <1>4, <1>5

\* A request's own step, towards the alert and the hold.
LEMMA IncidentSteps ==
    ASSUME TypeInv, NEW r \in Requests, Step(r)
    PROVE  /\ alerts' = alerts \/ (pc[r] = "alert" /\ alerts' = alerts \cup {r})
           /\ holds' = holds \/ (pc[r] = "respond" /\ holds' = holds \cup {cargoOf(r)})
           /\ pc'[r] \in {"log", "alert", "respond", "notify"} =>
                 pc[r] \in {"upsert", "log", "alert", "respond", "notify"}
           /\ pc'[r] = "upsert" =>
                 pc[r] = "set" /\ redisState' = [redisState EXCEPT ![cargoOf(r)] = event[r].state]
           /\ pc'[r] \in {"fill1", "fill2"} => prev'[r] = ledgerState[cargoOf(r)] /\ prev'[r] # NoState
  <1> USE DEF GoTo, cargoOf, TypeInv, TypeOK, Payload, redisVars, durableVars
  <1>1. CASE GetState(r, "get1", "load1", "decide") \/ GetState(r, "get2", "load2", "latest")
    BY <1>1 DEF GetState
  <1>2. CASE LoadState(r, "load1", "fill1", "decide") \/ LoadState(r, "load2", "fill2", "latest")
    BY <1>2 DEF LoadState
  <1>3. CASE FillState(r, "fill1", "decide") \/ FillState(r, "fill2", "latest")
    BY <1>3 DEF FillState
  <1>4. CASE Decide(r) \/ GetLatestEvent(r) \/ PushEvent(r)
    BY <1>4 DEF Decide, GetLatestEvent, PushEvent
  <1>5. CASE InsertEvent(r) \/ SaveEvidence(r) \/ SetState(r) \/ UpsertState(r)
    BY <1>5 DEF InsertEvent, SaveEvidence, SetState, UpsertState
  <1>6. CASE LogEvent(r) \/ AppendAlert(r) \/ OrchestrateCargoIncident(r) \/ LogIncident(r)
    BY <1>6 DEF LogEvent, AppendAlert, OrchestrateCargoIncident, LogIncident
  <1>7. QED
    BY <1>1, <1>2, <1>3, <1>4, <1>5, <1>6 DEF Step

\* A view already read stays behind the index while nothing crashes.
LEMMA TowerWaits ==
    ASSUME TowerInv, UNCHANGED view, \A c : Indexed(c) => Indexed(c)',
           \A q \in Requests : pc[q] # "idle" => pc'[q] # "idle" /\ cargoOf(q)' = cargoOf(q)
    PROVE  TowerInv'
  <1> SUFFICES ASSUME view.kind = "control-tower",
                      view.stage \in {"list", "listLedger", "answered"}
               PROVE  /\ \A r \in view.alerts : r \in Requests /\ pc'[r] # "idle"
                      /\ view.stage = "list" => \A c \in raised' : Indexed(c)'
                      /\ view.stage = "listLedger" => raised' = {}
                      /\ view.stage = "answered" => raised' \subseteq listed'
    BY DEF TowerInv
  <1>1. \A r \in view.alerts : r \in Requests /\ pc'[r] # "idle" /\ cargoOf(r)' = cargoOf(r)
    BY DEF TowerInv
  <1>2. raised' = raised /\ listed' = listed
    BY <1>1 DEF raised, listed
  <1>3. QED
    BY <1>1, <1>2 DEF TowerInv

LEMMA IndexStep ==
    CustodyInv /\ ViewTypeOK /\ GenuineInv /\ IndexInv /\ [NextWithViews]_allVars => IndexInv'
  <1> SUFFICES ASSUME CustodyInv, ViewTypeOK, GenuineInv, IndexInv, [NextWithViews]_allVars
               PROVE  IndexInv'
    OBVIOUS
  <1>1. /\ TypeInv /\ PlanInv /\ KeepsIndex /\ TowerInv /\ DOMAIN view = Fields
        /\ \A r \in Requests : cargoOf(r) \in Cargo
        /\ redisState \in [Cargo -> State] /\ ledgerState \in [Cargo -> State]
    BY DEF CustodyInv, TypeInv, TypeOK, Payload, cargoOf, ViewTypeOK, ViewShape, IndexInv
  <1>2. \A q \in Requests : pc[q] # "idle" => pc'[q] # "idle" /\ cargoOf(q)' = cargoOf(q)
    BY <1>1, Started, CustodySteps
  <1>3. ASSUME NEW r \in Requests, BeginRequest(r) PROVE IndexInv'
    <2>1. /\ \A c : Indexed(c) => Indexed(c)'
          /\ UNCHANGED view /\ UNCHANGED <<alerts, holds, prev>>
          /\ pc[r] = "idle" /\ pc'[r] \in {"get1", "get2"}
          /\ \A q \in Requests \ {r} : pc'[q] = pc[q]
      BY <1>1, <1>3, IndexStays, BeginFrame DEF BeginRequest
    <2>2. TowerInv'
      BY <1>1, <1>2, <2>1, TowerWaits
    <2>3. \A q \in Requests : pc[q] # "idle" \/ pc'[q] \in {"idle", "get1", "get2"}
      BY <2>1
    <2>4. \A q \in alerts : q \in Requests
      BY <1>1 DEF TypeInv, TypeOK
    <2>5. KeepsIndex'
      <3>1. ASSUME NEW q \in Requests
            PROVE  /\ pc'[q] \in {"fill1", "fill2"} => prev'[q] # NoState
                   /\ pc'[q] \in {"upsert", "log", "alert", "respond", "notify"} =>
                         Indexed(cargoOf(q))'
        <4>1. CASE q = r
          BY <2>1, <4>1
        <4>2. CASE q # r
          BY <1>1, <1>2, <2>1, <4>2 DEF KeepsIndex
        <4>3. QED
          BY <4>1, <4>2
      <3>2. \A q \in alerts' : pc'[q] # "idle" /\ Indexed(cargoOf(q))'
        BY <1>1, <1>2, <2>1, <2>4 DEF KeepsIndex
      <3>3. QED
        BY <1>1, <2>1, <3>1, <3>2 DEF KeepsIndex
    <2>6. QED
      BY <2>2, <2>5 DEF IndexInv
  <1>4. ASSUME NEW r \in Requests, StepRequest(r) PROVE IndexInv'
    <2>1. /\ Step(r) /\ UNCHANGED view /\ Frame(r) /\ \A c : Indexed(c) => Indexed(c)'
      BY <1>1, <1>4, IndexStays, StepFrame DEF StepRequest, viewVars
    <2>2. TowerInv'
      BY <1>1, <1>2, <2>1, TowerWaits
    <2>3. \A q \in Requests \ {r} : pc'[q] = pc[q] /\ prev'[q] = prev[q]
      BY <2>1 DEF Frame
    <2>4. \A q \in Requests : cargoOf(q)' = cargoOf(q)
      BY <2>1 DEF Frame, cargoOf
    <2>5. /\ pc'[r] \in {"fill1", "fill2"} => prev'[r] # NoState
          /\ pc'[r] \in {"upsert", "log", "alert", "respond", "notify"} => Indexed(cargoOf(r))'
      <3>1. pc'[r] \in {"log", "alert", "respond", "notify"} => Indexed(cargoOf(r))
        BY <1>1, <2>1, IncidentSteps DEF KeepsIndex
      <3>2. pc'[r] = "upsert" => Indexed(cargoOf(r))'
        <4>1. pc[r] = "set" => event[r].state # NoState
          BY <1>1, BuiltState DEF Built
        <4>2. QED
          BY <1>1, <2>1, <2>4, <4>1, IncidentSteps DEF Indexed
      <3>3. QED
        BY <1>1, <2>1, <2>4, <3>1, <3>2, IncidentSteps
    <2>6. \A q \in Requests :
             /\ pc'[q] \in {"fill1", "fill2"} => prev'[q] # NoState
             /\ pc'[q] \in {"upsert", "log", "alert", "respond", "notify"} => Indexed(cargoOf(q))'
      BY <1>1, <2>1, <2>3, <2>4, <2>5 DEF KeepsIndex
    <2>7. \A q \in alerts' : pc'[q] # "idle" /\ Indexed(cargoOf(q))'
      <3>1. \A q \in alerts' : q \in Requests /\ (q \in alerts \/ (q = r /\ pc[r] = "alert"))
        BY <1>1, <2>1, IncidentSteps DEF TypeInv, TypeOK
      <3>2. QED
        BY <1>1, <1>2, <2>1, <2>4, <3>1 DEF KeepsIndex
    <2>8. \A c \in holds' : Indexed(c)'
      BY <1>1, <2>1, IncidentSteps DEF KeepsIndex
    <2>9. QED
      BY <1>1, <2>1, <2>2, <2>6, <2>7, <2>8 DEF IndexInv, KeepsIndex
  <1>5. CASE CrashServer
    <2>1. Crash /\ view' = NoView
      BY <1>5 DEF CrashServer
    <2>2. /\ \A q \in Requests : pc'[q] \notin Stages
          /\ \/ alerts' = {} /\ holds' = {}
             \/ UNCHANGED <<redisState, alerts, holds>>
      BY <1>1, <2>1, CrashFrame DEF LoseRedis
    <2>3. \A q \in alerts : q \in Requests
      BY <1>1 DEF TypeInv, TypeOK
    <2>4. \A q \in alerts' : pc'[q] # "idle" /\ Indexed(cargoOf(q))'
      BY <1>1, <1>2, <2>2, <2>3 DEF KeepsIndex, Indexed
    <2>5. \A c \in holds' : Indexed(c)'
      BY <1>1, <2>2 DEF KeepsIndex, Indexed
    <2>6. KeepsIndex'
      BY <2>1, <2>2, <2>4, <2>5, IdleFields DEF KeepsIndex, Stages
    <2>7. TowerInv'
      BY <2>1, IdleFields DEF TowerInv
    <2>8. QED
      BY <2>6, <2>7 DEF IndexInv
  <1>6. ASSUME UNCHANGED <<pc, body, prev, alerts, holds>>, \A c : Indexed(c) => Indexed(c)',
               view'.stage = "fill" => view'.state # NoState
        PROVE  KeepsIndex'
    <2>1. \A q : cargoOf(q)' = cargoOf(q)
      BY <1>6 DEF cargoOf
    <2>2. QED
      BY <1>1, <1>6, <2>1 DEF KeepsIndex
  <1>7. CASE WriteBack
    <2>1. \A c : Indexed(c) => Indexed(c)'
      BY <1>1, <1>7, IndexStays
    <2>2. /\ view'.kind = view.kind /\ view'.stage # "fill"
          /\ UNCHANGED <<pc, body, prev, alerts, holds>>
      BY <1>1, <1>7, StateFields DEF Asked, requestVars
    <2>3. view.kind # "control-tower"
      BY <1>1, <1>7, StateFields DEF ViewTypeOK, ViewKinds, StateViews
    <2>4. TowerInv'
      BY <2>2, <2>3 DEF TowerInv
    <2>5. QED
      BY <1>6, <2>1, <2>2, <2>4 DEF IndexInv
  <1>8. CASE UNCHANGED allVars
    <2>1. /\ UNCHANGED <<pc, body, prev, alerts, holds, redisState>> /\ UNCHANGED view
      BY <1>8 DEF allVars, viewVars, vars, requestVars, redisVars
    <2>2. \A c : Indexed(c) => Indexed(c)'
      BY <2>1 DEF Indexed
    <2>3. QED
      BY <1>1, <1>2, <1>6, <2>1, <2>2, TowerWaits DEF IndexInv, KeepsIndex
  <1>9. CASE Look
    <2>1. UNCHANGED vars /\ UNCHANGED <<pc, body, prev, alerts, holds, redisState, ledgerState>>
      BY <1>9 DEF Look, vars, requestVars, redisVars, durableVars
    <2>2. \A c : Indexed(c)' = Indexed(c)
      BY <2>1 DEF Indexed
    <2>3. view'.stage = "fill" => view'.state # NoState
      <3>1. CASE ReadLedgerState
        BY <1>1, <3>1, StateFields
      <3>2. CASE ~ReadLedgerState
        <4>1. view'.stage # "fill"
          BY <1>1, <1>9, <3>2, ListFields, StateFields, EvidenceFields, HistoryFields, AskFields,
             OpenFields
          DEF Look, AnswerFields, afterList, ListViews, StateViews
        <4>2. QED
          BY <4>1
      <3>3. QED
        BY <3>1, <3>2
    <2>4. KeepsIndex'
      BY <1>6, <2>1, <2>2, <2>3
    <2>5. CASE view'.kind # "control-tower"
      BY <2>4, <2>5 DEF IndexInv, TowerInv
    <2>6. CASE view'.kind = "control-tower"
      <3>1. \A q : cargoOf(q)' = cargoOf(q)
        BY <2>1 DEF cargoOf
      <3>2. CASE ReadAlerts
        <4>1. /\ view'.stage = "list" /\ view'.alerts = alerts /\ view'.tasks = tasksOf(holds)
          BY <1>1, <3>2, ListFields
        <4>2. \A t \in tasksOf(holds) : t.cargoId \in holds
          BY DEF tasksOf
        <4>3. \A q \in alerts : q \in Requests /\ pc'[q] # "idle" /\ Indexed(cargoOf(q))
          BY <1>1, <2>1 DEF KeepsIndex, TypeInv, TypeOK
        <4>4. \A c \in raised' : Indexed(c)'
          BY <1>1, <2>2, <3>1, <4>1, <4>2, <4>3 DEF raised, KeepsIndex
        <4>5. QED
          BY <2>4, <4>1, <4>3, <4>4 DEF IndexInv, TowerInv
      <3>3. CASE ReadIndex
        <4>1. /\ view.stage = "list" /\ view'.alerts = view.alerts /\ view'.tasks = view.tasks
              /\ view'.list = newestFirst(rowsOf(redisState)) /\ view'.kind = view.kind
              /\ view'.stage = IF rowsOf(redisState) = {} THEN "listLedger" ELSE "answered"
          BY <1>1, <2>6, <3>3, ListFields DEF Asked, afterList
        <4>2. ToSet(view'.list) = rowsOf(redisState)
          BY <1>1, <4>1, ListOfRows DEF GenuineInv, Genuine
        <4>3. listed' = {c \in Cargo : redisState[c] # NoState}
          <5>1. \A c, s : Shipment(c, s).cargoId = c
            BY DEF Shipment
          <5>2. listed' = {s.cargoId : s \in rowsOf(redisState)}
            BY <4>2 DEF listed
          <5>3. QED
            BY <5>1, <5>2 DEF rowsOf
        <4>4. raised' = raised /\ raised \subseteq listed'
          BY <1>1, <2>6, <3>1, <4>1, <4>3 DEF raised, TowerInv, Indexed
        <4>5. rowsOf(redisState) = {} => listed' = {}
          BY <4>2 DEF listed
        <4>6. \A q \in view'.alerts : q \in Requests /\ pc'[q] # "idle"
          BY <1>1, <2>1, <2>6, <4>1 DEF TowerInv
        <4>7. TowerInv'
          BY <4>1, <4>4, <4>5, <4>6 DEF TowerInv
        <4>8. QED
          BY <2>4, <4>7 DEF IndexInv
      <3>4. CASE ReadLedgerList
        <4>1. /\ view.stage = "listLedger" /\ view'.alerts = view.alerts /\ view'.tasks = view.tasks
              /\ view'.kind = view.kind /\ view'.stage = "answered"
          BY <1>1, <2>6, <3>4, ListFields DEF Asked, afterList
        <4>2. raised' = {}
          BY <1>1, <2>6, <3>1, <4>1 DEF raised, TowerInv
        <4>3. \A q \in view'.alerts : q \in Requests /\ pc'[q] # "idle"
          BY <1>1, <2>1, <2>6, <4>1 DEF TowerInv
        <4>4. QED
          BY <2>4, <4>1, <4>2, <4>3 DEF IndexInv, TowerInv
      <3>5. CASE \E kind, c : Ask(kind, c)
        <4>1. view'.stage = "alerts"
          BY <2>6, <3>5, AskFields DEF ListViews
        <4>2. QED
          BY <2>4, <4>1 DEF IndexInv, TowerInv
      <3>6. CASE \E r \in Requests : OpenReplay(r)
        BY <2>6, <3>6, OpenFields
      <3>7. CASE ReadState \/ ReadLedgerState \/ ReadEvidence \/ ReadReplayEvidence
                 \/ ReadHistory \/ ReadLedgerHistory
        <4>1. view.kind = "control-tower"
          BY <1>1, <2>6, <3>7, StateFields, EvidenceFields, HistoryFields DEF Asked
        <4>2. QED
          BY <3>7, <4>1 DEF ViewTypeOK, ViewKinds, StateViews, ReadState, ReadLedgerState,
             ReadEvidence, ReadReplayEvidence, ReadHistory, ReadLedgerHistory
      <3>8. QED
        BY <1>9, <3>2, <3>3, <3>4, <3>5, <3>6, <3>7 DEF Look
    <2>7. QED
      BY <2>5, <2>6
  <1>10. QED
    BY <1>3, <1>4, <1>5, <1>7, <1>8, <1>9, ViewSteps

LEMMA ViewsInvariant == SpecWithViews => [](CustodyInv /\ ViewTypeOK /\ GenuineInv)
  <1>1. InitViews => CustodyInv /\ ViewTypeOK /\ GenuineInv
    BY CustodyInit, ViewInit DEF InitViews
  <1>2. CustodyInv => TypeInv
    BY DEF CustodyInv
  <1>3. QED
    BY CustodyStep, ViewTypeStep, GenuineStep, <1>1, <1>2, PTL DEF SpecWithViews

\* AlertedCargoIsListed for any number of cargo, requests, views and crashes:
\* alerts and holds are read before the list, and whoever leaves them has
\* written the state before, which nothing but a restart removes.
THEOREM AlertsListed == SpecWithViews => []AlertedCargoIsListed
  <1>1. IndexInv => AlertedCargoIsListed
    BY DEF IndexInv, TowerInv, AlertedCargoIsListed, Answered, raised
  <1>2. QED
    BY ViewsInvariant, IndexInit, IndexStep, <1>1, PTL DEF SpecWithViews

(***************************************************************************)
(* Replays.  A link is offered of what was recorded.                       *)
(***************************************************************************)
LEMMA ListPush ==
    ASSUME CustodyInv, NEW r \in Requests, PushEvent(r)
    PROVE  LET d == cargoOf(r)
               old == redisLedger[d]
               new == redisLedger'[d] IN
           /\ d \in Cargo /\ pc[r] = "push"
           /\ \A c \in Cargo \ {d} : redisLedger'[c] = redisLedger[c]
           /\ UNCHANGED <<event, body, epoch, evidence, ledger, ledgerState, redisState>>
           /\ event[r] \in Event /\ event[r].id = r
           /\ old \in Seq(Event) /\ new \in Seq(Event)
           /\ Len(old) <= Retention /\ Len(new) \in 1 .. Retention /\ new[1] = event[r]
           /\ \A i \in 2 .. Len(new) : new[i] = old[i - 1]
           /\ Len(new) = Len(old) + 1 \/ (Len(old) = Retention /\ Len(new) = Retention)
  <1> DEFINE d == cargoOf(r)
             longer == Trim(<<event[r]>> \o redisLedger[d])
  <1>1. /\ pc[r] = "push" /\ d \in Cargo
        /\ redisLedger' = [redisLedger EXCEPT ![d] = longer]
        /\ UNCHANGED <<event, body, epoch, evidence, ledger, ledgerState, redisState>>
    BY DEF PushEvent, durableVars, CustodyInv, TypeInv, TypeOK, Payload, cargoOf
  <1>2. /\ event[r] \in Event /\ event[r].id = r
        /\ redisLedger \in [Cargo -> Seq(Event)]
    BY <1>1 DEF CustodyInv, TypeInv, TypeOK, EventBuilt, Built
  <1>3. redisLedger[d] \in Seq(Event) /\ Len(redisLedger[d]) <= Retention
    BY <1>1, <1>2 DEF CustodyInv, TrailInv, ListInv
  <1>4. /\ longer \in Seq(Event) /\ Len(longer) \in 1 .. Retention /\ longer[1] = event[r]
        /\ \A i \in 2 .. Len(longer) : longer[i] = redisLedger[d][i - 1]
        /\ Len(longer) = Len(redisLedger[d]) + 1
           \/ (Len(redisLedger[d]) = Retention /\ Len(longer) = Retention)
    BY <1>2, <1>3, PushedList
  <1> HIDE DEF longer
  <1>5. /\ redisLedger'[d] = longer
        /\ \A c \in Cargo \ {d} : redisLedger'[c] = redisLedger[c]
    BY <1>1, <1>2
  <1>6. QED
    BY <1>1, <1>2, <1>3, <1>4, <1>5

\* A list that is full stays full while nothing crashes.
LEMMA FullStays ==
    ASSUME CustodyInv, NEW c \in Cargo, MayBeTrimmed(c),
           \/ \E r \in Requests : Begin(r) \/ Step(r)
           \/ UNCHANGED redisLedger
    PROVE  MayBeTrimmed(c)'
  <1>1. ASSUME NEW r \in Requests, PushEvent(r) PROVE MayBeTrimmed(c)'
    <2>1. CASE c = cargoOf(r)
      BY <1>1, <2>1, ListPush, RetentionAssumption DEF MayBeTrimmed
    <2>2. CASE c # cargoOf(r)
      BY <1>1, <2>2, ListPush DEF MayBeTrimmed
    <2>3. QED
      BY <2>1, <2>2
  <1>2. ASSUME NEW r \in Requests, Begin(r) \/ (Step(r) /\ ~PushEvent(r)) PROVE MayBeTrimmed(c)'
    BY <1>2, BeginFrame, TrailSteps DEF MayBeTrimmed, CustodyInv
  <1>3. QED
    BY <1>1, <1>2 DEF MayBeTrimmed

\* Evidence of an event is only stored in the incarnation of Redis the event
\* was linked in.
Unproven(r) == r \notin evidence /\ event[r].epoch < epoch

LEMMA UnprovenStays ==
    ASSUME CustodyInv, NEW r, Recorded(r), Unproven(r), [Next]_vars \/ WriteBack
    PROVE  Unproven(r)'
  <1>1. /\ TypeInv /\ epoch \in Nat /\ r \in Requests /\ pc[r] # "evidence"
        /\ event[r].epoch \in Nat
    <2>1. TypeInv /\ epoch \in Nat /\ r \in Requests /\ event[r] \in Event \cup {NoEvent}
      BY DEF CustodyInv, TypeInv, TypeOK, Recorded
    <2>2. event[r].epoch \in Nat
      BY <2>1 DEF Event, NoEvent
    <2>3. pc[r] = "evidence" => event[r].epoch = epoch
      BY <2>1 DEF CustodyInv, TrailInv, Traced, Built
    <2>4. QED
      BY <2>1, <2>2, <2>3 DEF Unproven
  <1>2. CASE [Next]_vars
    <2>1. event'[r] = event[r]
      BY <1>1, <1>2, RecordedStays
    <2>2. ASSUME NEW q \in Requests, Begin(q) PROVE Unproven(r)'
      BY <2>1, <2>2, <1>1, BeginFrame DEF Unproven
    <2>3. ASSUME NEW q \in Requests, PushEvent(q) PROVE Unproven(r)'
      BY <2>1, <2>3, <1>1, ListPush DEF Unproven
    <2>4. ASSUME NEW q \in Requests, Step(q), ~PushEvent(q) PROVE Unproven(r)'
      BY <2>1, <2>4, <1>1, TrailSteps DEF Unproven
    <2>5. CASE Crash
      <3>1. evidence' = evidence \/ evidence' = {}
        BY <1>1, <2>5, CrashFrame DEF LoseLedger
      <3>2. epoch' = epoch \/ epoch' = epoch + 1
        BY <1>1, <2>5, CrashFrame DEF LoseRedis
      <3>3. QED
        BY <1>1, <2>1, <3>1, <3>2 DEF Unproven
    <2>6. CASE UNCHANGED vars
      BY <2>6 DEF vars, requestVars, durableVars, ghostVars, Unproven
    <2>7. QED
      BY <1>2, <2>2, <2>3, <2>4, <2>5, <2>6 DEF Next, Finished
  <1>3. CASE WriteBack
    BY <1>3 DEF WriteBack, requestVars, durableVars, ghostVars, Unproven
  <1>4. QED
    BY <1>2, <1>3

\* The rows of the ledger store as a history: its events, and only those, the
\* latest timestamp first.
LEMMA LedgerHistoryRows ==
    ASSUME CustodyInv, NEW c \in Cargo
    PROVE  /\ ledgerHistory(c) \in Seq(Requests)
           /\ ToSet(ledgerHistory(c)) = {e.id : e \in ledger[c]}
           /\ \A i, j \in DOMAIN ledgerHistory(c) :
                 i < j => body[ledgerHistory(c)[i]].at >= body[ledgerHistory(c)[j]].at
  <1> DEFINE rows == ledger[c]
             key == [e \in rows |-> body[e.id].at]
             list == sortedBy(rows, key)
  <1>1. IsFiniteSet(rows) /\ rows \subseteq Event
    BY DEF CustodyInv, TrailInv, Traced, TypeInv, TypeOK
  <1>2. \A e \in Event : e.id \in Requests
    BY DEF Event
  <1>3. \A e \in rows : key[e] \in Nat
    BY <1>1, <1>2 DEF CustodyInv, TypeInv, TypeOK, Payload
  <1>4. list \in Seq(rows) /\ ToSet(list) = rows /\ Sorted(list, key)
    <2> HIDE DEF key, rows
    <2>1. QED
      BY <1>1, <1>3, SortedRows
  <1>5. ledgerHistory(c) = [i \in DOMAIN list |-> list[i].id]
    BY DEF ledgerHistory, idsOf
  <1> HIDE DEF list
  <1>6. /\ DOMAIN list = 1 .. Len(list) /\ Len(list) \in Nat
        /\ \A i \in DOMAIN list : list[i] \in rows
    BY <1>4
  <1>7. ledgerHistory(c) \in Seq(Requests)
    BY <1>1, <1>2, <1>5, <1>6
  <1>8. DOMAIN ledgerHistory(c) = DOMAIN list
    BY <1>5
  <1>9. ToSet(ledgerHistory(c)) = {e.id : e \in rows}
    <2>1. ToSet(ledgerHistory(c)) = {list[i].id : i \in DOMAIN list}
      BY <1>5, <1>8 DEF ToSet
    <2>2. rows = {list[i] : i \in DOMAIN list}
      BY <1>4 DEF ToSet
    <2> HIDE DEF rows
    <2>3. QED
      BY <2>1, <2>2
  <1>10. \A i, j \in DOMAIN list : i < j => body[list[i].id].at >= body[list[j].id].at
    BY <1>4, <1>6 DEF Sorted
  <1>11. QED
    BY <1>5, <1>7, <1>8, <1>9, <1>10

\* What Redis holds and what the ledger store holds was recorded.
LEMMA HistoryRecorded ==
    ASSUME CustodyInv, NEW c \in Cargo
    PROVE  /\ \A r \in ToSet(idsOf(redisLedger[c])) : Recorded(r) /\ cargoOf(r) = c
           /\ \A r \in ToSet(ledgerHistory(c)) : Recorded(r) /\ cargoOf(r) = c
           /\ idsOf(redisLedger[c]) \in Seq(Requests)
           /\ Len(idsOf(redisLedger[c])) = Len(redisLedger[c])
  <1>1. \A e \in pushed[c] : Recorded(e.id) /\ cargoOf(e.id) = c
    BY DEF CustodyInv, TrailInv, Traced
  <1>2. redisLedger[c] \in Seq(Event) /\ \A i \in DOMAIN redisLedger[c] : redisLedger[c][i] \in pushed[c]
    BY DEF CustodyInv, TypeInv, TypeOK, TrailInv, ListInv
  <1>3. ToSet(idsOf(redisLedger[c])) = {redisLedger[c][i].id : i \in DOMAIN redisLedger[c]}
    BY DEF ToSet, idsOf
  <1>4. ledger[c] \subseteq pushed[c]
    BY DEF CustodyInv, GapInv, PushedInOrder
  <1>5. idsOf(redisLedger[c]) \in Seq(Requests) /\ Len(idsOf(redisLedger[c])) = Len(redisLedger[c])
    <2>1. \A e \in Event : e.id \in Requests
      BY DEF Event
    <2>2. QED
      BY <1>2, <2>1 DEF idsOf
  <1>6. \A r \in ToSet(ledgerHistory(c)) : \E e \in ledger[c] : r = e.id
    BY LedgerHistoryRows
  <1>7. QED
    BY <1>1, <1>2, <1>3, <1>4, <1>5, <1>6

\* The links of the page, and the histories a view has found so far.
LinksInv ==
    /\ \A r \in links : Recorded(r)
    /\ view.stage = "historyLedger" =>
          /\ DOMAIN view.history = historyOf
          /\ view.kind \in {"chain-of-custody", "video", "replay"} =>
                \A r \in ToSet(view.history[view.cargo]) : Recorded(r) /\ cargoOf(r) = view.cargo

Opens(r) ==
    \/ ~LedgerMayBeLost /\ view.markers = markersOf(r)
    \/ LedgerMayBeLost /\ view.markers # {}
    \/ Unproven(r)
    \/ MayBeTrimmed(view.cargo)

ReplayInv ==
    view.kind = "replay" =>
        /\ view.link \in links /\ view.cargo = cargoOf(view.link)
        /\ view.stage = "history" => view.link \notin evidence \/ event[view.link].epoch = epoch
        /\ view.stage = "historyLedger" => Unproven(view.link)
        /\ view.stage = "answered" => Opens(view.link)

LEMMA RecordedKept ==
    ASSUME CustodyInv, [NextWithViews]_allVars, NEW r, Recorded(r)
    PROVE  /\ Recorded(r)' /\ event'[r] = event[r] /\ body'[r] = body[r]
           /\ cargoOf(r)' = cargoOf(r) /\ cargoOf(r) \in Cargo
  <1>1. TypeInv /\ cargoOf(r) \in Cargo
    BY DEF CustodyInv, TypeInv, TypeOK, Payload, cargoOf, Recorded
  <1>2. CASE [Next]_vars
    BY <1>1, <1>2, RecordedStays
  <1>3. CASE WriteBack
    BY <1>1, <1>3 DEF WriteBack, requestVars, ghostVars, Recorded, cargoOf
  <1>4. QED
    BY <1>2, <1>3, CustodySteps

\* The views of one cargo that look at histories.
LEMMA HistoryOfOne ==
    ASSUME view.kind \in {"chain-of-custody", "video", "replay"}, DOMAIN view = Fields
    PROVE  historyOf = {view.cargo}
  BY DEF historyOf

LEMMA LinksInit == InitViews => LinksInv /\ ReplayInv
  BY IdleFields DEF InitViews, LinksInv, ReplayInv

\* An answer's histories: those read from Redis, the empty ones filled from
\* the ledger store.
LEMMA AnsweredHistories ==
    ASSUME CustodyInv, ViewTypeOK, LinksInv, view.cargo \in Cargo,
           view.kind \in {"chain-of-custody", "video", "replay"}
    PROVE  /\ DOMAIN cachedHistory = {view.cargo}
           /\ cachedHistory[view.cargo] = idsOf(redisLedger[view.cargo])
           /\ \A r \in ToSet(cachedHistory[view.cargo]) : Recorded(r) /\ cargoOf(r) = view.cargo
           /\ view.stage = "historyLedger" =>
                 /\ DOMAIN loadedHistory = {view.cargo}
                 /\ loadedHistory[view.cargo] = IF view.history[view.cargo] # <<>>
                                                THEN view.history[view.cargo]
                                                ELSE ledgerHistory(view.cargo)
                 /\ \A r \in ToSet(loadedHistory[view.cargo]) :
                       Recorded(r) /\ cargoOf(r) = view.cargo
  <1>1. historyOf = {view.cargo}
    BY HistoryOfOne DEF ViewTypeOK, ViewShape
  <1>2. /\ DOMAIN cachedHistory = {view.cargo}
        /\ cachedHistory[view.cargo] = idsOf(redisLedger[view.cargo])
    BY <1>1 DEF cachedHistory
  <1>3. ASSUME view.stage = "historyLedger"
        PROVE  /\ DOMAIN loadedHistory = {view.cargo}
               /\ loadedHistory[view.cargo] = IF view.history[view.cargo] # <<>>
                                              THEN view.history[view.cargo]
                                              ELSE ledgerHistory(view.cargo)
               /\ \A r \in ToSet(view.history[view.cargo]) : Recorded(r) /\ cargoOf(r) = view.cargo
    BY <1>1, <1>3 DEF loadedHistory, LinksInv
  <1>4. QED
    BY <1>2, <1>3, HistoryRecorded

LEMMA LinksStep ==
    CustodyInv /\ ViewTypeOK /\ LinksInv /\ [NextWithViews]_allVars => LinksInv'
  <1> SUFFICES ASSUME CustodyInv, ViewTypeOK, LinksInv, [NextWithViews]_allVars PROVE LinksInv'
    OBVIOUS
  <1>1. /\ DOMAIN view = Fields
        /\ \A r : Recorded(r) => Recorded(r)' /\ cargoOf(r)' = cargoOf(r)
        /\ \A r \in evidence : Recorded(r)
    BY RecordedKept DEF ViewTypeOK, ViewShape, CustodyInv, TrailInv, Traced
  <1>2. CASE UNCHANGED <<view, links>>
    <2>1. historyOf' = historyOf
      BY <1>2 DEF historyOf, shown
    <2>2. \A r \in links' : Recorded(r)'
      BY <1>1, <1>2 DEF LinksInv
    <2>3. QED
      BY <1>1, <1>2, <2>1, <2>2 DEF LinksInv
  <1>3. ASSUME view'.stage # "historyLedger", \A r \in links' : Recorded(r) PROVE LinksInv'
    BY <1>1, <1>3 DEF LinksInv
  <1>4. ASSUME view'.stage # "historyLedger", links' = links PROVE LinksInv'
    BY <1>3, <1>4 DEF LinksInv
  <1>5. CASE CrashServer
    BY <1>4, <1>5, IdleFields DEF CrashServer
  <1>6. CASE ReadEvidence
    <2>1. /\ view'.stage # "historyLedger"
          /\ links' = links \cup {r \in evidence : cargoOf(r) = view.cargo}
      BY <1>1, <1>6, EvidenceFields
    <2>2. QED
      BY <1>1, <1>3, <2>1 DEF LinksInv
  <1>7. CASE \/ \E kind \in ListViews : Ask(kind, NoCargo)
             \/ \E kind \in StateViews \cup {"video"}, c \in Cargo : Ask(kind, c)
             \/ \E r \in Requests : OpenReplay(r)
    <2>1. ASSUME NEW kind \in ListViews \cup StateViews \cup {"video"}, NEW c, Ask(kind, c)
          PROVE  LinksInv'
      <3>1. view'.stage \in {"list", "alerts", "state", "evidence"} /\ links' = links
        BY <2>1, AskFields DEF ListViews, StateViews
      <3>2. QED
        BY <1>4, <3>1
    <2>2. ASSUME NEW r \in Requests, OpenReplay(r) PROVE LinksInv'
      BY <1>4, <2>2, OpenFields
    <2>3. QED
      BY <1>7, <2>1, <2>2
  <1>8. CASE ReadAlerts \/ ReadIndex \/ ReadLedgerList \/ ReadState \/ ReadLedgerState \/ WriteBack
             \/ ReadReplayEvidence
    <2>1. view'.stage # "historyLedger" /\ links' = links
      BY <1>1, <1>8, ListFields, StateFields, EvidenceFields DEF afterList, ViewTypeOK, ViewShape
    <2>2. QED
      BY <1>4, <2>1
  <1>9. CASE ReadHistory \/ ReadLedgerHistory
    <2>1. UNCHANGED vars /\ UNCHANGED Asked /\ view'.list = view.list
      BY <1>1, <1>9, HistoryFields
    <2>2. /\ view'.kind = view.kind /\ view'.cargo = view.cargo /\ historyOf' = historyOf
      BY <2>1 DEF Asked, historyOf, shown
    <2>3. view.kind \in {"live-events", "chain-of-custody", "video", "replay"}
      BY <1>9 DEF ViewTypeOK, ViewKinds, ReadHistory, ReadLedgerHistory
    <2>4. CASE view.kind = "live-events"
      <3>1. /\ links' = links
            /\ view'.stage \in {"answered", "historyLedger"}
            /\ view'.stage = "historyLedger" => view'.history = cachedHistory
        BY <1>1, <1>9, <2>4, HistoryFields DEF AnswerFields
      <3>2. DOMAIN cachedHistory = historyOf
        BY DEF cachedHistory
      <3>3. QED
        BY <1>1, <2>2, <2>4, <3>1, <3>2 DEF LinksInv
    <2>5. CASE view.kind \in {"chain-of-custody", "video", "replay"}
      <3>1. view.cargo \in Cargo
        BY <2>5 DEF ViewTypeOK, ViewKinds, StateViews
      <3> DEFINE c == view.cargo
      <3>2. CASE ReadHistory /\ ~ \A d \in historyOf : cachedHistory[d] # <<>>
        <4>1. view'.history = cachedHistory /\ links' = links
          BY <1>1, <3>2, HistoryFields
        <4>2. /\ DOMAIN cachedHistory = historyOf
              /\ \A r \in ToSet(cachedHistory[c]) : Recorded(r)' /\ cargoOf(r)' = c
          BY <1>1, <2>5, <3>1, AnsweredHistories DEF cachedHistory
        <4>3. QED
          BY <1>1, <2>2, <4>1, <4>2 DEF LinksInv
      <3>3. ASSUME NEW histories, AnswerFields(histories), DOMAIN histories = {c},
                   \A r \in ToSet(histories[c]) : Recorded(r)
            PROVE  LinksInv'
        <4>1. view'.stage = "answered"
          BY <3>3 DEF AnswerFields
        <4>2. \A r \in UNION {ToSet(histories[d]) : d \in DOMAIN histories} : Recorded(r)
          BY <3>3
        <4>3. \A r \in links' : Recorded(r)
          BY <3>3, <4>2 DEF AnswerFields, LinksInv
        <4>4. QED
          BY <1>3, <4>1, <4>3
      <3>4. CASE ReadHistory /\ \A d \in historyOf : cachedHistory[d] # <<>>
        <4>1. AnswerFields(cachedHistory)
          BY <1>1, <3>4, HistoryFields
        <4>2. QED
          BY <2>5, <3>1, <3>3, <4>1, AnsweredHistories
      <3>5. CASE ReadLedgerHistory
        <4>1. AnswerFields(loadedHistory) /\ view.stage = "historyLedger"
          BY <1>1, <3>5, HistoryFields
        <4>2. QED
          BY <2>5, <3>1, <3>3, <4>1, AnsweredHistories
      <3>6. QED
        BY <1>9, <3>2, <3>4, <3>5
    <2>6. QED
      BY <2>3, <2>4, <2>5
  <1>10. QED
    BY <1>2, <1>5, <1>6, <1>7, <1>8, <1>9, ViewSteps
    DEF Look, BeginRequest, StepRequest, allVars, viewVars

LEMMA MarkersFound == \A r : markersOf(r) # {}
  BY DEF markersOf

\* The histories of a replay: an event found there is opened.
LEMMA ReplayAnswered ==
    ASSUME DOMAIN view = Fields, view.kind = "replay",
           NEW histories, AnswerFields(histories), DOMAIN histories = {view.cargo}
    PROVE  /\ view.link \in ToSet(histories[view.cargo]) => view'.markers = markersOf(view.link)
           /\ view'.stage = "answered"
  <1>1. UNION {ToSet(histories[d]) : d \in DOMAIN histories} = ToSet(histories[view.cargo])
    OBVIOUS
  <1>2. QED
    BY <1>1 DEF AnswerFields

\* What was recorded is either in its list, or of an earlier Redis, or may
\* have been trimmed.
LEMMA WhereRecorded ==
    ASSUME CustodyInv, NEW r, Recorded(r)
    PROVE  LET c == cargoOf(r) IN
           \/ r \in ToSet(idsOf(redisLedger[c]))
           \/ event[r].epoch < epoch
           \/ MayBeTrimmed(c)
  <1> DEFINE c == cargoOf(r)
  <1>1. c \in Cargo /\ event[r] \in pushed[c] /\ event[r].id = r
    BY DEF CustodyInv, TypeInv, TypeOK, Payload, cargoOf, Recorded
  <1>2. event[r] \in Event /\ epoch \in Nat /\ event[r].epoch <= epoch
    BY <1>1 DEF CustodyInv, TypeInv, TypeOK, ForkInv, PushedFirst
  <1>3. CASE event[r].epoch = epoch
    <2>1. InList(c, event[r]) \/ MayBeTrimmed(c)
      BY <1>1, <1>3 DEF CustodyInv, TrailInv, ListInv
    <2>2. InList(c, event[r]) => r \in ToSet(idsOf(redisLedger[c]))
      BY <1>1 DEF InList, idsOf, ToSet
    <2>3. QED
      BY <2>1, <2>2
  <1>4. QED
    BY <1>2, <1>3 DEF Event

LEMMA EpochStays ==
    ASSUME CustodyInv,
           \/ \E r \in Requests : Begin(r) \/ Step(r)
           \/ WriteBack \/ UNCHANGED vars
    PROVE  epoch' = epoch
  <1>1. ASSUME NEW r \in Requests, Begin(r) PROVE epoch' = epoch
    BY <1>1, BeginFrame DEF CustodyInv
  <1>2. ASSUME NEW r \in Requests, PushEvent(r) PROVE epoch' = epoch
    BY <1>2, ListPush
  <1>3. ASSUME NEW r \in Requests, Step(r), ~PushEvent(r) PROVE epoch' = epoch
    BY <1>3, TrailSteps DEF CustodyInv
  <1>4. CASE WriteBack \/ UNCHANGED vars
    BY <1>4 DEF WriteBack, ghostVars, vars
  <1>5. QED
    BY <1>1, <1>2, <1>3, <1>4

LEMMA ReplayStep ==
    CustodyInv /\ ViewTypeOK /\ LinksInv /\ ReplayInv /\ [NextWithViews]_allVars => ReplayInv'
  <1> SUFFICES ASSUME CustodyInv, ViewTypeOK, LinksInv, ReplayInv, [NextWithViews]_allVars,
                      view'.kind = "replay"
               PROVE  /\ view'.link \in links' /\ view'.cargo = cargoOf(view.link)'
                      /\ view'.stage = "history" =>
                            view'.link \notin evidence' \/ event'[view'.link].epoch = epoch'
                      /\ view'.stage = "historyLedger" => Unproven(view.link)'
                      /\ view'.stage = "answered" => Opens(view.link)'
    BY DEF ReplayInv
  <1> DEFINE Goal == /\ view'.link \in links' /\ view'.cargo = cargoOf(view.link)'
                     /\ view'.stage = "history" =>
                           view'.link \notin evidence' \/ event'[view'.link].epoch = epoch'
                     /\ view'.stage = "historyLedger" => Unproven(view.link)'
                     /\ view'.stage = "answered" => Opens(view.link)'
  <1>0. PICK l, c : l = view.link /\ c = view.cargo
    OBVIOUS
  <1> USE <1>0
  <1>1. DOMAIN view = Fields /\ CustodyInv /\ ViewTypeOK
    BY DEF ViewTypeOK, ViewShape
  <1>2. CASE UNCHANGED <<view, links>> /\ ~CrashServer /\ ~Look /\ ~WriteBack
    <2>1. view.kind = "replay" /\ l \in links /\ Recorded(l) /\ c = cargoOf(l) /\ c \in Cargo
      BY <1>2, RecordedKept DEF ReplayInv, LinksInv
    <2>2. /\ Recorded(l)' /\ event'[l] = event[l] /\ body'[l] = body[l] /\ cargoOf(l)' = c
      BY <2>1, RecordedKept
    <2>3. Unproven(l) => Unproven(l)'
      BY <2>1, UnprovenStays, CustodySteps
    <2>4. epoch' = epoch /\ (MayBeTrimmed(c) => MayBeTrimmed(c)')
      <3>1. CASE \E r \in Requests : Begin(r) \/ Step(r)
        <4>1. epoch' = epoch
          BY <3>1, EpochStays
        <4>2. QED
          BY <2>1, <3>1, <4>1, FullStays
      <3>2. CASE UNCHANGED allVars
        <4>1. epoch' = epoch /\ redisLedger' = redisLedger
          BY <3>2 DEF allVars, vars, redisVars, ghostVars
        <4>2. QED
          BY <4>1 DEF MayBeTrimmed
      <3>3. QED
        BY <1>2, <3>1, <3>2, ViewSteps DEF BeginRequest, StepRequest
    <2>5. view.stage = "history" => l \notin evidence' \/ event'[l].epoch = epoch'
      <3>1. CASE event[l].epoch = epoch
        BY <2>2, <2>4, <3>1
      <3>2. CASE event[l].epoch # epoch /\ l \notin evidence
        <4>1. event[l] \in pushed[c] /\ event[l] \in Event
          BY <2>1 DEF Recorded, CustodyInv, TypeInv, TypeOK
        <4>2. event[l].epoch <= epoch /\ epoch \in Nat /\ event[l].epoch \in Nat
          BY <2>1, <4>1 DEF CustodyInv, ForkInv, PushedFirst, TypeInv, TypeOK, Event
        <4>3. Unproven(l)
          BY <3>2, <4>2 DEF Unproven
        <4>4. QED
          BY <2>3, <4>3 DEF Unproven
      <3>3. QED
        BY <2>1, <3>1, <3>2 DEF ReplayInv
    <2>6. Opens(l) => Opens(l)'
      <3>1. markersOf(l)' = markersOf(l) /\ view'.markers = view.markers /\ view'.cargo = c
        BY <1>2, <2>2 DEF markersOf
      <3>2. QED
        BY <2>3, <2>4, <3>1, <1>2 DEF Opens
    <2>7. QED
      BY <1>2, <2>1, <2>2, <2>3, <2>5, <2>6 DEF ReplayInv
  <1>3. CASE CrashServer
    BY <1>3, IdleFields DEF CrashServer
  <1>4. CASE WriteBack
    <2>1. view.kind = "replay" /\ view.stage = "fill"
      BY <1>1, <1>4, StateFields DEF Asked
    <2>2. QED
      BY <2>1 DEF ViewTypeOK, ViewKinds, StateViews
  <1>5. CASE Look
    <2>1. UNCHANGED vars /\ UNCHANGED <<pc, body, event, evidence, epoch, redisLedger, pushed>>
      BY <1>5 DEF Look, vars, requestVars, redisVars, durableVars, ghostVars
    <2>2. \A r : /\ cargoOf(r)' = cargoOf(r) /\ (Unproven(r)' <=> Unproven(r))
                 /\ markersOf(r)' = markersOf(r)
      BY <2>1 DEF cargoOf, Unproven, markersOf
    <2>3. CASE \E r \in Requests : OpenReplay(r)
      <3>1. PICK r \in Requests : OpenReplay(r)
        BY <2>3
      <3>2. view'.link = r /\ r \in links' /\ view'.cargo = cargoOf(r) /\ view'.stage = "evidence"
        BY <3>1, OpenFields
      <3>3. QED
        BY <2>2, <3>2
    <2>4. CASE \E kind \in ListViews \cup StateViews \cup {"video"} : \E d : Ask(kind, d)
      BY <2>4, AskFields DEF ListViews, StateViews
    <2>5. CASE \/ ReadAlerts \/ ReadIndex \/ ReadLedgerList \/ ReadState \/ ReadLedgerState
               \/ ReadEvidence
      <3>1. view.kind = "replay"
        BY <1>1, <2>5, ListFields, StateFields, EvidenceFields DEF Asked
      <3>2. QED
        BY <2>5, <3>1 DEF ViewTypeOK, ViewKinds, ListViews, StateViews, ReadAlerts, ReadIndex,
           ReadLedgerList, ReadState, ReadLedgerState, ReadEvidence
    <2>6. CASE ReadReplayEvidence \/ ReadHistory \/ ReadLedgerHistory
      <3>1. UNCHANGED Asked /\ view.kind = "replay"
        BY <1>1, <2>6, EvidenceFields, HistoryFields DEF Asked
      <3>2. /\ l \in links /\ Recorded(l) /\ c = cargoOf(l) /\ c \in Cargo
            /\ view'.link = l /\ view'.cargo = c
        BY <3>1, RecordedKept DEF Asked, ReplayInv, LinksInv
      <3>3. links' = links
        BY <1>1, <2>6, <3>1, EvidenceFields, HistoryFields DEF AnswerFields
      <3>4. view'.link \in links' /\ view'.cargo = cargoOf(view.link)'
        BY <2>2, <3>2, <3>3
      <3>5. CASE ReadReplayEvidence
        <4>1. /\ l \in evidence =>
                    view'.stage = "answered" /\ view'.markers = storedMarkers(l)
              /\ l \notin evidence => view'.stage = "history"
          BY <1>1, <3>5, EvidenceFields
        <4>2. CASE l \in evidence
          <5>1. \/ ~LedgerMayBeLost /\ view'.markers = markersOf(l)'
                \/ LedgerMayBeLost /\ view'.markers # {}
            BY <2>2, <4>1, <4>2 DEF storedMarkers
          <5>2. Opens(view.link)'
            BY <3>2, <5>1 DEF Opens
          <5>3. QED
            BY <3>4, <4>1, <4>2, <5>2
        <4>3. CASE l \notin evidence
          BY <2>1, <3>2, <3>4, <4>1, <4>3
        <4>4. QED
          BY <4>2, <4>3
      <3>6. view'.markers = markersOf(l) => Opens(view.link)'
        BY <2>2, <3>2, MarkersFound DEF Opens
      <3>7. CASE ReadHistory
        <4>1. /\ view.stage = "history" /\ historyOf = {c}
              /\ IF cachedHistory[c] # <<>> THEN AnswerFields(cachedHistory)
                 ELSE view'.stage = "historyLedger"
          BY <1>1, <3>1, <3>7, HistoryFields, HistoryOfOne
        <4>2. /\ DOMAIN cachedHistory = {c} /\ cachedHistory[c] = idsOf(redisLedger[c])
          BY <3>1, <3>2, AnsweredHistories
        <4>3. event[l].epoch < epoch => Unproven(l)
          <5>1. event[l] \in Event /\ epoch \in Nat
            BY <3>2 DEF Recorded, CustodyInv, TypeInv, TypeOK
          <5>2. event[l].epoch \in Nat
            BY <5>1 DEF Event
          <5>3. QED
            BY <3>1, <4>1, <5>1, <5>2 DEF ReplayInv, Unproven
        <4>4. l \in ToSet(idsOf(redisLedger[c])) \/ Unproven(l) \/ MayBeTrimmed(c)
          BY <3>2, <4>3, WhereRecorded
        <4>5. CASE cachedHistory[c] # <<>>
          <5>1. /\ view'.stage = "answered"
                /\ l \in ToSet(idsOf(redisLedger[c])) => view'.markers = markersOf(l)
            BY <1>1, <3>1, <4>1, <4>2, <4>5, ReplayAnswered
          <5>2. MayBeTrimmed(c)' <=> MayBeTrimmed(c)
            BY <2>1 DEF MayBeTrimmed
          <5>3. Opens(view.link)'
            BY <2>2, <3>2, <3>6, <4>4, <5>1, <5>2 DEF Opens
          <5>4. QED
            BY <3>4, <5>1, <5>3
        <4>6. CASE cachedHistory[c] = <<>>
          <5>1. Len(redisLedger[c]) = 0 /\ ToSet(idsOf(redisLedger[c])) = {}
            <6>1. idsOf(redisLedger[c]) = <<>>
              BY <4>2, <4>6
            <6>2. Len(idsOf(redisLedger[c])) = Len(redisLedger[c])
              BY <3>2, HistoryRecorded
            <6>3. QED
              BY <6>1, <6>2 DEF ToSet
          <5>2. ~MayBeTrimmed(c)
            BY <5>1, RetentionAssumption DEF MayBeTrimmed
          <5>3. Unproven(view.link)'
            BY <2>2, <3>2, <4>4, <5>1, <5>2
          <5>4. QED
            BY <3>4, <4>1, <4>6, <5>3
        <4>7. QED
          BY <4>5, <4>6
      <3>8. CASE ReadLedgerHistory
        <4>1. /\ view.stage = "historyLedger" /\ AnswerFields(loadedHistory)
          BY <1>1, <3>8, HistoryFields
        <4>2. view'.stage = "answered"
          BY <4>1 DEF AnswerFields
        <4>3. Unproven(view.link)'
          BY <2>2, <3>1, <3>2, <4>1 DEF ReplayInv
        <4>4. QED
          BY <3>4, <4>2, <4>3 DEF Opens
      <3>9. QED
        BY <2>6, <3>5, <3>7, <3>8
    <2>7. QED
      BY <1>5, <2>3, <2>4, <2>5, <2>6 DEF Look
  <1>6. QED
    BY <1>2, <1>3, <1>4, <1>5, ViewSteps
    DEF BeginRequest, StepRequest, allVars, viewVars

\* OfferedReplayOpens for any number of cargo, requests, views and crashes,
\* and any Redis retention: the evidence is read before the history, and
\* whatever is in neither was linked in a Redis that was lost since.
THEOREM ReplaysOpen == SpecWithViews => []OfferedReplayOpens
  <1>1. ReplayInv => OfferedReplayOpens
    BY DEF ReplayInv, OfferedReplayOpens, Answered, Opens, Unproven
  <1>2. QED
    BY ViewsInvariant, LinksInit, LinksStep, ReplayStep, <1>1, PTL DEF SpecWithViews

(***************************************************************************)
(* Timelines.  A state a view has found is that of an event of the ledger  *)
(* store; the head of the history it reads next is not before it.          *)
(***************************************************************************)
ShownInv ==
    /\ LedgeredInv
    /\ ~LedgerMayBeLost => (view.stage = "fill" => Shown(view.cargo, view.state))

LEMMA ShownInit == InitViews => ShownInv
  BY LedgeredInit, IdleFields DEF InitViews, ShownInv

\* The ledger store keeps what it has, unless it lives in the process.
LEMMA LedgerKept ==
    ASSUME TypeInv, ~LedgerMayBeLost, [Next]_vars \/ WriteBack
    PROVE  /\ \A c \in Cargo : ledger[c] \subseteq ledger'[c]
           /\ evidence \subseteq evidence'
           /\ \A q \in Requests : pc[q] # "idle" => pc'[q] # "idle" /\ body'[q] = body[q]
  <1>1. ASSUME NEW r \in Requests, Begin(r)
        PROVE  /\ UNCHANGED <<ledger, evidence>>
               /\ \A q \in Requests : pc[q] # "idle" => pc'[q] # "idle" /\ body'[q] = body[q]
    BY <1>1, BeginFrame
  <1>2. ASSUME NEW r \in Requests, Step(r)
        PROVE  /\ \A c \in Cargo : ledger[c] \subseteq ledger'[c]
               /\ evidence \subseteq evidence'
               /\ \A q \in Requests : pc[q] # "idle" => pc'[q] # "idle" /\ body'[q] = body[q]
    BY <1>2, LedgerGrows, StepFrame DEF Frame
  <1>3. ASSUME Crash
        PROVE  /\ UNCHANGED <<ledger, evidence>>
               /\ \A q \in Requests : pc[q] # "idle" => pc'[q] # "idle" /\ body'[q] = body[q]
    BY <1>3, CrashFrame
  <1>4. CASE WriteBack
    BY <1>4 DEF WriteBack, requestVars, durableVars
  <1>5. CASE UNCHANGED vars
    BY <1>5 DEF vars, requestVars, durableVars
  <1>6. QED
    BY <1>1, <1>2, <1>3, <1>4, <1>5 DEF Next, Finished

LEMMA ShownStep ==
    CustodyInv /\ ViewTypeOK /\ ShownInv /\ [NextWithViews]_allVars => ShownInv'
  <1> SUFFICES ASSUME CustodyInv, ViewTypeOK, ShownInv, [NextWithViews]_allVars PROVE ShownInv'
    OBVIOUS
  <1>1. /\ TypeInv /\ PlanInv /\ DOMAIN view = Fields
        /\ redisState \in [Cargo -> State] /\ ledgerState \in [Cargo -> State]
    BY DEF CustodyInv, TypeInv, TypeOK, ViewTypeOK, ViewShape
  <1>2. CASE LedgerMayBeLost
    BY <1>2 DEF ShownInv, LedgeredInv
  <1>3. CASE ~LedgerMayBeLost
    <2>1. \A c \in Cargo : \A s : Shown(c, s) => Shown(c, s)'
      BY <1>1, <1>3, LedgerKept, ShownKept, CustodySteps
    <2>2. CASE WriteBack
      <3>1. /\ redisState' = [redisState EXCEPT ![view.cargo] = view.state]
            /\ UNCHANGED <<requestVars, durableVars>> /\ view'.stage # "fill"
            /\ view.stage = "fill"
        BY <1>1, <2>2, StateFields
      <3>2. view.cargo \in Cargo /\ Shown(view.cargo, view.state)
        BY <1>3, <3>1 DEF ViewTypeOK, ViewKinds, ShownInv
      <3>3. \A c \in Cargo : Shown(c, redisState'[c])
        BY <1>1, <1>3, <3>1, <3>2 DEF ShownInv, LedgeredInv
      <3>4. \A c \in Cargo : Shown(c, redisState[c])'
        BY <2>1, <3>3
      <3>5. \A c \in Cargo : Shown(c, ledgerState[c])'
        BY <1>3, <2>1, <3>1 DEF durableVars, ShownInv, LedgeredInv
      <3>6. \A r \in Requests : Backed(r)'
        BY <1>3, <3>1 DEF requestVars, durableVars, Backed, Shown, cargoOf, ShownInv, LedgeredInv
      <3>7. QED
        BY <3>1, <3>4, <3>5, <3>6 DEF ShownInv, LedgeredInv
    <2>3. CASE ~WriteBack
      <3>1. LedgeredInv'
        BY <1>1, <2>3, CustodySteps, LedgeredStep DEF ShownInv
      <3>2. view'.stage = "fill" => Shown(view.cargo, view.state)'
        <4>1. CASE UNCHANGED view
          BY <1>3, <2>1, <4>1 DEF ShownInv, ViewTypeOK, ViewKinds
        <4>2. CASE CrashServer
          BY <4>2, IdleFields DEF CrashServer
        <4>3. CASE ReadLedgerState
          <5>1. /\ view'.state = ledgerState[view.cargo] /\ UNCHANGED Asked /\ view.stage = "load"
            BY <1>1, <4>3, StateFields
          <5>2. view'.cargo = view.cargo /\ view.cargo \in Cargo
            BY <5>1 DEF Asked, ViewTypeOK, ViewKinds
          <5>3. Shown(view.cargo, view'.state)
            BY <1>3, <5>1, <5>2 DEF ShownInv, LedgeredInv
          <5>4. QED
            BY <2>1, <5>2, <5>3
        <4>4. CASE Look /\ ~ReadLedgerState
          <5>1. view'.stage # "fill"
            BY <1>1, <4>4, ListFields, StateFields, EvidenceFields, HistoryFields, AskFields,
               OpenFields
            DEF Look, AnswerFields, afterList, ListViews, StateViews
          <5>2. QED
            BY <5>1
        <4>5. QED
          BY <2>3, <4>1, <4>2, <4>3, <4>4, ViewSteps
          DEF BeginRequest, StepRequest, allVars, viewVars
      <3>3. QED
        BY <3>1, <3>2 DEF ShownInv
    <2>4. QED
      BY <2>2, <2>3
  <1>4. QED
    BY <1>2, <1>3

Ledgered(c, f) == c \in Cargo /\ event[f] \in ledger[c]

\* The custodian of a state that is shown is the request whose event the
\* state is the snapshot of.
LEMMA ShownIsLedgered ==
    ASSUME CustodyInv, NEW c \in Cargo, NEW s, s # NoState, Shown(c, s)
    PROVE  /\ Ledgered(c, s.custodian) /\ Recorded(s.custodian) /\ cargoOf(s.custodian) = c
           /\ event[s.custodian].state = s
  <1>1. PICK e \in ledger[c] : e.state = s
    BY DEF Shown
  <1>2. e \in pushed[c]
    BY DEF CustodyInv, GapInv, PushedInOrder
  <1>3. event[e.id] = e /\ Recorded(e.id) /\ cargoOf(e.id) = c
    BY <1>2 DEF CustodyInv, TrailInv, Traced
  <1>4. e.id \in Requests /\ event[e.id] # NoEvent
    BY <1>3, RequestsAssumption DEF Recorded, NoEvent
  <1>5. e.state = buildState(e.id, body[e.id], plan[e.id].action, plan[e.id].score, prev[e.id])
    BY <1>3, <1>4 DEF CustodyInv, PlanInv, EventFromPlan
  <1>6. \A r, p, action, score, before : buildState(r, p, action, score, before).custodian = r
    BY DEF buildState
  <1>7. s.custodian = e.id
    BY <1>1, <1>5, <1>6
  <1>8. QED
    BY <1>1, <1>3, <1>7 DEF Ledgered


\* Where an id is in the list of a cargo.
PlacesOf(c, id) == {i \in DOMAIN redisLedger[c] : redisLedger[c][i].id = id}

LEMMA NotBeforeCases ==
    ASSUME NEW c, NEW e, NEW f
    PROVE  NotBefore(c, e, f) <=>
              \/ e = f
              \/ event[e].epoch > event[f].epoch
              \/ \E i \in PlacesOf(c, e), j \in PlacesOf(c, f) : i < j
              \/ PlacesOf(c, f) = {} /\ (body[e].at >= body[f].at \/ MayBeTrimmed(c))
  BY DEF NotBefore, PlacesOf

\* The head of the list of Redis is not before anything recorded.
LEMMA HeadNotBefore ==
    ASSUME CustodyInv, NEW c \in Cargo, redisLedger[c] # <<>>,
           NEW f, Recorded(f), cargoOf(f) = c
    PROVE  NotBefore(c, redisLedger[c][1].id, f)
  <1> DEFINE list == redisLedger[c]
             e == list[1].id
  <1>1. list \in Seq(Event) /\ 1 \in DOMAIN list
    BY DEF CustodyInv, TypeInv, TypeOK
  <1>2. /\ list[1] \in pushed[c] /\ list[1].epoch = epoch
        /\ event[e] = list[1]
    BY <1>1 DEF CustodyInv, TrailInv, ListInv, Traced
  <1>3. CASE PlacesOf(c, f) # {}
    <2>1. PICK j \in DOMAIN list : list[j].id = f
      BY <1>3 DEF PlacesOf
    <2>2. CASE j = 1
      BY <2>1, <2>2 DEF NotBefore
    <2>3. CASE j # 1
      <3>1. 1 < j
        BY <1>1, <2>1, <2>3
      <3>2. 1 \in PlacesOf(c, e) /\ j \in PlacesOf(c, f)
        BY <1>1, <2>1 DEF PlacesOf
      <3>3. QED
        BY <3>1, <3>2, NotBeforeCases
    <2>4. QED
      BY <2>2, <2>3
  <1>4. CASE PlacesOf(c, f) = {}
    <2>1. f \notin ToSet(idsOf(list))
      BY <1>4 DEF PlacesOf, idsOf, ToSet
    <2>2. event[f].epoch < epoch \/ MayBeTrimmed(c)
      BY <2>1, WhereRecorded
    <2>3. CASE MayBeTrimmed(c)
      BY <1>4, <2>3, NotBeforeCases
    <2>4. CASE event[f].epoch < epoch
      <3>1. epoch \in Nat /\ event[f].epoch \in Nat
        <4>1. event[f] \in pushed[c]
          BY DEF Recorded
        <4>2. QED
          BY <4>1 DEF CustodyInv, TypeInv, TypeOK, Event
      <3>2. event[e].epoch > event[f].epoch
        BY <1>2, <2>4, <3>1
      <3>3. QED
        BY <3>2, NotBeforeCases
    <2>5. QED
      BY <2>2, <2>3, <2>4
  <1>5. QED
    BY <1>3, <1>4

\* Among the rows of the ledger store the first is not before any other, once
\* that was linked in a Redis that is lost.
LEMMA FirstRowNotBefore ==
    ASSUME CustodyInv, NEW c \in Cargo, NEW f, Recorded(f), event[f] \in ledger[c],
           event[f].epoch < epoch
    PROVE  ledgerHistory(c) # <<>> /\ NotBefore(c, ledgerHistory(c)[1], f)
  <1> DEFINE h == ledgerHistory(c)
  <1>1. /\ h \in Seq(Requests) /\ ToSet(h) = {e.id : e \in ledger[c]}
        /\ \A i, j \in DOMAIN h : i < j => body[h[i]].at >= body[h[j]].at
    BY LedgerHistoryRows
  <1>2. f \in ToSet(h) /\ f \in Requests /\ event[f].id = f
    BY <1>1 DEF Recorded
  <1> HIDE DEF h
  <1>3. PICK j \in DOMAIN h : h[j] = f
    BY <1>2 DEF ToSet
  <1>4. DOMAIN h = 1 .. Len(h) /\ Len(h) \in Nat /\ h # <<>>
    BY <1>1, <1>3
  <1>5. body[h[1]].at >= body[f].at
    <2>1. h[1] \in Requests
      BY <1>1, <1>3, <1>4
    <2>2. body[f].at \in Nat
      BY <1>2 DEF CustodyInv, TypeInv, TypeOK, Payload
    <2>3. CASE j = 1
      BY <1>3, <2>2, <2>3
    <2>4. CASE j # 1
      BY <1>1, <1>3, <1>4, <2>4
    <2>5. QED
      BY <2>3, <2>4
  <1>6. PlacesOf(c, f) = {}
    <2>1. SUFFICES ASSUME NEW i \in DOMAIN redisLedger[c], redisLedger[c][i].id = f PROVE FALSE
      BY DEF PlacesOf
    <2>2. redisLedger[c][i] \in pushed[c] /\ redisLedger[c][i].epoch = epoch
      BY DEF CustodyInv, TrailInv, ListInv
    <2>3. event[f] = redisLedger[c][i]
      BY <2>1, <2>2 DEF CustodyInv, TrailInv, Traced
    <2>4. epoch \in Nat
      BY DEF CustodyInv, TypeInv, TypeOK
    <2>5. QED
      BY <2>2, <2>3, <2>4
  <1>7. NotBefore(c, h[1], f)
    BY <1>5, <1>6, NotBeforeCases
  <1>8. QED
    BY <1>4, <1>7 DEF h

\* Pushes keep the order of what was recorded, until it is trimmed.
LEMMA NotBeforeStays ==
    ASSUME CustodyInv, NEW c \in Cargo, NEW e, NEW f, Recorded(e), Recorded(f),
           cargoOf(e) = c, cargoOf(f) = c, NotBefore(c, e, f),
           UNCHANGED <<event[e], event[f], body[e], body[f]>>,
           \/ \E r \in Requests : Begin(r) \/ Step(r)
           \/ UNCHANGED redisLedger
    PROVE  NotBefore(c, e, f)'
  <1>1. CASE redisLedger'[c] = redisLedger[c]
    BY <1>1 DEF NotBefore, MayBeTrimmed
  <1>2. ASSUME NEW r \in Requests, PushEvent(r), c = cargoOf(r) PROVE NotBefore(c, e, f)'
    <2> DEFINE old == redisLedger[c]
               new == redisLedger'[c]
               at(id) == {i \in DOMAIN old : old[i].id = id}
               after(id) == {i \in DOMAIN new : new[i].id = id}
    <2>1. /\ pc[r] = "push" /\ event[r].id = r
          /\ old \in Seq(Event) /\ new \in Seq(Event)
          /\ Len(old) <= Retention /\ Len(new) \in 1 .. Retention /\ new[1] = event[r]
          /\ \A i \in 2 .. Len(new) : new[i] = old[i - 1]
          /\ Len(new) = Len(old) + 1 \/ (Len(old) = Retention /\ Len(new) = Retention)
      BY <1>2, ListPush
    <2>2. e # r /\ f # r
      BY <2>1 DEF Recorded, PastPush
    <2>3. \A i, j \in DOMAIN old : old[i].id = old[j].id => i = j
      BY DEF CustodyInv, TrailInv, ListInv
    <2>4. ASSUME MayBeTrimmed(c) PROVE Len(new) = Retention
      BY <2>1, <2>4, RetentionAssumption DEF MayBeTrimmed
    <2> HIDE DEF old, new
    <2>5. PICK n \in Nat, m \in Nat :
             /\ Len(new) = m /\ DOMAIN old = 1 .. n /\ DOMAIN new = 1 .. m
             /\ m = n + 1 \/ (n = Retention /\ m = Retention)
             /\ \A i \in 2 .. m : new[i] = old[i - 1]
      <3>1. Len(old) \in Nat /\ DOMAIN old = 1 .. Len(old)
        BY <2>1
      <3>2. Len(new) \in Nat /\ DOMAIN new = 1 .. Len(new)
        BY <2>1
      <3>3. QED
        BY <2>1, <3>1, <3>2
    <2>5a. m <= n + 1 /\ (m # n + 1 => m = Retention)
      BY <2>5, RetentionAssumption
    <2>6. \A id \in {e, f} : \A k \in after(id) : k - 1 \in at(id) /\ k \in 2 .. m
      <3>1. ASSUME NEW id \in {e, f}, NEW k \in DOMAIN new, new[k].id = id
            PROVE  k - 1 \in at(id) /\ k \in 2 .. m
        <4>1. k # 1
          BY <2>1, <2>2, <3>1
        <4>2. k \in 2 .. m /\ k - 1 \in DOMAIN old
          BY <2>5, <2>5a, <3>1, <4>1
        <4>3. QED
          BY <2>5, <3>1, <4>2
      <3>2. QED
        BY <3>1
    <2>7. \A id \in {e, f} : \A k \in at(id) : k + 1 \in DOMAIN new => k + 1 \in after(id)
      <3>1. ASSUME NEW k \in DOMAIN old, k + 1 \in DOMAIN new PROVE new[k + 1] = old[k]
        <4>1. k + 1 \in 2 .. m /\ (k + 1) - 1 = k
          BY <2>5, <3>1
        <4>2. QED
          BY <2>5, <4>1
      <3>2. QED
        BY <3>1
    <2>8. \/ e = f
          \/ event'[e].epoch > event'[f].epoch
          \/ \E i \in after(e), j \in after(f) : i < j
          \/ after(f) = {} /\ (body'[e].at >= body'[f].at \/ m = Retention)
      <3>1. CASE e = f \/ event[e].epoch > event[f].epoch
        BY <3>1
      <3>2. ASSUME NEW i \in at(e), NEW j \in at(f), i < j
            PROVE  \/ \E k \in after(e), l \in after(f) : k < l
                   \/ after(f) = {} /\ m = Retention
        <4>1. CASE j + 1 \in DOMAIN new
          <5>1. i + 1 \in DOMAIN new
            BY <2>5, <3>2, <4>1
          <5>2. i + 1 \in after(e) /\ j + 1 \in after(f) /\ i + 1 < j + 1
            BY <2>5, <2>7, <3>2, <4>1, <5>1
          <5>3. QED
            BY <5>2
        <4>2. CASE j + 1 \notin DOMAIN new
          <5>1. m = Retention
            BY <2>5, <2>5a, <3>2, <4>2
          <5>2. after(f) = {}
            <6>1. SUFFICES ASSUME NEW k \in after(f) PROVE FALSE
              OBVIOUS
            <6>2. k - 1 \in at(f) /\ k \in 2 .. m
              BY <2>6
            <6>3. k - 1 = j
              BY <2>3, <3>2, <6>2
            <6>4. QED
              BY <2>5, <4>2, <6>2, <6>3
          <5>3. QED
            BY <5>1, <5>2
        <4>3. QED
          BY <4>1, <4>2
      <3>3. CASE at(f) = {} /\ (body[e].at >= body[f].at \/ MayBeTrimmed(c))
        <4>1. after(f) = {}
          BY <2>6, <3>3
        <4>2. QED
          BY <2>4, <2>5, <3>3, <4>1
      <3>4. \/ e = f
            \/ event[e].epoch > event[f].epoch
            \/ \E i \in at(e), j \in at(f) : i < j
            \/ at(f) = {} /\ (body[e].at >= body[f].at \/ MayBeTrimmed(c))
        BY NotBeforeCases DEF PlacesOf, old
      <3>5. QED
        BY <3>1, <3>2, <3>3, <3>4
    <2>9. MayBeTrimmed(c)' <=> Len(new) = Retention
      BY DEF MayBeTrimmed, new
    <2>10. QED
      BY <2>5, <2>8, <2>9 DEF NotBefore, new
  <1>3. ASSUME NEW r \in Requests, Begin(r) \/ (Step(r) /\ ~(PushEvent(r) /\ c = cargoOf(r)))
        PROVE  redisLedger'[c] = redisLedger[c]
    BY <1>3, BeginFrame, TrailSteps, ListPush DEF CustodyInv
  <1>4. QED
    BY <1>1, <1>2, <1>3

\* The head of a history is in its timeline, turned round and cut or not.
LEMMA HeadIsShown ==
    ASSUME NEW h \in Seq(Requests), h # <<>>
    PROVE  h[1] \in ToSet(Reverse(h)) /\ h[1] \in ToSet(recentEvents(h))
  <1> DEFINE turned == Reverse(h)
             n == Len(h)
  <1>1. /\ n \in Nat \ {0} /\ turned \in Seq(Requests) /\ Len(turned) = n /\ turned[n] = h[1]
    BY DEF Reverse
  <1>2. h[1] \in ToSet(turned)
    BY <1>1 DEF ToSet
  <1>3. h[1] \in ToSet(SliceEnd(turned, RecentEvents))
    <2> HIDE DEF turned, n
    <2> DEFINE from == IF n < RecentEvents THEN 1 ELSE n - RecentEvents + 1
               cut == SubSeq(turned, from, n)
    <2>1. from \in 1 .. n
      BY <1>1, ViewBoundsAssumption
    <2>2. SliceEnd(turned, RecentEvents) = cut
      BY <1>1 DEF SliceEnd
    <2> HIDE DEF from
    <2>3. Len(cut) = n - from + 1 /\ cut[n - from + 1] = turned[n] /\ cut \in Seq(Requests)
      BY <1>1, <2>1
    <2>4. n - from + 1 \in DOMAIN cut
      BY <1>1, <2>1, <2>3
    <2> HIDE DEF cut
    <2>5. turned[n] \in ToSet(cut)
      BY <2>3, <2>4 DEF ToSet
    <2>6. QED
      BY <1>1, <2>2, <2>5
  <1>4. QED
    BY <1>2, <1>3 DEF recentEvents

\* The state of a custodian f that a view has found, and whose timeline it shows.
Seeks(c, f) ==
    \/ /\ view.kind = "live-events"
       /\ \E s \in ToSet(shown(view.list)) : s.cargoId = c /\ s.currentCustodian = f
    \/ /\ view.kind = "chain-of-custody" /\ view.state # NoState
       /\ c = view.cargo /\ f = view.state.custodian

\* f has its row in the ledger store, and so can be found there.
Found(c, f) == Ledgered(c, f) /\ Recorded(f) /\ cargoOf(f) = c

\* A history whose first event is not before f.
Leads(c, h, f) ==
    /\ h \in Seq(Requests) /\ h # <<>>
    /\ Recorded(h[1]) /\ cargoOf(h[1]) = c
    /\ NotBefore(c, h[1], f)

\* A history that was empty in Redis is still to be read: Redis was lost then.
LeadsOrLost(c, h, f) == IF h # <<>> THEN Leads(c, h, f) ELSE event[f].epoch < epoch

TimelineInv ==
    ~LedgerMayBeLost =>
        \A c \in Cargo, f \in Requests : Seeks(c, f) =>
            /\ view.stage \in {"history", "historyLedger", "answered"} => Found(c, f)
            /\ view.stage = "historyLedger" => LeadsOrLost(c, view.history[c], f)
            /\ view.stage = "answered" => Leads(c, view.history[c], f)

LEMMA TimelineInit == InitViews => TimelineInv
  BY IdleFields DEF InitViews, TimelineInv

\* Until the server ends, what a view has found stays found.
LEMMA TimelineWaits ==
    ASSUME CustodyInv, ~LedgerMayBeLost, [NextWithViews]_allVars,
           \/ \E r \in Requests : Begin(r) \/ Step(r)
           \/ WriteBack \/ UNCHANGED vars,
           NEW c, NEW f, Found(c, f)
    PROVE  /\ Found(c, f)'
           /\ \A h : Leads(c, h, f) => Leads(c, h, f)'
           /\ \A h : LeadsOrLost(c, h, f) => LeadsOrLost(c, h, f)'
  <1>1. /\ Recorded(f)' /\ event'[f] = event[f] /\ body'[f] = body[f] /\ cargoOf(f)' = c
        /\ c \in Cargo
    BY RecordedKept DEF Found
  <1>2. event'[f] \in ledger'[c]
    BY <1>1, LedgerKept, CustodySteps DEF Found, Ledgered, CustodyInv
  <1>3. ASSUME NEW h, Leads(c, h, f) PROVE Leads(c, h, f)'
    <2>1. PICK e : e = h[1]
      OBVIOUS
    <2>2. Recorded(e) /\ cargoOf(e) = c /\ NotBefore(c, e, f)
      BY <1>3, <2>1 DEF Leads
    <2>3. Recorded(e)' /\ event'[e] = event[e] /\ body'[e] = body[e] /\ cargoOf(e)' = c
      BY <2>2, RecordedKept
    <2>4. (\E r \in Requests : Begin(r) \/ Step(r)) \/ redisLedger' = redisLedger
      BY DEF WriteBack, vars, redisVars
    <2>5. NotBefore(c, e, f)'
      BY <1>1, <2>2, <2>3, <2>4, NotBeforeStays DEF Found
    <2>6. QED
      BY <1>3, <2>1, <2>3, <2>5 DEF Leads
  <1>4. epoch' = epoch
    BY EpochStays
  <1>5. QED
    BY <1>1, <1>2, <1>3, <1>4 DEF Found, Ledgered, LeadsOrLost

\* What Redis has of a history is led by its head; where it has nothing, the
\* event was linked in a Redis that is lost, and its row leads to it.
LEMMA HistoriesLead ==
    ASSUME CustodyInv, NEW c \in Cargo, NEW f, Found(c, f)
    PROVE  /\ LeadsOrLost(c, idsOf(redisLedger[c]), f)
           /\ event[f].epoch < epoch => Leads(c, ledgerHistory(c), f)
  <1> DEFINE h == idsOf(redisLedger[c])
  <1>1. /\ h \in Seq(Requests) /\ Len(h) = Len(redisLedger[c])
        /\ \A r \in ToSet(h) : Recorded(r) /\ cargoOf(r) = c
        /\ \A r \in ToSet(ledgerHistory(c)) : Recorded(r) /\ cargoOf(r) = c
        /\ ledgerHistory(c) \in Seq(Requests)
    BY HistoryRecorded, LedgerHistoryRows
  <1>2. redisLedger[c] \in Seq(Event)
    BY DEF CustodyInv, TypeInv, TypeOK
  <1>3. h = <<>> <=> redisLedger[c] = <<>>
    BY <1>1, <1>2
  <1>4. \A g \in Seq(Requests) : g # <<>> => g[1] \in ToSet(g)
    BY DEF ToSet
  <1>5. ASSUME h # <<>> PROVE LeadsOrLost(c, h, f)
    <2>1. h[1] = redisLedger[c][1].id
      BY <1>2, <1>3, <1>5 DEF idsOf
    <2>2. NotBefore(c, h[1], f)
      BY <1>3, <1>5, <2>1, HeadNotBefore DEF Found
    <2>3. Leads(c, h, f)
      BY <1>1, <1>4, <1>5, <2>2 DEF Leads
    <2>4. QED
      BY <1>5, <2>3 DEF LeadsOrLost
  <1>6. ASSUME h = <<>> PROVE LeadsOrLost(c, h, f)
    <2>1. ~MayBeTrimmed(c)
      BY <1>3, <1>6, RetentionAssumption DEF MayBeTrimmed
    <2>2. f \notin ToSet(h)
      BY <1>6 DEF ToSet
    <2>3. event[f].epoch < epoch
      BY <2>1, <2>2, WhereRecorded DEF Found
    <2>4. QED
      BY <1>6, <2>3 DEF LeadsOrLost
  <1>7. ASSUME event[f].epoch < epoch PROVE Leads(c, ledgerHistory(c), f)
    <2>1. ledgerHistory(c) # <<>> /\ NotBefore(c, ledgerHistory(c)[1], f)
      BY <1>7, FirstRowNotBefore DEF Found, Ledgered
    <2>2. QED
      BY <1>1, <1>4, <2>1 DEF Leads
  <1>8. LeadsOrLost(c, h, f)
    BY <1>5, <1>6
  <1>9. QED
    BY <1>7, <1>8

\* Of a list or a state that is read from a store, every custodian is found.
LEMMA StoresFind ==
    ASSUME CustodyInv, GenuineInv, ShownInv, ~LedgerMayBeLost,
           NEW states \in {redisState, ledgerState}
    PROVE  /\ \A c \in Cargo : states[c] # NoState => Found(c, states[c].custodian)
           /\ LET list == newestFirst(rowsOf(states)) IN
              \A s \in ToSet(list) : Found(s.cargoId, s.currentCustodian)
  <1>1. \A c \in Cargo : states[c] # NoState => Found(c, states[c].custodian)
    BY ShownIsLedgered DEF ShownInv, LedgeredInv, Found
  <1>2. states \in [Cargo -> State]
    BY DEF CustodyInv, TypeInv, TypeOK
  <1>3. \A c \in Cargo : states[c] # NoState => states[c].custodian \in Requests
    BY DEF GenuineInv, Genuine
  <1>4. ToSet(newestFirst(rowsOf(states))) = rowsOf(states)
    BY <1>2, <1>3, ListOfRows DEF CustodyInv
  <1>5. \A c, s : Shipment(c, s).cargoId = c /\ Shipment(c, s).currentCustodian = s.custodian
    BY DEF Shipment
  <1>6. \A s \in rowsOf(states) : Found(s.cargoId, s.currentCustodian)
    BY <1>1, <1>5 DEF rowsOf
  <1>7. QED
    BY <1>1, <1>4, <1>6

\* The live feed shows rows of the list.
LEMMA ShownRows ==
    ASSUME NEW list \in Seq(Row)
    PROVE  /\ ToSet(Slice(list, LiveShipments)) \subseteq ToSet(list)
           /\ ToSet(list) \subseteq Row
  <1>1. ToSet(list) \subseteq Row
    BY DEF ToSet
  <1>2. ToSet(Slice(list, LiveShipments)) \subseteq ToSet(list)
    <2> DEFINE n == IF Len(list) < LiveShipments THEN Len(list) ELSE LiveShipments
               cut == SubSeq(list, 1, n)
    <2>1. n \in 0 .. Len(list)
      BY ViewBoundsAssumption
    <2>2. Slice(list, LiveShipments) = cut
      BY DEF Slice
    <2> HIDE DEF n
    <2>3. DOMAIN cut = 1 .. n /\ \A i \in 1 .. n : cut[i] = list[i] /\ i \in DOMAIN list
      BY <2>1
    <2> HIDE DEF cut
    <2>4. QED
      BY <2>2, <2>3 DEF ToSet
  <1>3. QED
    BY <1>1, <1>2

LEMMA SeeksHistory ==
    ASSUME DOMAIN view = Fields, NEW c, NEW f, Seeks(c, f)
    PROVE  c \in historyOf /\ view.kind \in {"live-events", "chain-of-custody"}
  BY DEF Seeks, historyOf

LEMMA TimelineStep ==
    /\ CustodyInv /\ ViewTypeOK /\ GenuineInv /\ ShownInv /\ LinksInv /\ TimelineInv
    /\ [NextWithViews]_allVars
    => TimelineInv'
  <1> SUFFICES ASSUME CustodyInv, ViewTypeOK, GenuineInv, ShownInv, LinksInv, TimelineInv,
                      [NextWithViews]_allVars, ~LedgerMayBeLost,
                      NEW c \in Cargo, NEW f \in Requests, Seeks(c, f)',
                      view'.stage \in {"history", "historyLedger", "answered"}
               PROVE  /\ Found(c, f)'
                      /\ view'.stage = "historyLedger" => LeadsOrLost(c, view.history[c], f)'
                      /\ view'.stage = "answered" => Leads(c, view.history[c], f)'
    BY DEF TimelineInv
  <1>1. DOMAIN view = Fields
    BY DEF ViewTypeOK, ViewShape
  <1>2. CASE UNCHANGED view /\ ~CrashServer
    <2>1. \/ \E r \in Requests : Begin(r) \/ Step(r)
          \/ WriteBack \/ UNCHANGED vars
      BY <1>2, ViewSteps DEF BeginRequest, StepRequest, Look, allVars
    <2>2. PICK h : h = view.history[c]
      OBVIOUS
    <2>3. Seeks(c, f)
      BY <1>2 DEF Seeks, shown
    <2>4. /\ Found(c, f)
          /\ view.stage = "historyLedger" => LeadsOrLost(c, h, f)
          /\ view.stage = "answered" => Leads(c, h, f)
      BY <1>2, <2>2, <2>3 DEF TimelineInv
    <2>5. /\ Found(c, f)'
          /\ LeadsOrLost(c, h, f) => LeadsOrLost(c, h, f)'
          /\ Leads(c, h, f) => Leads(c, h, f)'
      BY <2>1, <2>4, TimelineWaits
    <2>6. view'.history[c] = h /\ view'.stage = view.stage
      BY <1>2, <2>2
    <2>7. QED
      BY <2>4, <2>5, <2>6
  <1>3. CASE CrashServer
    BY <1>3, IdleFields DEF CrashServer
  <1>4. CASE WriteBack
    <2>1. /\ view.stage = "fill" /\ view'.stage = IF view.kind = "risk" THEN "answered" ELSE "history"
          /\ view'.state = view.state /\ view'.cargo = view.cargo /\ view'.kind = view.kind
      BY <1>1, <1>4, StateFields DEF Asked
    <2>2. /\ view.kind = "chain-of-custody" /\ view'.stage = "history"
          /\ view.state # NoState /\ c = view.cargo /\ f = view.state.custodian
      BY <2>1 DEF Seeks, ViewTypeOK, ViewKinds, StateViews
    <2>3. Found(c, f)
      BY <2>1, <2>2, ShownIsLedgered DEF ShownInv, Found
    <2>4. QED
      BY <1>4, <2>2, <2>3, TimelineWaits
  <1>5. CASE Look
    <2>1. UNCHANGED <<pc, body, event, epoch, redisLedger, pushed, ledger>>
      BY <1>5 DEF Look, vars, requestVars, redisVars, durableVars, ghostVars
    <2>2. /\ Found(c, f)' <=> Found(c, f)
          /\ \A h : (Leads(c, h, f)' <=> Leads(c, h, f)) /\ (LeadsOrLost(c, h, f)' <=> LeadsOrLost(c, h, f))
      BY <2>1 DEF Found, Ledgered, Recorded, cargoOf, Leads, LeadsOrLost, NotBefore, MayBeTrimmed
    <2>3. CASE \/ \E kind \in ListViews : Ask(kind, NoCargo)
               \/ \E kind \in StateViews \cup {"video"}, d \in Cargo : Ask(kind, d)
      <3>1. PICK kind \in ListViews \cup StateViews \cup {"video"}, d \in Cargo \cup {NoCargo} :
               Ask(kind, d)
        BY <2>3
      <3>2. view'.stage \in {"list", "alerts", "state", "evidence"}
        BY <3>1, AskFields DEF ListViews, StateViews
      <3>3. QED
        BY <3>2
    <2>4. CASE \/ \E r \in Requests : OpenReplay(r)
               \/ ReadAlerts \/ ReadEvidence \/ ReadReplayEvidence
      <3>1. view'.kind \in {"replay", "video"} \/ view'.stage = "list"
        BY <1>1, <2>4, OpenFields, ListFields, EvidenceFields DEF Asked
      <3>2. QED
        BY <3>1 DEF Seeks
    <2>5. ASSUME NEW states \in {redisState, ledgerState},
                 view'.list = newestFirst(rowsOf(states)), view'.kind = view.kind,
                 view.stage \in {"list", "listLedger"},
                 view'.stage = "listLedger" \/ view'.stage = afterList
          PROVE  Found(c, f) /\ view'.stage = "history"
      <3>1. view.kind = "live-events"
        BY <2>5 DEF Seeks, ViewTypeOK, ViewKinds, ListViews
      <3>2. \E s \in ToSet(view'.list) : s.cargoId = c /\ s.currentCustodian = f
        <4>1. view'.list \in Seq(Row)
          BY ViewTypeStep DEF CustodyInv, ViewTypeOK, ViewShape
        <4>2. ToSet(shown(view.list))' \subseteq ToSet(view'.list)
          BY <2>5, <3>1, <4>1, ShownRows DEF shown
        <4>3. QED
          BY <2>5, <3>1, <4>2 DEF Seeks
      <3>3. QED
        BY <2>5, <3>1, <3>2, StoresFind DEF afterList
    <2>6. CASE ReadIndex \/ ReadLedgerList
      <3>1. CASE ReadIndex
        BY <1>1, <2>2, <2>5, <3>1, ListFields DEF Asked
      <3>2. CASE ReadLedgerList
        BY <1>1, <2>2, <2>5, <3>2, ListFields DEF Asked
      <3>3. QED
        BY <2>6, <3>1, <3>2
    <2>7. CASE ReadState \/ ReadLedgerState
      <3>1. view.stage \in {"state", "load"} /\ view'.kind = view.kind /\ view'.cargo = view.cargo
        BY <1>1, <2>7, StateFields DEF Asked
      <3>2. view.kind = "chain-of-custody" /\ c = view.cargo
        BY <3>1 DEF Seeks, ViewTypeOK, ViewKinds, StateViews
      <3>3. view'.state # NoState /\ f = view'.state.custodian
        BY <3>1, <3>2 DEF Seeks
      <3>4. CASE ReadState
        <4>1. /\ view'.state = redisState[c]
              /\ view'.stage = IF redisState[c] = NoState THEN "load" ELSE "history"
          BY <1>1, <3>2, <3>4, StateFields
        <4>2. QED
          BY <2>2, <3>3, <4>1, StoresFind
      <3>5. CASE ReadLedgerState
        BY <1>1, <3>2, <3>3, <3>5, StateFields
      <3>6. QED
        BY <2>7, <3>4, <3>5
    <2>8. CASE ReadHistory \/ ReadLedgerHistory
      <3>1. /\ view.stage \in {"history", "historyLedger"}
            /\ view'.kind = view.kind /\ view'.cargo = view.cargo
            /\ view'.list = view.list /\ view'.state = view.state
        BY <1>1, <2>8, HistoryFields DEF Asked
      <3>2. Seeks(c, f) /\ c \in historyOf
        <4>1. Seeks(c, f)
          BY <3>1 DEF Seeks, shown
        <4>2. QED
          BY <1>1, <4>1, SeeksHistory
      <3>3. Found(c, f)
        BY <3>1, <3>2 DEF TimelineInv
      <3>4. CASE ReadHistory
        <4>1. IF \A d \in historyOf : cachedHistory[d] # <<>>
              THEN view'.history = cachedHistory /\ view'.stage = "answered"
              ELSE view'.history = cachedHistory /\ view'.stage = "historyLedger"
          BY <1>1, <3>4, HistoryFields DEF AnswerFields
        <4>2. cachedHistory[c] = idsOf(redisLedger[c])
          BY <3>2 DEF cachedHistory
        <4>3. LeadsOrLost(c, idsOf(redisLedger[c]), f)
          BY <3>3, HistoriesLead
        <4>4. PICK h : h = idsOf(redisLedger[c])
          OBVIOUS
        <4>5. view'.history[c] = h /\ LeadsOrLost(c, h, f)'
          BY <2>2, <4>1, <4>2, <4>3, <4>4
        <4>6. view'.stage = "answered" => h # <<>>
          BY <3>2, <4>1, <4>2, <4>4
        <4>7. QED
          BY <2>2, <3>3, <4>1, <4>5, <4>6 DEF LeadsOrLost
      <3>5. CASE ReadLedgerHistory
        <4>1. /\ view'.history = loadedHistory /\ view'.stage = "answered"
              /\ view.stage = "historyLedger"
          BY <1>1, <3>5, HistoryFields DEF AnswerFields
        <4>2. c \in DOMAIN view.history
          BY <3>2, <4>1 DEF LinksInv
        <4>3. loadedHistory[c] = IF view.history[c] # <<>> THEN view.history[c] ELSE ledgerHistory(c)
          BY <4>2 DEF loadedHistory
        <4>4. LeadsOrLost(c, view.history[c], f)
          BY <3>2, <4>1 DEF TimelineInv
        <4>5. Leads(c, loadedHistory[c], f)
          BY <3>3, <4>3, <4>4, HistoriesLead DEF LeadsOrLost
        <4>6. PICK h : h = loadedHistory[c]
          OBVIOUS
        <4>7. view'.history[c] = h /\ Leads(c, h, f)'
          BY <2>2, <4>1, <4>5, <4>6
        <4>8. QED
          BY <2>2, <3>3, <4>1, <4>7
      <3>6. QED
        BY <2>8, <3>4, <3>5
    <2>9. QED
      BY <1>5, <2>3, <2>4, <2>6, <2>7, <2>8 DEF Look
  <1>6. QED
    BY <1>2, <1>3, <1>4, <1>5, ViewSteps DEF BeginRequest, StepRequest, allVars, viewVars

\* TimelineCatchesUp for any number of cargo, requests, views and crashes: what
\* is in a state's store was pushed before, and the head of the list, or of
\* the rows once Redis is lost, is not before it.
THEOREM TimelinesCatchUp == SpecWithViews => []TimelineCatchesUp
  <1>1. ASSUME ViewTypeOK, GenuineInv, TimelineInv PROVE TimelineCatchesUp
    <2>1. SUFFICES ASSUME ~LedgerMayBeLost, view.stage = "answered"
                   PROVE  /\ view.kind = "chain-of-custody" /\ view.state # NoState =>
                                \E e \in ToSet(timeline(view.cargo)) :
                                    NotBefore(view.cargo, e, view.state.custodian)
                          /\ view.kind = "live-events" =>
                                \A s \in ToSet(shown(view.list)) :
                                    \E e \in ToSet(timeline(s.cargoId)) :
                                        NotBefore(s.cargoId, e, s.currentCustodian)
      BY DEF TimelineCatchesUp, Answered
    <2>2. ASSUME NEW c \in Cargo, NEW f \in Requests, Seeks(c, f)
          PROVE  \E e \in ToSet(timeline(c)) : NotBefore(c, e, f)
      <3>1. /\ view.history[c] \in Seq(Requests) /\ view.history[c] # <<>>
            /\ NotBefore(c, view.history[c][1], f)
        BY <1>1, <2>1, <2>2 DEF TimelineInv, Leads
      <3>2. view.history[c][1] \in ToSet(timeline(c))
        BY <3>1, HeadIsShown DEF timeline
      <3>3. QED
        BY <3>1, <3>2
    <2>3. ASSUME view.kind = "chain-of-custody", view.state # NoState
          PROVE  \E e \in ToSet(timeline(view.cargo)) :
                     NotBefore(view.cargo, e, view.state.custodian)
      <3>1. view.cargo \in Cargo /\ view.state.custodian \in Requests
        BY <1>1, <2>3 DEF ViewTypeOK, ViewKinds, StateViews, GenuineInv, Genuine
      <3>2. QED
        BY <2>2, <2>3, <3>1 DEF Seeks
    <2>4. ASSUME view.kind = "live-events", NEW s \in ToSet(shown(view.list))
          PROVE  \E e \in ToSet(timeline(s.cargoId)) :
                     NotBefore(s.cargoId, e, s.currentCustodian)
      <3>1. s \in Row
        <4>1. view.list \in Seq(Row)
          BY <1>1 DEF ViewTypeOK, ViewShape
        <4>2. QED
          BY <2>4, <4>1, ShownRows DEF shown
      <3>2. s.cargoId \in Cargo /\ s.currentCustodian \in Requests
        BY <3>1 DEF Row
      <3>3. QED
        BY <2>2, <2>4, <3>2 DEF Seeks
    <2>5. QED
      BY <2>3, <2>4
  <1>2. QED
    BY ViewsInvariant, LinksInit, LinksStep, ShownInit, ShownStep, TimelineInit, TimelineStep,
       <1>1, PTL DEF SpecWithViews

(***************************************************************************)
(* Answers.  What a request was answered with, nobody overlapping it and   *)
(* no view writing back over it, stays in every state that is stored, or   *)
(* on its way to a store; while its event is the newest, as it is.         *)
(***************************************************************************)
Filling(c) == view.stage = "fill" /\ view.cargo = c

\* Past the write of the state to Redis.
Late == {"upsert", "log", "alert", "respond", "notify", "done"}

FillRaced == \A r \in InFlight : Filling(cargoOf(r)) => r \in raced

\* Whoever touched the state an event is built on had ended by then.
TouchedPast(r) == \A q \in event[r].state.touched \ {r} : pc[q] \in {"done", "aborted"}

Stands(r) ==
    LET c == cargoOf(r) IN
    /\ pc[r] \in {"upsert", "log", "alert", "respond", "notify"} =>
          redisState[c] = event[r].state
    /\ pc[r] \in {"log", "alert", "respond", "notify", "done"} =>
          ledgerState[c] = event[r].state
    /\ pc[r] = "done" =>
          /\ redisState[c] \in {NoState, event[r].state}
          /\ Filling(c) => view.state = event[r].state

Keeps(r) ==
    /\ Remembered(r)
    /\ pc[r] = "done" =>
          /\ TouchedPast(r)
          /\ Filling(cargoOf(r)) => r \in view.state.touched
    /\ Newest(r) => Stands(r)

StoredInv ==
    /\ FillRaced
    /\ ~LedgerMayBeLost => \A r \in Requests : Undisturbed(r) => Keeps(r)

(***************************************************************************)
(* What a view has read so far shows of the requests answered before.      *)
(***************************************************************************)
\* Answered in this Redis: the cargo is in the index.
DoneIndexed ==
    \A r \in Requests : (pc[r] = "done" /\ event[r].epoch = epoch) => redisState[cargoOf(r)] # NoState

BeforeInv ==
    /\ \A r \in view.before : pc[r] = "done"
    /\ view.kind \in ListViews \cup StateViews => view.epoch = epoch

ListKnows(r) ==
    (view.kind \in ListViews /\ view.stage \in {"history", "historyLedger", "answered"}) =>
        \/ cargoOf(r) \notin listed /\ listed # {} /\ event[r].epoch < view.epoch
        \/ \E s \in ToSet(view.list) :
              /\ s.cargoId = cargoOf(r) /\ handlerOf[r] \in s.touchedBy
              /\ Newest(r) => s = Shipment(cargoOf(r), event[r].state)

StateKnows(r) ==
    (view.kind \in StateViews /\ view.cargo = cargoOf(r)) =>
        /\ view.stage \in {"fill", "history", "historyLedger", "answered"} =>
              /\ r \in view.state.touched
              /\ Newest(r) => view.state = event[r].state
        /\ (view.kind = "chain-of-custody" /\ view.stage \in {"historyLedger", "answered"}) =>
              \/ r \in ToSet(view.history[view.cargo])
              \/ event[r].epoch < epoch
              \/ MayBeTrimmed(view.cargo)

AnswersInv ==
    ~LedgerMayBeLost =>
        \A r \in view.before : Undisturbed(r) => ListKnows(r) /\ StateKnows(r)

\* What a step of the composition leaves: requests that have begun, who
\* overlapped, and what views have raced with.
LEMMA GhostsGrow ==
    ASSUME TypeInv, DOMAIN view = Fields, [NextWithViews]_allVars
    PROVE  raced \subseteq raced' /\ overlap \subseteq overlap'
  <1>1. overlap \subseteq overlap'
    <2>1. ASSUME NEW r \in Requests, Begin(r) PROVE overlap \subseteq overlap'
      BY <2>1, BeginFrame
    <2>2. ASSUME NEW r \in Requests, Step(r) PROVE overlap \subseteq overlap'
      BY <2>2, StepFrame DEF Frame
    <2>3. Crash \/ WriteBack \/ UNCHANGED vars => overlap' = overlap
      BY CrashFrame DEF WriteBack, ghostVars, vars
    <2>4. QED
      BY <2>1, <2>2, <2>3, CustodySteps DEF Next, Finished
  <1>2. raced \subseteq raced'
    <2>1. ASSUME NEW r \in Requests, BeginRequest(r) PROVE raced \subseteq raced'
      BY <2>1 DEF BeginRequest
    <2>2. (\E r \in Requests : StepRequest(r)) \/ CrashServer \/ WriteBack \/ UNCHANGED allVars
          => raced' = raced
      BY DEF StepRequest, CrashServer, WriteBack, allVars, viewVars
    <2>3. Look => raced \subseteq raced'
      BY ListFields, StateFields, EvidenceFields, HistoryFields, AskFields, OpenFields DEF Look
    <2>4. QED
      BY <2>1, <2>2, <2>3, ViewSteps
  <1>3. QED
    BY <1>1, <1>2

LEMMA UndisturbedBefore ==
    ASSUME CustodyInv, DOMAIN view = Fields, [NextWithViews]_allVars,
           NEW r \in Requests, pc[r] # "idle", Undisturbed(r)'
    PROVE  /\ Undisturbed(r) /\ RanAlone(r)'
           /\ cargoOf(r)' = cargoOf(r) /\ cargoOf(r) \in Cargo
  <1>1. /\ \A q \in Requests : pc[q] # "idle" => pc'[q] # "idle" /\ cargoOf(q)' = cargoOf(q)
        /\ raced \subseteq raced' /\ overlap \subseteq overlap' /\ cargoOf(r) \in Cargo
    BY Started, GhostsGrow, CustodySteps DEF CustodyInv, TypeInv, TypeOK, Payload, cargoOf
  <1>2. RanAlone(r)' /\ r \notin raced
    BY <1>1 DEF Undisturbed
  <1>3. RanAlone(r)
    <2>1. SUFFICES ASSUME NEW q \in Requests \ {r}, cargoOf(q) = cargoOf(r), Overlapped(r, q)
                   PROVE  FALSE
      BY DEF RanAlone
    <2>2. pc[q] # "idle"
      BY <2>1 DEF CustodyInv, PlanInv, OverlapStarted
    <2>3. cargoOf(q)' = cargoOf(r)' /\ Overlapped(r, q)'
      BY <1>1, <2>1, <2>2 DEF Overlapped
    <2>4. QED
      BY <1>2, <2>3 DEF RanAlone
  <1>4. QED
    BY <1>1, <1>2, <1>3 DEF Undisturbed

LEMMA NewestBefore ==
    ASSUME CustodyInv, [NextWithViews]_allVars,
           NEW r \in Requests, pc[r] # "idle", event'[r] = event[r], Newest(r)'
    PROVE  Newest(r)
  <1>1. \A q \in Requests : pc[q] # "idle" => pc'[q] # "idle" /\ cargoOf(q)' = cargoOf(q)
    BY Started, CustodySteps DEF CustodyInv
  <1>2. QED
    BY <1>1 DEF Newest

\* Nobody else is at the cargo of the newest event of a request that ran alone.
LEMMA Quiet ==
    ASSUME CustodyInv, NEW r \in Requests, RanAlone(r),
           \/ pc[r] \in Stages
           \/ pc[r] = "done" /\ Newest(r) /\ TouchedPast(r),
           NEW q \in Requests \ {r}, cargoOf(q) = cargoOf(r)
    PROVE  pc[q] \notin Stages
  <1>1. CASE pc[r] \in Stages
    BY <1>1 DEF RanAlone, CustodyInv, ForkInv, InFlightOverlap, InFlight
  <1>2. CASE Newest(r) /\ TouchedPast(r)
    BY <1>2 DEF Newest, TouchedPast, Stages
  <1>3. QED
    BY <1>1, <1>2

LEMMA KeepsEarly ==
    ASSUME NEW r \in Requests,
           pc[r] \notin Late
    PROVE  Keeps(r)
  BY DEF Late, Keeps, Remembered, Stands

LEMMA StoredInit == InitViews => StoredInv
  <1> SUFFICES ASSUME InitViews PROVE StoredInv
    OBVIOUS
  <1>1. \A r \in Requests : pc[r] = "idle"
    BY DEF InitViews, Init
  <1>2. \A r \in Requests : Keeps(r)
    BY <1>1, KeepsEarly DEF Late
  <1>3. QED
    BY <1>1, <1>2 DEF StoredInv, FillRaced, InFlight, Stages

\* The last steps of a request.
LEMMA LateSteps ==
    ASSUME TypeInv, NEW r \in Requests, Step(r),
           pc'[r] \in Late
    PROVE  /\ event' = event
           /\ pc'[r] = "upsert" => redisState'[cargoOf(r)] = event[r].state
           /\ pc'[r] # "upsert" =>
                 /\ pc[r] \in {"upsert", "log", "alert", "respond", "notify"}
                 /\ redisState' = redisState
                 /\ \/ pc[r] # "upsert" /\ ledgerState' = ledgerState
                    \/ ledgerState'[cargoOf(r)] = event[r].state
  <1> USE DEF Late, GoTo, cargoOf, TypeInv, TypeOK, Payload, redisVars, durableVars
  <1>1. CASE \/ GetState(r, "get1", "load1", "decide") \/ GetState(r, "get2", "load2", "latest")
             \/ LoadState(r, "load1", "fill1", "decide") \/ LoadState(r, "load2", "fill2", "latest")
    BY <1>1 DEF GetState, LoadState
  <1>2. CASE \/ FillState(r, "fill1", "decide") \/ FillState(r, "fill2", "latest")
             \/ Decide(r) \/ GetLatestEvent(r) \/ PushEvent(r)
    BY <1>2 DEF FillState, Decide, GetLatestEvent, PushEvent
  <1>3. CASE InsertEvent(r) \/ SaveEvidence(r) \/ SetState(r) \/ UpsertState(r)
    BY <1>3 DEF InsertEvent, SaveEvidence, SetState, UpsertState
  <1>4. CASE LogEvent(r) \/ AppendAlert(r) \/ OrchestrateCargoIncident(r) \/ LogIncident(r)
    BY <1>4 DEF LogEvent, AppendAlert, OrchestrateCargoIncident, LogIncident
  <1>5. QED
    BY <1>1, <1>2, <1>3, <1>4 DEF Step

LEMMA LateKept ==
    ASSUME TypeInv, [NextWithViews]_allVars, NEW r \in Requests, pc'[r] \in Late
    PROVE  pc[r] # "idle" /\ event'[r] = event[r]
  <1>1. ASSUME NEW q \in Requests, Begin(q) PROVE pc[r] # "idle" /\ event'[r] = event[r]
    BY <1>1, BeginFrame DEF Late
  <1>2. ASSUME NEW q \in Requests, Step(q) PROVE pc[r] # "idle" /\ event'[r] = event[r]
    BY <1>2, StepFrame, LateSteps DEF Frame, Late, Stages
  <1>3. Crash => pc[r] # "idle" /\ event'[r] = event[r]
    BY CrashFrame DEF Late
  <1>4. WriteBack \/ UNCHANGED vars => pc[r] # "idle" /\ event'[r] = event[r]
    BY DEF WriteBack, vars, requestVars, Late
  <1>5. QED
    BY <1>1, <1>2, <1>3, <1>4, CustodySteps DEF Next, Finished

\* A view is filling since it read the ledger store, in this very step or before.
LEMMA FillSteps ==
    ASSUME DOMAIN view = Fields, [NextWithViews]_allVars, view'.stage = "fill"
    PROVE  \/ view' = view /\ ~WriteBack
           \/ /\ UNCHANGED vars /\ view'.cargo = view.cargo
              /\ view'.state = ledgerState[view.cargo]
              /\ raced' = raced \cup {r \in InFlight : cargoOf(r) = view.cargo}
  <1>1. ~WriteBack /\ ~CrashServer
    BY StateFields, IdleFields DEF CrashServer
  <1>2. CASE Look
    <2>1. ReadLedgerState \/ view' = view
      <3>1. \A kind \in ListViews : ~Ask(kind, NoCargo)
        BY AskFields DEF ListViews
      <3>2. \A kind \in StateViews \cup {"video"}, c \in Cargo : ~Ask(kind, c)
        BY AskFields
      <3>3. \A r : ~OpenReplay(r)
        BY OpenFields
      <3>4. ~ReadAlerts /\ ~ReadIndex /\ ~ReadLedgerList
        BY ListFields DEF afterList
      <3>5. ~ReadState
        BY StateFields
      <3>6. ~ReadEvidence /\ ~ReadReplayEvidence
        BY EvidenceFields
      <3>7. ~ReadHistory /\ ~ReadLedgerHistory
        BY HistoryFields DEF AnswerFields
      <3>8. QED
        BY <1>2, <3>1, <3>2, <3>3, <3>4, <3>5, <3>6, <3>7 DEF Look
    <2>2. CASE ReadLedgerState
      BY <2>2, StateFields DEF Asked
    <2>3. QED
      BY <1>1, <2>1, <2>2
  <1>3. QED
    BY <1>1, <1>2, ViewSteps DEF BeginRequest, StepRequest, viewVars, allVars

LEMMA FillRacedStep ==
    CustodyInv /\ ViewTypeOK /\ FillRaced /\ [NextWithViews]_allVars => FillRaced'
  <1> SUFFICES ASSUME CustodyInv, ViewTypeOK, FillRaced, [NextWithViews]_allVars,
                      NEW r \in Requests, r \in InFlight', Filling(cargoOf(r))'
               PROVE  r \in raced'
    BY DEF FillRaced, InFlight
  <1>1. /\ TypeInv /\ DOMAIN view = Fields /\ view'.stage = "fill"
        /\ view'.cargo = cargoOf(r)'
    BY DEF CustodyInv, ViewTypeOK, ViewShape, Filling
  <1>2. raced \subseteq raced'
    BY <1>1, GhostsGrow
  <1>3. CASE UNCHANGED vars
    BY <1>1, <1>2, <1>3, FillSteps DEF vars, requestVars, InFlight, cargoOf, FillRaced, Filling
  <1>4. CASE view' = view /\ ~WriteBack
    <2>1. ASSUME NEW q \in Requests, BeginRequest(q) PROVE r \in raced'
      <3>1. CASE q = r
        BY <1>1, <1>4, <2>1, <3>1 DEF BeginRequest, cargoOf
      <3>2. CASE q # r
        BY <1>1, <1>2, <1>4, <2>1, <3>2, BeginFrame
        DEF BeginRequest, InFlight, cargoOf, FillRaced, Filling
      <3>3. QED
        BY <3>1, <3>2
    <2>2. ASSUME NEW q \in Requests, StepRequest(q) PROVE r \in raced'
      <3>1. pc[r] \in Stages /\ cargoOf(r)' = cargoOf(r)
        BY <1>1, <2>2, StepFrame DEF StepRequest, Frame, InFlight, cargoOf
      <3>2. QED
        BY <1>1, <1>2, <1>4, <3>1 DEF InFlight, FillRaced, Filling
    <2>3. ~CrashServer
      BY <1>1, IdleFields DEF CrashServer
    <2>4. QED
      BY <1>3, <1>4, <2>1, <2>2, <2>3, ViewSteps DEF Look, allVars
  <1>5. QED
    BY <1>1, <1>3, <1>4, FillSteps

\* A view that writes a state back over that of a request was read after it.
LEMMA WrittenBack ==
    ASSUME CustodyInv, ViewTypeOK, FillRaced, WriteBack,
           NEW r \in Requests, Undisturbed(r), Keeps(r), cargoOf(r) \in Cargo
    PROVE  LET c == cargoOf(r) IN
           \/ redisState'[c] = redisState[c]
           \/ /\ pc[r] \notin Stages /\ Filling(c) /\ redisState'[c] = view.state
              /\ pc[r] = "done" => r \in view.state.touched
  <1>1. /\ redisState' = [redisState EXCEPT ![view.cargo] = view.state]
        /\ view.stage = "fill" /\ redisState \in [Cargo -> State]
    BY StateFields DEF CustodyInv, TypeInv, TypeOK, ViewTypeOK, ViewShape
  <1>2. CASE view.cargo = cargoOf(r)
    BY <1>1, <1>2 DEF Filling, Undisturbed, FillRaced, InFlight, Keeps
  <1>3. QED
    BY <1>1, <1>2

LEMMA RememberedView ==
    ASSUME CustodyInv, ViewTypeOK, StoredInv, [NextWithViews]_allVars, ~LedgerMayBeLost,
           NEW r \in Requests, pc[r] # "idle", Undisturbed(r)'
    PROVE  Remembered(r)'
  <1>1. /\ Undisturbed(r) /\ RanAlone(r) /\ RanAlone(r)' /\ Keeps(r) /\ Remembered(r)
        /\ cargoOf(r) \in Cargo
    BY UndisturbedBefore DEF StoredInv, Keeps, Undisturbed, ViewTypeOK, ViewShape
  <1>2. CASE [Next]_vars
    BY <1>1, <1>2, RememberedStep DEF CustodyInv, ForkInv
  <1>3. CASE WriteBack
    <2>1. /\ UNCHANGED <<pc, body, prev, event, ledgerState>>
      BY <1>3 DEF WriteBack, requestVars, durableVars
    <2>2. PICK c \in Cargo : c = cargoOf(r)
      BY <1>1
    <2>3. \A q \in Requests : (cargoOf(q)' = cargoOf(q)) /\ (Carries(q, r)' = Carries(q, r))
      BY <2>1 DEF Carries, cargoOf
    <2>4. \/ redisState'[c] = redisState[c]
          \/ pc[r] \notin Stages /\ (pc[r] = "done" => r \in redisState'[c].touched)
      BY <1>1, <1>3, <2>2, WrittenBack DEF StoredInv
    <2>5. QED
      BY <1>1, <2>1, <2>2, <2>3, <2>4 DEF Remembered, Stages
  <1>4. QED
    BY <1>2, <1>3, CustodySteps

\* Nobody a request built on goes on after its answer.
LEMMA PastKept ==
    ASSUME CustodyInv, GenuineInv, [NextWithViews]_allVars, NEW r \in Requests,
           RanAlone(r), pc'[r] = "done", pc[r] = "done" => TouchedPast(r)
    PROVE  TouchedPast(r)'
  <1>1. TypeInv /\ PlanInv /\ ForkInv /\ event'[r] = event[r] /\ pc[r] # "idle"
    BY LateKept DEF CustodyInv, Late
  <1>2. ASSUME NEW q \in Requests, pc[q] \in {"done", "aborted"}
        PROVE  pc'[q] \in {"done", "aborted"}
    <2>1. ASSUME NEW k \in Requests, Begin(k) PROVE pc'[q] = pc[q]
      BY <1>1, <1>2, <2>1, BeginFrame
    <2>2. ASSUME NEW k \in Requests, Step(k) PROVE pc'[q] = pc[q]
      BY <1>1, <1>2, <2>2, StepFrame DEF Frame, Stages
    <2>3. Crash => pc'[q] = pc[q]
      BY <1>1, <1>2, CrashFrame DEF Stages
    <2>4. WriteBack \/ UNCHANGED vars => pc'[q] = pc[q]
      BY DEF WriteBack, vars, requestVars
    <2>5. QED
      BY <1>2, <2>1, <2>2, <2>3, <2>4, CustodySteps DEF Next, Finished
  <1>3. TouchedPast(r)
    <2>1. CASE pc[r] # "done"
      <3>1. pc[r] \in Stages /\ pc[r] \in Built
        <4>1. ASSUME NEW k \in Requests, Begin(k) PROVE FALSE
          BY <1>1, <2>1, <4>1, BeginFrame
        <4>2. ASSUME NEW k \in Requests, Step(k) PROVE pc[r] \in Stages /\ pc[r] \in Built
          <5>1. k = r
            BY <1>1, <2>1, <4>2, StepFrame DEF Frame
          <5>2. pc[r] \in {"upsert", "log", "alert", "respond", "notify"}
            BY <1>1, <4>2, <5>1, LateSteps DEF Late
          <5>3. QED
            BY <5>2 DEF Stages, Built
        <4>3. ~Crash
          BY <1>1, <2>1, CrashFrame
        <4>4. ~WriteBack /\ ~UNCHANGED vars
          BY <2>1 DEF WriteBack, vars, requestVars
        <4>5. QED
          BY <4>1, <4>2, <4>3, <4>4, CustodySteps DEF Next, Finished
      <3>2. event[r].state.touched = prev[r].touched \cup {r}
        BY <1>1, <3>1, BuiltState
      <3>3. ASSUME NEW q \in event[r].state.touched \ {r} PROVE pc[q] \in {"done", "aborted"}
        <4>1. q \in Requests /\ pc[q] # "idle" /\ cargoOf(q) = cargoOf(r)
          BY <1>1, <3>2, <3>3 DEF GenuineInv, Genuine
        <4>2. pc[q] \notin Stages
          BY <1>1, <3>1, <3>3, <4>1, Quiet
        <4>3. QED
          BY <1>1, <4>1, <4>2 DEF TypeInv, TypeOK
      <3>4. QED
        BY <3>3 DEF TouchedPast
    <2>2. QED
      BY <2>1
  <1>4. ASSUME NEW q \in event[r].state.touched \ {r} PROVE pc'[q] \in {"done", "aborted"}
    <2>1. pc[q] \in {"done", "aborted"} /\ q \in Requests
      <3>1. event[r].state \in State
        BY <1>1, NoStateType DEF TypeInv, TypeOK, Event, NoEvent
      <3>2. QED
        BY <1>3, <1>4, <3>1 DEF TouchedPast, State
    <2>2. QED
      BY <1>2, <2>1
  <1>5. QED
    BY <1>1, <1>4 DEF TouchedPast

\* While its event is the newest nobody else stores a state of the cargo.
LEMMA StandsStep ==
    ASSUME CustodyInv, ViewTypeOK, StoredInv, [NextWithViews]_allVars, ~LedgerMayBeLost,
           NEW r \in Requests, pc'[r] \in Late, Undisturbed(r)', Newest(r)'
    PROVE  Stands(r)'
  <1>1. /\ Undisturbed(r) /\ RanAlone(r) /\ Keeps(r) /\ cargoOf(r) \in Cargo
        /\ cargoOf(r)' = cargoOf(r) /\ event'[r] = event[r] /\ pc[r] # "idle"
        /\ TypeInv /\ DOMAIN view = Fields /\ FillRaced
    BY LateKept, UndisturbedBefore DEF StoredInv, Undisturbed, CustodyInv, ViewTypeOK, ViewShape
  <1>2. Newest(r) /\ Stands(r)
    BY <1>1, NewestBefore DEF Keeps
  <1>3. PICK c \in Cargo : c = cargoOf(r)
    BY <1>1
  <1>4. ASSUME pc'[r] = "done", view'.stage = "fill", view'.cargo = c
        PROVE  view'.state = event[r].state
    <2>1. CASE view' = view /\ ~WriteBack
      <3>1. pc[r] = "done"
        <4>1. pc[r] \notin Stages
          BY <1>1, <1>3, <1>4, <2>1 DEF FillRaced, Filling, InFlight, Undisturbed
        <4>2. QED
          <5>1. ASSUME NEW q \in Requests, Begin(q) PROVE pc[r] = "done"
            BY <1>1, <1>4, <5>1, BeginFrame
          <5>2. ASSUME NEW q \in Requests, Step(q) PROVE pc[r] = "done"
            BY <1>1, <1>4, <4>1, <5>2, StepFrame DEF Frame
          <5>3. Crash \/ UNCHANGED vars => pc[r] = "done"
            BY <1>1, <1>4, CrashFrame DEF vars, requestVars
          <5>4. QED
            BY <2>1, <5>1, <5>2, <5>3, CustodySteps DEF Next, Finished
      <3>2. QED
        BY <1>2, <1>3, <1>4, <2>1, <3>1 DEF Stands, Filling
    <2>2. CASE UNCHANGED vars /\ view'.state = ledgerState[view.cargo] /\ view'.cargo = view.cargo
      BY <1>2, <1>3, <1>4, <2>2 DEF Stands, vars, requestVars
    <2>3. QED
      BY <1>1, <1>4, <2>1, <2>2, FillSteps
  <1> DEFINE Stored ==
          /\ pc'[r] \in {"upsert", "log", "alert", "respond", "notify"} =>
                redisState'[c] = event[r].state
          /\ pc'[r] \in {"log", "alert", "respond", "notify", "done"} =>
                ledgerState'[c] = event[r].state
          /\ pc'[r] = "done" => redisState'[c] \in {NoState, event[r].state}
  <1>5. pc'[r] = pc[r] /\ redisState'[c] = redisState[c] /\ ledgerState'[c] = ledgerState[c]
        => Stored
    BY <1>2, <1>3 DEF Stands
  <1>6. ASSUME NEW q \in Requests, Begin(q) PROVE Stored
    BY <1>1, <1>5, <1>6, BeginFrame
  <1>7. ASSUME NEW q \in Requests, Step(q) PROVE Stored
    <2>1. Frame(q)
      BY <1>1, <1>7, StepFrame
    <2>2. CASE q = r
      BY <1>1, <1>2, <1>3, <1>7, <2>2, LateSteps DEF Stands, Late
    <2>3. CASE q # r
      <3>1. pc'[r] = pc[r]
        BY <2>1, <2>3 DEF Frame
      <3>2. cargoOf(q) # c
        <4>1. pc[r] \in Stages \/ (pc[r] = "done" /\ TouchedPast(r))
          BY <1>1, <3>1 DEF Late, Stages, Keeps
        <4>2. QED
          BY <1>1, <1>2, <1>3, <2>1, <2>3, <4>1, Quiet DEF Frame
      <3>3. QED
        BY <1>5, <2>1, <3>1, <3>2 DEF Frame
    <2>4. QED
      BY <2>2, <2>3
  <1>8. ASSUME Crash PROVE Stored
    <2>1. pc'[r] = "done" /\ pc[r] = "done"
      BY <1>1, <1>8, CrashFrame DEF Late, Stages
    <2>2. ledgerState' = ledgerState /\ redisState'[c] \in {NoState, redisState[c]}
      BY <1>1, <1>8, CrashFrame DEF LoseRedis
    <2>3. QED
      BY <1>2, <1>3, <2>1, <2>2 DEF Stands
  <1>9. ASSUME WriteBack PROVE Stored
    <2>1. UNCHANGED <<pc, ledgerState>>
      BY <1>9 DEF WriteBack, requestVars, durableVars
    <2>2. \/ redisState'[c] = redisState[c]
          \/ pc[r] \notin Stages /\ Filling(c) /\ redisState'[c] = view.state
      BY <1>1, <1>3, <1>9, WrittenBack
    <2>3. QED
      BY <1>2, <1>3, <1>5, <2>1, <2>2 DEF Stands, Stages, Late
  <1>10. ASSUME UNCHANGED vars PROVE Stored
    BY <1>5, <1>10 DEF vars, requestVars, redisVars, durableVars
  <1>11. Stored
    <2> HIDE DEF Stored
    <2>1. QED
      BY <1>6, <1>7, <1>8, <1>9, <1>10, CustodySteps DEF Next, Finished
  <1>12. QED
    BY <1>1, <1>3, <1>4, <1>11 DEF Stands, Filling

LEMMA StoredStep ==
    CustodyInv /\ ViewTypeOK /\ GenuineInv /\ StoredInv /\ [NextWithViews]_allVars => StoredInv'
  <1> SUFFICES ASSUME CustodyInv, ViewTypeOK, GenuineInv, StoredInv, [NextWithViews]_allVars,
                      ~LedgerMayBeLost, NEW r \in Requests, Undisturbed(r)'
               PROVE  Keeps(r)'
    BY FillRacedStep DEF StoredInv
  <1>1. CASE pc'[r] \notin Late
    BY <1>1 DEF Late, Keeps, Remembered, Stands
  <1>2. CASE pc'[r] \in Late
    <2>1. /\ pc[r] # "idle" /\ Undisturbed(r) /\ RanAlone(r) /\ Keeps(r) /\ cargoOf(r)' = cargoOf(r)
          /\ DOMAIN view = Fields /\ TypeInv
      BY <1>2, LateKept, UndisturbedBefore
      DEF StoredInv, Undisturbed, CustodyInv, ViewTypeOK, ViewShape
    <2>2. Remembered(r)'
      BY <2>1, RememberedView
    <2>3. pc'[r] = "done" => TouchedPast(r)'
      BY <2>1, PastKept DEF Keeps
    <2>4. Newest(r)' => Stands(r)'
      BY <1>2, StandsStep
    <2>5. ASSUME pc'[r] = "done", Filling(cargoOf(r))' PROVE r \in view'.state.touched
      <3>1. view'.stage = "fill" /\ view'.cargo = cargoOf(r)
        BY <2>1, <2>5 DEF Filling
      <3>2. CASE UNCHANGED vars /\ view'.cargo = view.cargo /\ view'.state = ledgerState[view.cargo]
        BY <2>1, <2>5, <3>1, <3>2 DEF Keeps, Remembered, vars, requestVars
      <3>3. CASE view' = view /\ ~WriteBack
        <4>1. pc[r] \notin Stages
          BY <2>1, <3>1, <3>3 DEF StoredInv, FillRaced, Filling, InFlight, Undisturbed
        <4>2. pc[r] = "done"
          <5>1. ASSUME NEW q \in Requests, Begin(q) PROVE pc[r] = "done"
            BY <2>1, <2>5, <5>1, BeginFrame
          <5>2. ASSUME NEW q \in Requests, Step(q) PROVE pc[r] = "done"
            BY <2>1, <2>5, <4>1, <5>2, StepFrame DEF Frame
          <5>3. Crash \/ UNCHANGED vars => pc[r] = "done"
            BY <2>1, <2>5, CrashFrame DEF vars, requestVars
          <5>4. QED
            BY <3>3, <5>1, <5>2, <5>3, CustodySteps DEF Next, Finished
        <4>3. QED
          BY <2>1, <3>1, <3>3, <4>2 DEF Keeps, Filling
      <3>4. QED
        BY <2>1, <3>1, <3>2, <3>3, FillSteps
    <2>6. QED
      BY <2>2, <2>3, <2>4, <2>5 DEF Keeps
  <1>3. QED
    BY <1>1, <1>2

LEMMA DoneRecorded ==
    ASSUME CustodyInv, NEW r \in Requests, pc[r] = "done"
    PROVE  /\ Recorded(r) /\ cargoOf(r) \in Cargo
           /\ event[r].epoch \in Nat /\ epoch \in Nat /\ event[r].epoch <= epoch
           /\ event[r].state # NoState /\ event[r].state.custodian = r
           /\ r \in event[r].state.touched
  <1>1. TypeInv /\ PlanInv /\ cargoOf(r) \in Cargo /\ event[r] \in Event /\ epoch \in Nat
    BY DEF CustodyInv, TypeInv, EventBuilt, Built, TypeOK, Payload, cargoOf
  <1>2. Recorded(r)
    BY DEF CustodyInv, TrailInv, Traced, Built
  <1>3. event[r].epoch <= epoch
    BY <1>1, <1>2 DEF CustodyInv, ForkInv, PushedFirst, Recorded
  <1>4. QED
    BY <1>1, <1>2, <1>3, BuiltState DEF Built, Event

LEMMA AnswersInit == InitViews => DoneIndexed /\ BeforeInv /\ AnswersInv
  BY IdleFields DEF InitViews, Init, DoneIndexed, BeforeInv, AnswersInv, ListViews, StateViews

LEMMA DoneIndexedStep ==
    /\ CustodyInv /\ ViewTypeOK /\ IndexInv /\ DoneIndexed /\ [NextWithViews]_allVars
    => DoneIndexed'
  <1> SUFFICES ASSUME CustodyInv, ViewTypeOK, IndexInv, DoneIndexed, [NextWithViews]_allVars,
                      NEW r \in Requests, pc'[r] = "done", event'[r].epoch = epoch'
               PROVE  redisState'[cargoOf(r)'] # NoState
    BY DEF DoneIndexed, cargoOf
  <1>1. /\ TypeInv /\ KeepsIndex /\ pc[r] # "idle" /\ event'[r] = event[r]
        /\ cargoOf(r)' = cargoOf(r) /\ cargoOf(r) \in Cargo
    BY LateKept, Started, CustodySteps
    DEF CustodyInv, IndexInv, Late, TypeInv, TypeOK, Payload, cargoOf
  <1>2. ASSUME \/ \E q \in Requests : Begin(q) \/ Step(q)
               \/ WriteBack \/ UNCHANGED vars
        PROVE  redisState'[cargoOf(r)] # NoState
    <2>1. epoch' = epoch
      BY <1>2, EpochStays
    <2>2. pc[r] = "done" \/ pc[r] \in {"upsert", "log", "alert", "respond", "notify"}
      <3>1. ASSUME NEW q \in Requests, Begin(q) PROVE pc[r] = "done"
        BY <1>1, <3>1, BeginFrame
      <3>2. ASSUME NEW q \in Requests, Step(q), q # r PROVE pc[r] = "done"
        BY <1>1, <3>2, StepFrame DEF Frame
      <3>3. Step(r) => pc[r] \in {"upsert", "log", "alert", "respond", "notify"}
        BY <1>1, LateSteps DEF Late
      <3>4. WriteBack \/ UNCHANGED vars => pc[r] = "done"
        BY DEF WriteBack, vars, requestVars
      <3>5. QED
        BY <1>2, <3>1, <3>2, <3>3, <3>4
    <2>3. Indexed(cargoOf(r))
      BY <1>1, <2>1, <2>2 DEF DoneIndexed, KeepsIndex, Indexed
    <2>4. PICK c : c = cargoOf(r) /\ Indexed(c)
      BY <2>3
    <2>5. Indexed(c)'
      BY <1>1, <1>2, <2>4, IndexStays
    <2>6. QED
      BY <2>4, <2>5 DEF Indexed
  <1>3. ASSUME Crash PROVE redisState'[cargoOf(r)] # NoState
    <2>1. pc[r] = "done"
      BY <1>1, <1>3, CrashFrame DEF Stages
    <2>2. ~LoseRedis
      BY <1>1, <2>1, DoneRecorded DEF LoseRedis
    <2>3. QED
      BY <1>1, <1>3, <2>1, <2>2, CrashFrame DEF DoneIndexed
  <1>4. QED
    BY <1>1, <1>2, <1>3, CustodySteps DEF Next, Finished

\* What a view was asked for stays, until another is or the server ends.
LEMMA ViewKept ==
    ASSUME CustodyInv, ViewTypeOK, [NextWithViews]_allVars
    PROVE  \/ /\ UNCHANGED Asked /\ epoch' = epoch
              /\ \/ \E r \in Requests : Begin(r) \/ Step(r)
                 \/ WriteBack \/ UNCHANGED vars
           \/ /\ view'.stage \in {"alerts", "list", "state", "evidence"}
              /\ UNCHANGED vars /\ view'.epoch = epoch
              /\ view'.before = {r \in Requests : pc[r] = "done"}
           \/ view'.before = {} /\ view'.kind \notin ListViews \cup StateViews
  <1>1. DOMAIN view = Fields /\ TypeInv
    BY DEF ViewTypeOK, ViewShape, CustodyInv
  <1>2. CASE UNCHANGED view /\ ~CrashServer /\ ~Look
    <2>1. \/ \E r \in Requests : Begin(r) \/ Step(r)
          \/ WriteBack \/ UNCHANGED vars
      BY <1>2, ViewSteps DEF BeginRequest, StepRequest, allVars
    <2>2. QED
      BY <1>2, <2>1, EpochStays DEF Asked
  <1>3. CASE CrashServer
    BY <1>3, IdleFields DEF CrashServer, ListViews, StateViews
  <1>4. CASE WriteBack
    BY <1>1, <1>4, StateFields, EpochStays
  <1>5. CASE Look
    <2>1. UNCHANGED vars /\ epoch' = epoch
      BY <1>5 DEF Look, vars, ghostVars
    <2>2. \/ ReadAlerts \/ ReadIndex \/ ReadLedgerList \/ ReadState \/ ReadLedgerState
          \/ ReadEvidence \/ ReadReplayEvidence \/ ReadHistory \/ ReadLedgerHistory
          => UNCHANGED Asked
      BY <1>1, ListFields, StateFields, EvidenceFields, HistoryFields
    <2>3. ASSUME NEW r, OpenReplay(r)
          PROVE  view'.before = {} /\ view'.kind \notin ListViews \cup StateViews
      BY <2>3, OpenFields DEF ListViews, StateViews
    <2>4. ASSUME NEW kind \in ListViews \cup StateViews \cup {"video"}, NEW c, Ask(kind, c)
          PROVE  /\ view'.stage \in {"alerts", "list", "state", "evidence"}
                 /\ UNCHANGED vars /\ view'.epoch = epoch
                 /\ view'.before = {r \in Requests : pc[r] = "done"}
      BY <2>4, AskFields
    <2>5. QED
      BY <1>5, <2>1, <2>2, <2>3, <2>4 DEF Look
  <1>6. QED
    BY <1>2, <1>3, <1>4, <1>5, ViewSteps DEF BeginRequest, StepRequest, viewVars, allVars

LEMMA BeforeStep ==
    CustodyInv /\ ViewTypeOK /\ BeforeInv /\ [NextWithViews]_allVars => BeforeInv'
  <1> SUFFICES ASSUME CustodyInv, ViewTypeOK, BeforeInv, [NextWithViews]_allVars
               PROVE  BeforeInv'
    OBVIOUS
  <1>1. /\ TypeInv /\ view.before \subseteq Requests
    BY DEF CustodyInv, ViewTypeOK, ViewShape
  <1>2. CASE /\ UNCHANGED Asked /\ epoch' = epoch
             /\ \/ \E r \in Requests : Begin(r) \/ Step(r)
                \/ WriteBack \/ UNCHANGED vars
    <2>1. view'.before = view.before /\ view'.kind = view.kind /\ view'.epoch = view.epoch
      BY <1>2 DEF Asked
    <2>2. ASSUME NEW r \in Requests, pc[r] = "done" PROVE pc'[r] = "done"
      <3>1. ASSUME NEW q \in Requests, Begin(q) PROVE pc'[r] = "done"
        BY <1>1, <2>2, <3>1, BeginFrame
      <3>2. ASSUME NEW q \in Requests, Step(q) PROVE pc'[r] = "done"
        BY <1>1, <2>2, <3>2, StepFrame DEF Frame, Stages
      <3>3. WriteBack \/ UNCHANGED vars => pc'[r] = "done"
        BY <2>2 DEF WriteBack, vars, requestVars
      <3>4. QED
        BY <1>2, <3>1, <3>2, <3>3
    <2>3. QED
      BY <1>1, <1>2, <2>1, <2>2 DEF BeforeInv
  <1>3. CASE /\ view'.before = {r \in Requests : pc[r] = "done"}
             /\ UNCHANGED vars /\ view'.epoch = epoch
    BY <1>3 DEF BeforeInv, vars, requestVars, ghostVars
  <1>4. CASE view'.before = {} /\ view'.kind \notin ListViews \cup StateViews
    BY <1>4 DEF BeforeInv
  <1>5. QED
    BY <1>2, <1>3, <1>4, ViewKept

\* What the two stores hold of an answered request.
LEMMA ReadsFind ==
    ASSUME CustodyInv, StoredInv, DoneIndexed, ~LedgerMayBeLost,
           NEW r \in Requests, pc[r] = "done", Undisturbed(r)
    PROVE  LET c == cargoOf(r) IN
           /\ ledgerState[c] # NoState /\ r \in ledgerState[c].touched
           /\ Newest(r) => ledgerState[c] = event[r].state
           /\ redisState[c] # NoState =>
                 /\ r \in redisState[c].touched
                 /\ Newest(r) => redisState[c] = event[r].state
           /\ redisState[c] = NoState => event[r].epoch < epoch
  <1>1. Keeps(r)
    BY DEF StoredInv
  <1>2. NoState.touched = {}
    BY DEF NoState
  <1>3. event[r].epoch \in Nat /\ epoch \in Nat /\ event[r].epoch <= epoch
    BY DoneRecorded
  <1>4. redisState[cargoOf(r)] = NoState => event[r].epoch < epoch
    BY <1>3 DEF DoneIndexed
  <1>5. QED
    BY <1>1, <1>2, <1>4 DEF Keeps, Remembered, Stands

LEMMA RowKnows ==
    ASSUME NEW states, NEW c \in Cargo, states[c] # NoState, NEW r \in states[c].touched
    PROVE  /\ Shipment(c, states[c]) \in rowsOf(states)
           /\ Shipment(c, states[c]).cargoId = c
           /\ handlerOf[r] \in Shipment(c, states[c]).touchedBy
  BY DEF Shipment, rowsOf

LEMMA AnswerFrame ==
    ASSUME CustodyInv, ViewTypeOK, BeforeInv, [NextWithViews]_allVars, UNCHANGED Asked,
           NEW r \in view'.before, Undisturbed(r)'
    PROVE  /\ r \in view.before /\ r \in Requests /\ pc[r] = "done" /\ Undisturbed(r)
           /\ event'[r] = event[r] /\ cargoOf(r)' = cargoOf(r) /\ cargoOf(r) \in Cargo
           /\ Newest(r)' => Newest(r)
           /\ Shipment(cargoOf(r), event[r].state)' = Shipment(cargoOf(r), event[r].state)
  <1>1. /\ r \in view.before /\ r \in Requests /\ pc[r] = "done" /\ DOMAIN view = Fields
    BY DEF Asked, BeforeInv, ViewTypeOK, ViewShape
  <1>2. /\ Recorded(r) /\ event[r].state.custodian = r
    BY <1>1, DoneRecorded
  <1>3. /\ event'[r] = event[r] /\ body'[r] = body[r] /\ cargoOf(r)' = cargoOf(r)
        /\ cargoOf(r) \in Cargo
    BY <1>2, RecordedKept
  <1>4. Newest(r)' => Newest(r)
    BY <1>1, <1>3, NewestBefore
  <1>5. Undisturbed(r)
    BY <1>1, UndisturbedBefore
  <1>6. PICK c, s : c = cargoOf(r) /\ s = event[r].state
    OBVIOUS
  <1>7. \A d, t : (d = cargoOf(r)' /\ t = event'[r].state) => d = c /\ t = s
    BY <1>3, <1>6
  <1>8. body'[s.custodian] = body[s.custodian]
    BY <1>2, <1>3, <1>6
  <1>9. Shipment(cargoOf(r), event[r].state)' = Shipment(cargoOf(r), event[r].state)
    BY <1>3, <1>6, <1>8 DEF Shipment
  <1>10. QED
    BY <1>1, <1>3, <1>4, <1>5, <1>9

LEMMA AnswersList ==
    ASSUME CustodyInv, ViewTypeOK, GenuineInv, StoredInv, DoneIndexed, BeforeInv, AnswersInv,
           ~LedgerMayBeLost, [NextWithViews]_allVars, UNCHANGED Asked, epoch' = epoch,
           NEW r \in view'.before, Undisturbed(r)'
    PROVE  ListKnows(r)'
  <1>1. /\ r \in view.before /\ r \in Requests /\ pc[r] = "done" /\ Undisturbed(r)
        /\ event'[r] = event[r]
        /\ Newest(r)' => Newest(r)
    BY AnswerFrame
  <1>2. PICK c \in Cargo : c = cargoOf(r) /\ c = cargoOf(r)'
    BY AnswerFrame
  <1>3. PICK row : row = Shipment(c, event[r].state) /\ row = Shipment(cargoOf(r), event[r].state)'
    BY <1>2, AnswerFrame
  <1>4. /\ view'.kind = view.kind /\ view'.epoch = view.epoch /\ DOMAIN view = Fields
        /\ TypeInv /\ redisState \in [Cargo -> State] /\ ledgerState \in [Cargo -> State]
        /\ ListKnows(r)
    BY <1>1 DEF Asked, CustodyInv, TypeInv, TypeOK, ViewTypeOK, ViewShape, AnswersInv
  <1>5. SUFFICES ASSUME view.kind \in ListViews,
                        view'.stage \in {"history", "historyLedger", "answered"}
                 PROVE  \/ /\ c \notin {s.cargoId : s \in ToSet(view'.list)}
                           /\ {s.cargoId : s \in ToSet(view'.list)} # {}
                           /\ event[r].epoch < view.epoch
                        \/ \E s \in ToSet(view'.list) :
                              /\ s.cargoId = c /\ handlerOf[r] \in s.touchedBy
                              /\ Newest(r)' => s = row
    <2>1. listed' = {s.cargoId : s \in ToSet(view'.list)}
      BY DEF listed
    <2>2. SUFFICES ASSUME view'.kind \in ListViews,
                          view'.stage \in {"history", "historyLedger", "answered"}
                   PROVE  \/ /\ cargoOf(r)' \notin listed' /\ listed' # {}
                             /\ event'[r].epoch < view'.epoch
                          \/ \E s \in ToSet(view'.list) :
                                /\ s.cargoId = cargoOf(r)' /\ handlerOf[r] \in s.touchedBy
                                /\ Newest(r)' => s = Shipment(cargoOf(r), event[r].state)'
      BY DEF ListKnows
    <2>3. QED
      BY <1>1, <1>2, <1>3, <1>4, <2>1, <2>2
  <1>6. ASSUME NEW states \in [Cargo -> State], ToSet(view'.list) = rowsOf(states),
               states[c] # NoState, r \in states[c].touched,
               Newest(r) => states[c] = event[r].state
        PROVE  \E s \in ToSet(view'.list) :
                  /\ s.cargoId = c /\ handlerOf[r] \in s.touchedBy
                  /\ Newest(r)' => s = row
    <2>1. PICK s : s = Shipment(c, states[c])
      OBVIOUS
    <2>2. s \in ToSet(view'.list) /\ s.cargoId = c /\ handlerOf[r] \in s.touchedBy
      BY <1>6, <2>1, RowKnows
    <2>3. ASSUME Newest(r) PROVE s = row
      BY <1>3, <1>6, <2>1, <2>3
    <2>4. QED
      BY <1>1, <2>2, <2>3
  <1>7. CASE ReadIndex
    <2>1. /\ view'.list = newestFirst(rowsOf(redisState)) /\ rowsOf(redisState) # {}
      BY <1>4, <1>5, <1>7, ListFields
    <2>2. ToSet(view'.list) = rowsOf(redisState)
      BY <1>4, <2>1, ListOfRows DEF GenuineInv, Genuine
    <2>3. CASE redisState[c] # NoState
      BY <1>1, <1>2, <1>4, <1>6, <2>2, <2>3, ReadsFind
    <2>4. CASE redisState[c] = NoState
      <3>1. event[r].epoch < view.epoch
        BY <1>1, <1>2, <1>5, <2>4, ReadsFind DEF BeforeInv
      <3>2. {s.cargoId : s \in rowsOf(redisState)} # {}
        BY <2>1
      <3>3. c \notin {s.cargoId : s \in rowsOf(redisState)}
        <4>1. \A d, s : Shipment(d, s).cargoId = d
          BY DEF Shipment
        <4>2. QED
          BY <2>4, <4>1 DEF rowsOf
      <3>4. QED
        BY <2>2, <3>1, <3>2, <3>3
    <2>5. QED
      BY <2>3, <2>4
  <1>8. CASE ReadLedgerList
    <2>1. view'.list = newestFirst(rowsOf(ledgerState))
      BY <1>4, <1>8, ListFields
    <2>2. ToSet(view'.list) = rowsOf(ledgerState)
      BY <1>4, <2>1, ListOfRows DEF GenuineInv, Genuine
    <2>3. QED
      BY <1>1, <1>2, <1>4, <1>6, <2>2, ReadsFind
  <1>9. CASE /\ view'.list = view.list
             /\ view.stage \in {"history", "historyLedger", "answered"}
    <2>1. \/ c \notin listed /\ listed # {} /\ event[r].epoch < view.epoch
          \/ \E s \in ToSet(view.list) :
                /\ s.cargoId = c /\ handlerOf[r] \in s.touchedBy
                /\ Newest(r) => s = row
      BY <1>2, <1>3, <1>4, <1>5, <1>9 DEF ListKnows
    <2>2. QED
      BY <1>1, <1>9, <2>1 DEF listed
  <1>10. ReadIndex \/ ReadLedgerList \/
        (/\ view'.list = view.list
         /\ view.stage \in {"history", "historyLedger", "answered"})
    <2>1. ~(view.kind \in StateViews \cup {"video", "replay"})
      BY <1>5 DEF ListViews, StateViews
    <2>2. ~WriteBack /\ ~CrashServer
      BY <1>4, <1>5, <2>1, StateFields, IdleFields DEF ViewTypeOK, ViewKinds, CrashServer
    <2>3. CASE Look
      <3>1. \A r1, kind, d :
              ~OpenReplay(r1) /\ ~(kind \in ListViews \cup StateViews \cup {"video"} /\ Ask(kind, d))
        BY <1>4, <1>5, <2>1, OpenFields, AskFields
      <3>2. ~ReadAlerts /\ ~ReadState /\ ~ReadLedgerState /\ ~ReadEvidence /\ ~ReadReplayEvidence
        BY <1>4, <1>5, <2>1, ListFields, StateFields, EvidenceFields DEF ViewTypeOK, ViewKinds
      <3>3. ReadHistory \/ ReadLedgerHistory =>
               /\ view'.list = view.list
               /\ view.stage \in {"history", "historyLedger", "answered"}
        BY <1>4, HistoryFields
      <3>4. QED
        BY <1>5, <2>3, <3>1, <3>2, <3>3 DEF Look
    <2>4. QED
      BY <1>5, <2>2, <2>3, ViewSteps DEF BeginRequest, StepRequest, viewVars, allVars
  <1>11. QED
    BY <1>7, <1>8, <1>9, <1>10

LEMMA AnswersState ==
    ASSUME CustodyInv, ViewTypeOK, LinksInv, StoredInv, DoneIndexed, BeforeInv, AnswersInv,
           ~LedgerMayBeLost, [NextWithViews]_allVars, UNCHANGED Asked, epoch' = epoch,
           NEW r \in view'.before, Undisturbed(r)'
    PROVE  StateKnows(r)'
  <1>1. /\ r \in view.before /\ r \in Requests /\ pc[r] = "done" /\ Undisturbed(r)
        /\ event'[r] = event[r]
        /\ Newest(r)' => Newest(r)
    BY AnswerFrame
  <1>2. PICK c \in Cargo : c = cargoOf(r) /\ c = cargoOf(r)'
    BY AnswerFrame
  <1>3. /\ view'.kind = view.kind /\ view'.cargo = view.cargo /\ DOMAIN view = Fields
        /\ TypeInv /\ redisState \in [Cargo -> State] /\ ledgerState \in [Cargo -> State]
        /\ StateKnows(r)
    BY <1>1 DEF Asked, CustodyInv, TypeInv, TypeOK, ViewTypeOK, ViewShape, AnswersInv
  <1> DEFINE Held == /\ r \in view'.state.touched
                     /\ Newest(r)' => view'.state = event[r].state
             Told == \/ r \in ToSet(view'.history[c])
                     \/ event[r].epoch < epoch
                     \/ MayBeTrimmed(c)'
             Goal == /\ view'.stage \in {"fill", "history", "historyLedger", "answered"} => Held
                     /\ (view.kind = "chain-of-custody" /\ view'.stage \in {"historyLedger", "answered"})
                        => Told
  <1>4. SUFFICES ASSUME view.kind \in StateViews, view.cargo = c PROVE Goal
    <2>1. ASSUME Goal, view'.cargo = c PROVE StateKnows(r)'
      <3>1. MayBeTrimmed(c)' => MayBeTrimmed(view.cargo)'
        BY <2>1 DEF MayBeTrimmed
      <3>2. QED
        BY <1>1, <1>3, <2>1, <3>1 DEF StateKnows
    <2>2. ~(view.kind \in StateViews /\ view.cargo = c) => StateKnows(r)'
      BY <1>2, <1>3 DEF StateKnows
    <2>3. QED
      BY <1>3, <2>1, <2>2
  <1>5. /\ view.stage \in {"fill", "history", "historyLedger", "answered"} =>
              /\ r \in view.state.touched
              /\ Newest(r)' => view.state = event[r].state
        /\ (view.kind = "chain-of-custody" /\ view.stage \in {"historyLedger", "answered"}) =>
              \/ r \in ToSet(view.history[c])
              \/ event[r].epoch < epoch
              \/ MayBeTrimmed(c)
    BY <1>1, <1>2, <1>3, <1>4 DEF StateKnows
  <1>6. ASSUME view' = view, (\E q \in Requests : Begin(q) \/ Step(q)) \/ UNCHANGED vars
        PROVE  Goal
    <2>1. MayBeTrimmed(c) => MayBeTrimmed(c)'
      BY <1>6, FullStays DEF vars, redisVars
    <2>2. QED
      BY <1>5, <1>6, <2>1
  <1>7. ASSUME WriteBack PROVE Goal
    BY <1>3, <1>5, <1>7, StateFields
  <1>8. ASSUME ReadState PROVE Goal
    BY <1>1, <1>2, <1>3, <1>4, <1>8, StateFields, ReadsFind
  <1>9. ASSUME ReadLedgerState PROVE Goal
    BY <1>1, <1>2, <1>3, <1>4, <1>9, StateFields, ReadsFind
  <1>10. ASSUME ReadHistory PROVE Goal
    <2>1. /\ UNCHANGED vars /\ view.stage = "history" /\ view'.state = view.state
          /\ view'.history = cachedHistory
      BY <1>3, <1>10, HistoryFields DEF AnswerFields
    <2>2. ASSUME view.kind = "chain-of-custody" PROVE Told
      <3>1. view'.history[c] = idsOf(redisLedger[c])
        BY <1>4, <2>1, <2>2, AnsweredHistories
      <3>2. MayBeTrimmed(c)' = MayBeTrimmed(c)
        BY <2>1 DEF vars, redisVars, MayBeTrimmed
      <3>3. QED
        BY <1>1, <1>2, <3>1, <3>2, DoneRecorded, WhereRecorded
    <2>3. QED
      BY <1>5, <2>1, <2>2
  <1>11. ASSUME ReadLedgerHistory PROVE Goal
    <2>1. /\ UNCHANGED vars /\ view.stage = "historyLedger" /\ view'.state = view.state
          /\ view'.history = loadedHistory
      BY <1>3, <1>11, HistoryFields DEF AnswerFields
    <2>2. ASSUME view.kind = "chain-of-custody" PROVE Told
      <3>1. view'.history[c] = IF view.history[c] # <<>> THEN view.history[c] ELSE ledgerHistory(c)
        BY <1>4, <2>1, <2>2, AnsweredHistories
      <3>2. MayBeTrimmed(c)' = MayBeTrimmed(c)
        BY <2>1 DEF vars, redisVars, MayBeTrimmed
      <3>3. r \in ToSet(view.history[c]) => view.history[c] # <<>>
        BY DEF ToSet
      <3>4. QED
        BY <1>5, <2>1, <2>2, <3>1, <3>2, <3>3
    <2>3. QED
      BY <1>5, <2>1, <2>2
  <1>12. ASSUME CrashServer \/ (Look /\ ~ReadState /\ ~ReadLedgerState /\ ~ReadHistory /\ ~ReadLedgerHistory)
         PROVE  Goal
    <2>1. ~(view.kind \in ListViews \cup {"video", "replay", "none"})
      BY <1>4 DEF ListViews, StateViews
    <2>2. ~CrashServer
      BY <1>3, <2>1, IdleFields DEF CrashServer
    <2>3. \A q : ~OpenReplay(q)
      BY <1>3, <2>1, OpenFields
    <2>4. ~ReadAlerts /\ ~ReadIndex /\ ~ReadLedgerList /\ ~ReadEvidence /\ ~ReadReplayEvidence
      BY <1>3, <2>1, ListFields, EvidenceFields DEF ViewTypeOK, ViewKinds
    <2>5. ASSUME NEW kind \in ListViews \cup StateViews \cup {"video"}, NEW d, Ask(kind, d)
          PROVE  Goal
      BY <2>5, AskFields
    <2>6. Goal
      <3> HIDE DEF Goal
      <3>1. QED
        BY <1>12, <2>2, <2>3, <2>4, <2>5 DEF Look
    <2>7. QED
      BY <2>6
  <1>13. Goal
    <2> HIDE DEF Goal
    <2>1. (\E q \in Requests : BeginRequest(q)) \/ (\E q \in Requests : StepRequest(q))
          \/ UNCHANGED allVars
          => view' = view /\ ((\E q \in Requests : Begin(q) \/ Step(q)) \/ UNCHANGED vars)
      BY DEF BeginRequest, StepRequest, viewVars, allVars
    <2>2. QED
      BY <1>6, <1>7, <1>8, <1>9, <1>10, <1>11, <1>12, <2>1, ViewSteps
  <1>14. QED
    BY <1>13

LEMMA AnswersStep ==
    /\ CustodyInv /\ ViewTypeOK /\ GenuineInv /\ LinksInv /\ StoredInv
    /\ DoneIndexed /\ BeforeInv /\ AnswersInv /\ [NextWithViews]_allVars
    => AnswersInv'
  <1> SUFFICES ASSUME CustodyInv, ViewTypeOK, GenuineInv, LinksInv, StoredInv, DoneIndexed,
                      BeforeInv, AnswersInv, [NextWithViews]_allVars,
                      ~LedgerMayBeLost, NEW r \in view'.before, Undisturbed(r)'
               PROVE  ListKnows(r)' /\ StateKnows(r)'
    BY DEF AnswersInv
  <1>1. CASE UNCHANGED Asked /\ epoch' = epoch
    BY <1>1, AnswersList, AnswersState
  <1>2. CASE view'.stage \in {"alerts", "list", "state", "evidence"}
    BY <1>2 DEF ListKnows, StateKnows
  <1>3. CASE view'.before = {}
    BY <1>3
  <1>4. QED
    BY <1>1, <1>2, <1>3, ViewKept

\* AnsweredEventIsShown for any number of cargo, requests, views and crashes:
\* what an answered request stored stays in both stores, whoever reads or
\* writes back, and every figure of a page is computed from what was read.
THEOREM AnswersShown == SpecWithViews => []AnsweredEventIsShown
  <1>1. ASSUME CustodyInv, ViewTypeOK, GenuineInv, TimelineInv, BeforeInv, AnswersInv
        PROVE  AnsweredEventIsShown
    <2>1. SUFFICES ASSUME ~LedgerMayBeLost, NEW r \in view.before, Undisturbed(r),
                          view.stage = "answered"
                   PROVE  LET c == cargoOf(r)
                              expected == Shipment(c, event[r].state) IN
                          /\ view.kind \in ListViews =>
                               \/ c \notin listed /\ listed # {} /\ event[r].epoch < view.epoch
                               \/ /\ HandlerShown(handlerOf[r], c)
                                  /\ Newest(r) => /\ expected \in ToSet(view.list)
                                                  /\ ShownAs(expected, view.list)
                          /\ view.kind \in StateViews /\ c = view.cargo =>
                               /\ r \in view.state.touched
                               /\ Newest(r) => view.state = event[r].state
                               /\ \/ view.kind = "risk" \/ r \in ToSet(timeline(c))
                                  \/ event[r].epoch < view.epoch \/ MayBeTrimmed(c)
      BY DEF AnsweredEventIsShown, Answered
    <2>2. PICK c, expected : c = cargoOf(r) /\ expected = Shipment(c, event[r].state)
      OBVIOUS
    <2>3. ListKnows(r) /\ StateKnows(r)
      BY <1>1, <2>1 DEF AnswersInv
    <2>4. ASSUME view.kind \in ListViews
          PROVE  \/ c \notin listed /\ listed # {} /\ event[r].epoch < view.epoch
                 \/ /\ HandlerShown(handlerOf[r], c)
                    /\ Newest(r) => /\ expected \in ToSet(view.list)
                                    /\ ShownAs(expected, view.list)
      <3>1. SUFFICES ASSUME NEW s \in ToSet(view.list), s.cargoId = c, handlerOf[r] \in s.touchedBy,
                            Newest(r) => s = expected
                     PROVE  /\ HandlerShown(handlerOf[r], c)
                            /\ Newest(r) => /\ expected \in ToSet(view.list)
                                            /\ ShownAs(expected, view.list)
        BY <2>1, <2>2, <2>3, <2>4 DEF ListKnows
      <3>2. HandlerShown(handlerOf[r], c)
        BY <3>1, RowShowsHandler
      <3>3. view.list \in Seq(Row) /\ \A x \in ToSet(view.list) : x.riskScore \in 0 .. 100
        <4>1. view.list \in Seq(Row)
          BY <1>1 DEF ViewTypeOK, ViewShape
        <4>2. \A x \in ToSet(view.list) : x \in Row
          BY <4>1 DEF ToSet
        <4>3. QED
          BY <4>1, <4>2 DEF Row
      <3>4. ShownAs(s, view.list)
        BY <3>1, <3>3, FiguresShow
      <3>5. QED
        BY <3>1, <3>2, <3>4
    <2>5. ASSUME view.kind \in StateViews, c = view.cargo
          PROVE  /\ r \in view.state.touched
                 /\ Newest(r) => view.state = event[r].state
                 /\ \/ view.kind = "risk" \/ r \in ToSet(timeline(c))
                    \/ event[r].epoch < view.epoch \/ MayBeTrimmed(c)
      <3>1. /\ r \in view.state.touched
            /\ Newest(r) => view.state = event[r].state
        BY <2>1, <2>2, <2>3, <2>5 DEF StateKnows
      <3>2. ASSUME view.kind = "chain-of-custody"
            PROVE  \/ r \in ToSet(timeline(c))
                   \/ event[r].epoch < view.epoch \/ MayBeTrimmed(c)
        <4>1. SUFFICES ASSUME r \in ToSet(view.history[c]) PROVE r \in ToSet(timeline(c))
          BY <1>1, <2>1, <2>2, <2>3, <2>5, <3>2 DEF StateKnows, BeforeInv
        <4>2. view.history[c] \in Seq(Requests)
          <5>1. view.state # NoState
            BY <3>1 DEF NoState
          <5>2. view.state.custodian \in Requests /\ c \in Cargo
            BY <1>1, <2>5, <5>1 DEF GenuineInv, Genuine, ViewTypeOK, ViewKinds, StateViews
          <5>3. Seeks(c, view.state.custodian)
            BY <2>5, <3>2, <5>1 DEF Seeks
          <5>4. QED
            BY <1>1, <2>1, <5>2, <5>3 DEF TimelineInv, Leads
        <4>3. timeline(c) = Reverse(view.history[c])
          BY <3>2 DEF timeline
        <4>4. PICK h \in Seq(Requests) : h = view.history[c]
          BY <4>2
        <4>5. PICK i \in 1 .. Len(h) : h[i] = r
          BY <4>1, <4>4 DEF ToSet
        <4>6. /\ Reverse(h) = [k \in 1 .. Len(h) |-> h[(Len(h) - k) + 1]]
              /\ Len(h) \in Nat
          BY <4>4 DEF Reverse
        <4>7. (Len(h) - i) + 1 \in 1 .. Len(h) /\ (Len(h) - ((Len(h) - i) + 1)) + 1 = i
          BY <4>5, <4>6
        <4>8. QED
          BY <4>3, <4>4, <4>5, <4>6, <4>7 DEF ToSet
      <3>3. QED
        BY <2>5, <3>1, <3>2 DEF StateViews
    <2>6. QED
      BY <2>2, <2>4, <2>5
  <1>2. QED
    BY ViewsInvariant, IndexInit, IndexStep, LinksInit, LinksStep, ShownInit, ShownStep,
       TimelineInit, TimelineStep, StoredInit, StoredStep, AnswersInit, DoneIndexedStep,
       BeforeStep, AnswersStep, <1>1, PTL
    DEF SpecWithViews
=============================================================================
