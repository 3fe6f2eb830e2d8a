---------------------------- MODULE ConsoleProofs ----------------------------
(***************************************************************************)
(* What a browser tab shows, for any number of actions, ULDs, alerts,      *)
(* polls, flushes and changes: the status follows the network, and a list  *)
(* without a missed or overtaken entry is the server's.                    *)
(***************************************************************************)
EXTENDS OperatorConsole, SequenceTheorems, FiniteSetTheorems, TLAPS

(***************************************************************************)
(* Bags of emissions and sequences of polls.                               *)
(***************************************************************************)
LEMMA BagAdd ==
    ASSUME NEW B, IsABag(B), NEW e
    PROVE  /\ IsABag(B (+) SetToBag({e}))
           /\ BagToSet(B (+) SetToBag({e})) = BagToSet(B) \cup {e}
  <1> DEFINE C == B (+) SetToBag({e})
  <1>1. DOMAIN C = DOMAIN B \cup {e}
    BY DEF (+), SetToBag
  <1>2. \A x \in DOMAIN C : C[x] \in Nat /\ C[x] > 0
    BY DEF (+), SetToBag, IsABag
  <1>3. C = [x \in DOMAIN C |-> C[x]]
    BY DEF (+)
  <1>4. QED
    BY <1>1, <1>2, <1>3 DEF IsABag, BagToSet

LEMMA BagRemove ==
    ASSUME NEW B, IsABag(B), NEW e
    PROVE  /\ IsABag(B (-) SetToBag({e}))
           /\ BagToSet(B (-) SetToBag({e})) \in {BagToSet(B), BagToSet(B) \ {e}}
  <1> DEFINE C == B (-) SetToBag({e})
             D == [x \in DOMAIN B |-> IF x = e THEN B[x] - 1 ELSE B[x]]
  <1>1. C = [x \in {y \in DOMAIN D : D[y] > 0} |-> D[x]]
    BY DEF (-), SetToBag
  <1>2. \A x \in DOMAIN B : B[x] \in Nat /\ B[x] > 0
    BY DEF IsABag
  <1>3. DOMAIN C = {y \in DOMAIN B : D[y] > 0}
    BY <1>1
  <1>4. \A x \in DOMAIN B : x # e => D[x] > 0
    BY <1>2
  <1>5. \A x \in DOMAIN C : C[x] \in Nat /\ C[x] > 0
    <2> TAKE x \in DOMAIN C
    <2>1. x \in DOMAIN B /\ D[x] > 0 /\ C[x] = D[x]
      BY <1>1, <1>3
    <2>2. D[x] \in Int
      BY <1>2, <2>1
    <2>3. QED
      BY <2>1, <2>2
  <1>6. IsABag(C)
    BY <1>1, <1>5 DEF IsABag
  <1> HIDE DEF D
  <1>7. DOMAIN C \in {DOMAIN B, DOMAIN B \ {e}}
    BY <1>3, <1>4
  <1>8. QED
    BY <1>6, <1>7 DEF C, BagToSet

LEMMA RemoveAtType ==
    ASSUME NEW S, NEW s \in Seq(S), NEW p \in DOMAIN s
    PROVE  RemoveAt(s, p) \in Seq(S) /\ Len(RemoveAt(s, p)) = Len(s) - 1
  <1>1. p \in 1 .. Len(s) /\ Len(s) \in Nat /\ \A i \in 1 .. Len(s) : s[i] \in S
    OBVIOUS
  <1>2. SubSeq(s, 1, p - 1) \in Seq(S) /\ Len(SubSeq(s, 1, p - 1)) = p - 1
    BY <1>1, SubSeqProperties
  <1>3. SubSeq(s, p + 1, Len(s)) \in Seq(S) /\ Len(SubSeq(s, p + 1, Len(s))) = Len(s) - p
    <2>1. p + 1 \in Int /\ Len(s) \in Int /\ \A i \in p + 1 .. Len(s) : s[i] \in S
      BY <1>1
    <2>2. /\ SubSeq(s, p + 1, Len(s)) \in Seq(S)
          /\ Len(SubSeq(s, p + 1, Len(s))) = IF p + 1 <= Len(s) THEN Len(s) - (p + 1) + 1 ELSE 0
      BY <2>1, SubSeqProperties
    <2>3. QED
      BY <1>1, <2>2
  <1> DEFINE before == SubSeq(s, 1, p - 1)
             after == SubSeq(s, p + 1, Len(s))
  <1>4. before \o after \in Seq(S) /\ Len(before \o after) = Len(before) + Len(after)
    BY <1>2, <1>3, ConcatProperties
  <1>5. RemoveAt(s, p) = before \o after
    BY DEF RemoveAt
  <1>6. Len(before) + Len(after) = Len(s) - 1
    BY <1>1, <1>2, <1>3
  <1> HIDE DEF before, after
  <1>7. QED
    BY <1>4, <1>5, <1>6

LEMMA SeedAlertsType == SetToSeq(SeedAlerts) \in Seq(SeedAlerts)
  <1> DEFINE n == Cardinality(SeedAlerts)
  <1>1. n \in Nat /\ ExistsBijection(1 .. n, SeedAlerts)
    BY IdsAssumption, FS_CardinalityType
  <1>2. PICK f \in [1 .. n -> SeedAlerts] : IsInjective(f)
    BY <1>1 DEF ExistsBijection, Bijection, Injection, IsInjective
  <1>3. SetToSeq(SeedAlerts) \in [1 .. n -> SeedAlerts]
    BY <1>2 DEF SetToSeq
  <1>4. QED
    BY <1>1, <1>3, SeqDef
-----------------------------------------------------------------------------
(***************************************************************************)
(* Type correctness.                                                       *)
(***************************************************************************)

\* What the server may hold of i.
Held(i) == IF i \in Actions THEN Statuses ELSE Levels

Shows(i) == (IF i \in Tasks THEN TaskStatuses ELSE Risks) \cup {"absent"}

\* A poll, and what it may have read.
Answer ==
    [sent : BOOLEAN, alerts : Seq(Alerts),
     entries : UNION {[D -> Statuses \cup Levels] : D \in SUBSET (Actions \cup Ulds)}]

HoldsListed(poll) == \A i \in DOMAIN poll.entries : poll.entries[i] \in Held(i) \ {"VERIFIED"}

Poll == {poll \in Answer : poll = Unread \/ (poll.sent /\ HoldsListed(poll))}

ServerTypes ==
    /\ server \in [Actions \cup Ulds -> Statuses \cup Levels \cup {"none"}]
    /\ \A i \in Actions \cup Ulds : server[i] \in Held(i) \cup {"none"}
    /\ history \in Seq(Alerts) /\ IsInjective(history)
    /\ IsABag(emissions) /\ BagToSet(emissions) \subseteq Entry
    /\ changes \in 0 .. MaxChanges

LinkTypes ==
    /\ inbox \in Seq(Entry)
    /\ link \in BOOLEAN /\ onLine \in BOOLEAN
    /\ attempts \in 0 .. ReconnectAttempts + 1
    /\ status \in {"online", "syncing", "offline"}

ScreenTypes ==
    /\ screen = [i \in Ids |-> screen[i]] /\ \A i \in Ids : screen[i] \in Shows(i)
    /\ alerts \in Seq(Alerts \cup Notices \cup SeedAlerts)
    /\ marks \in 0 .. MaxMarks
    /\ queue \in Seq(Tasks) /\ Len(queue) <= marks
    /\ flushes \in 0 .. MaxFlushes
    /\ marked \subseteq Tasks /\ synced \subseteq {"tasks", "ulds", "alerts"}

PollTypes == polls \in Seq(Poll) /\ Len(polls) <= MaxPolls

Types == ServerTypes /\ LinkTypes /\ ScreenTypes /\ PollTypes

LEMMA IdsAreApart ==
    /\ Actions \cap Units = {} /\ Ulds \cap Tasks = {} /\ Actions \cap Ulds = {}
    /\ (Alerts \cup Notices) \cap Ids = {} /\ (Alerts \cup Notices) \cap (Actions \cup Ulds) = {}
    /\ Actions \subseteq Tasks /\ Ulds \subseteq Units /\ Tasks \subseteq Ids /\ Units \subseteq Ids
    /\ SeedTasks \subseteq Tasks /\ SeedUlds \subseteq Units
  BY IdsAssumption DEF Tasks, Units, Ids

LEMMA LevelsAreNoStatuses ==
    Levels \cap Statuses = {} /\ "none" \notin Levels \cup Statuses /\ "absent" \notin Levels \cup Statuses
  BY LevelsAssumption DEF Statuses

LEMMA UnreadType == Unread \in Poll
  <1>1. <<>> \in [{} -> Statuses \cup Levels]
    BY EmptySeq, LenProperties
  <1>2. <<>> \in Seq(Alerts)
    OBVIOUS
  <1>3. [{} -> Statuses \cup Levels] \in {[D -> Statuses \cup Levels] : D \in SUBSET (Actions \cup Ulds)}
    OBVIOUS
  <1>4. <<>> \in UNION {[D -> Statuses \cup Levels] : D \in SUBSET (Actions \cup Ulds)}
    BY <1>1, <1>3
  <1>5. QED
    BY <1>2, <1>4 DEF Unread, Answer, Poll

LEMMA TypesImplyTypeOK == Types => TypeOK
  <1> SUFFICES ASSUME Types PROVE TypeOK
    OBVIOUS
  <1>1. Range(history) \subseteq Alerts /\ Range(alerts) \subseteq Alerts \cup Notices \cup SeedAlerts
    BY DEF Types, ServerTypes, ScreenTypes, Range
  <1>2. ASSUME NEW p \in DOMAIN polls
        PROVE  \/ polls[p] = Unread
               \/ /\ polls[p].sent /\ DOMAIN polls[p].entries \subseteq Actions \cup Ulds
                  /\ \A i \in DOMAIN polls[p].entries : polls[p].entries[i] \notin {"none", "VERIFIED"}
                  /\ Range(polls[p].alerts) \subseteq Alerts
    <2>1. polls[p] \in Poll /\ polls[p] \in Answer
      BY DEF Types, PollTypes, Poll
    <2>2. DOMAIN polls[p].entries \subseteq Actions \cup Ulds
      BY <2>1 DEF Answer
    <2>3. polls[p].alerts \in Seq(Alerts)
      BY <2>1 DEF Answer
    <2>4. Range(polls[p].alerts) \subseteq Alerts
      BY <2>3 DEF Range
    <2>5. QED
      BY <2>1, <2>2, <2>4, LevelsAreNoStatuses DEF Poll, HoldsListed, Held
  <1>3. \A i \in Ids : screen[i] \in (IF i \in Tasks THEN TaskStatuses ELSE Risks) \cup {"absent"}
    BY DEF Types, ScreenTypes, Shows
  <1>4. QED
    BY <1>1, <1>2, <1>3 DEF TypeOK, Types, ServerTypes, LinkTypes, ScreenTypes, PollTypes

LEMMA SeedTypes ==
    /\ SeedScreen = [i \in Ids |-> SeedScreen[i]] /\ \A i \in Ids : SeedScreen[i] \in Shows(i)
    /\ SetToSeq(SeedAlerts) \in Seq(Alerts \cup Notices \cup SeedAlerts)
    /\ <<Unread>> \in Seq(Poll) /\ Len(<<Unread>>) <= MaxPolls /\ Len(<<Unread>>) = 1 /\ <<Unread>>[1] = Unread
  <1>1. \A i \in Ids : SeedScreen[i] \in Shows(i)
    BY IdsAssumption DEF SeedScreen, Shows, TaskStatuses, Risks, Tasks, Units, Ids
  <1>2. SetToSeq(SeedAlerts) \in Seq(Alerts \cup Notices \cup SeedAlerts)
    BY SeedAlertsType, SeqMonotonic
  <1>3. 1 <= MaxPolls
    BY LimitsAssumption
  <1>4. QED
    BY <1>1, <1>2, <1>3, UnreadType DEF SeedScreen

LEMMA TypesInit == Init => Types
  <1> SUFFICES ASSUME Init PROVE Types
    OBVIOUS
  <1>1. ServerTypes
    <2>1. IsABag(EmptyBag) /\ BagToSet(EmptyBag) = {}
      BY DEF EmptyBag, SetToBag, IsABag, BagToSet
    <2>2. <<>> \in Seq(Alerts) /\ IsInjective(<<>>)
      BY DEF IsInjective
    <2>3. 0 \in 0 .. MaxChanges
      BY LimitsAssumption
    <2>4. QED
      BY <2>1, <2>2, <2>3 DEF Init, ServerTypes
  <1>2. LinkTypes
    <2>1. 0 \in 0 .. ReconnectAttempts + 1
      BY LimitsAssumption
    <2>2. link \in BOOLEAN /\ onLine \in BOOLEAN
      BY Zenon DEF Init
    <2>3. status \in {"online", "syncing", "offline"}
      BY DEF Init
    <2>4. inbox \in Seq(Entry) /\ attempts \in 0 .. ReconnectAttempts + 1
      BY <2>1 DEF Init
    <2>5. QED
      BY <2>2, <2>3, <2>4 DEF LinkTypes
  <1>3. ScreenTypes
    <2>1. 0 \in 0 .. MaxMarks /\ 0 \in 0 .. MaxFlushes
      BY LimitsAssumption
    <2>2. QED
      BY <2>1, SeedTypes DEF Init, ScreenTypes
  <1>4. PollTypes
    BY SeedTypes DEF Init, PollTypes
  <1>5. QED
    BY <1>1, <1>2, <1>3, <1>4 DEF Types

\* What a step leaves alone keeps its types.
LEMMA TypesFrame ==
    ASSUME Types
    PROVE  /\ UNCHANGED serverVars => ServerTypes'
           /\ UNCHANGED <<socketVars, onLine, status>> => LinkTypes'
           /\ UNCHANGED <<screenVars, queueVars, marks, marked>>
                  /\ synced' \subseteq {"tasks", "ulds", "alerts"} => ScreenTypes'
           /\ UNCHANGED polls => PollTypes'
  <1>1. UNCHANGED serverVars => ServerTypes'
    BY DEF Types, ServerTypes, serverVars
  <1>2. UNCHANGED <<socketVars, onLine, status>> => LinkTypes'
    BY DEF Types, LinkTypes, socketVars
  <1>3. /\ UNCHANGED <<screenVars, queueVars, marks, marked>>
        /\ synced' \subseteq {"tasks", "ulds", "alerts"}
        => ScreenTypes'
    BY DEF Types, ScreenTypes, screenVars, queueVars
  <1>4. UNCHANGED polls => PollTypes'
    BY DEF Types, PollTypes
  <1>5. QED
    BY <1>1, <1>2, <1>3, <1>4

LEMMA SyncedType == Types => synced \subseteq {"tasks", "ulds", "alerts"}
  BY DEF Types, ScreenTypes

\* An entry the server stores.
LEMMA DueTypes ==
    ASSUME Types, NEW entry \in Entry, Due(entry),
           server' \in [Actions \cup Ulds -> Statuses \cup Levels \cup {"none"}],
           \A i \in Actions \cup Ulds : server'[i] \in Held(i) \cup {"none"},
           history' \in Seq(Alerts), IsInjective(history')
    PROVE  Types'
  <1>1. /\ IsABag(emissions) /\ BagToSet(emissions) \subseteq Entry /\ changes \in 0 .. MaxChanges
        /\ MaxChanges \in Nat
    BY LimitsAssumption DEF Types, ServerTypes
  <1>2. IsABag(emissions') /\ BagToSet(emissions') \subseteq Entry
    <2>1. emissions' = emissions (+) SetToBag({entry})
      BY DEF Due
    <2>2. /\ IsABag(emissions (+) SetToBag({entry}))
          /\ BagToSet(emissions (+) SetToBag({entry})) = BagToSet(emissions) \cup {entry}
      BY <1>1, BagAdd
    <2>3. QED
      BY <1>1, <2>1, <2>2
  <1>3. changes' \in 0 .. MaxChanges
    BY <1>1 DEF Due
  <1>4. ServerTypes'
    BY <1>2, <1>3 DEF ServerTypes
  <1>5. synced' \subseteq {"tasks", "ulds", "alerts"}
    BY SyncedType DEF Due
  <1>6. LinkTypes' /\ ScreenTypes' /\ PollTypes'
    BY <1>5, TypesFrame, Zenon DEF Due
  <1>7. QED
    BY <1>4, <1>6 DEF Types

LEMMA ConsSeq ==
    ASSUME NEW S, NEW s \in Seq(S), NEW x \in S
    PROVE  /\ <<x>> \o s \in Seq(S)
           /\ Len(<<x>> \o s) = Len(s) + 1
           /\ (<<x>> \o s)[1] = x
           /\ \A i \in 2 .. Len(s) + 1 : (<<x>> \o s)[i] = s[i - 1]
  <1>1. <<x>> \in Seq(S) /\ Len(<<x>>) = 1 /\ <<x>>[1] = x
    OBVIOUS
  <1>2. /\ <<x>> \o s \in Seq(S)
        /\ Len(<<x>> \o s) = Len(<<x>>) + Len(s)
        /\ \A i \in 1 .. Len(<<x>>) + Len(s) :
              (<<x>> \o s)[i] = IF i <= Len(<<x>>) THEN <<x>>[i] ELSE s[i - Len(<<x>>)]
    BY <1>1, ConcatProperties
  <1>3. Len(s) \in Nat
    OBVIOUS
  <1>4. QED
    BY <1>1, <1>2, <1>3

LEMMA ServerStepTypes ==
    ASSUME Types,
           \/ \E a \in Actions, stored \in Statuses : SetAction(a, stored)
           \/ \E u \in Ulds, level \in Levels : SaveFleetStatus(u, level)
           \/ \E x \in Alerts : AppendAlert(x)
           \/ \E n \in Notices : PublishNotification(n)
    PROVE  Types'
  <1>1. /\ server \in [Actions \cup Ulds -> Statuses \cup Levels \cup {"none"}]
        /\ \A i \in Actions \cup Ulds : server[i] \in Held(i) \cup {"none"}
        /\ history \in Seq(Alerts) /\ IsInjective(history)
    BY DEF Types, ServerTypes
  <1>2. ASSUME NEW a \in Actions, NEW stored \in Statuses, SetAction(a, stored) PROVE Types'
    <2>1. [id |-> a, status |-> stored] \in Entry
      BY DEF Entry
    <2>2. /\ server' \in [Actions \cup Ulds -> Statuses \cup Levels \cup {"none"}]
          /\ \A i \in Actions \cup Ulds : server'[i] \in Held(i) \cup {"none"}
      BY <1>1, <1>2 DEF SetAction, Held
    <2>3. QED
      BY <1>1, <1>2, <2>1, <2>2, DueTypes DEF SetAction
  <1>3. ASSUME NEW u \in Ulds, NEW level \in Levels, SaveFleetStatus(u, level) PROVE Types'
    <2>1. [id |-> u, status |-> level] \in Entry
      BY DEF Entry
    <2>2. /\ server' \in [Actions \cup Ulds -> Statuses \cup Levels \cup {"none"}]
          /\ \A i \in Actions \cup Ulds : server'[i] \in Held(i) \cup {"none"}
      BY <1>1, <1>3, IdsAreApart DEF SaveFleetStatus, Held
    <2>3. QED
      BY <1>1, <1>3, <2>1, <2>2, DueTypes DEF SaveFleetStatus
  <1>4. ASSUME NEW x \in Alerts, AppendAlert(x) PROVE Types'
    <2>1. [id |-> x, status |-> "raised"] \in Entry
      BY DEF Entry
    <2>2. history' \in Seq(Alerts) /\ Len(history') = Len(history) + 1 /\ history'[1] = x
          /\ \A i \in 2 .. Len(history) + 1 : history'[i] = history[i - 1]
      BY <1>1, <1>4, ConsSeq DEF AppendAlert
    <2>3. IsInjective(history')
      <3>1. Len(history) \in Nat /\ DOMAIN history = 1 .. Len(history) /\ DOMAIN history' = 1 .. Len(history) + 1
        BY <1>1, <2>2
      <3>2. \A i \in 1 .. Len(history) : history[i] # x
        BY <1>4, <3>1 DEF AppendAlert, Range
      <3>3. \A i \in 1 .. Len(history) + 1 : i = 1 \/ i - 1 \in 1 .. Len(history)
        BY <3>1
      <3>4. ASSUME NEW i \in DOMAIN history', NEW j \in DOMAIN history', history'[i] = history'[j]
            PROVE  i = j
        <4>1. CASE i = 1 \/ j = 1
          BY <2>2, <3>1, <3>2, <3>3, <3>4, <4>1
        <4>2. CASE i # 1 /\ j # 1
          <5>1. i - 1 \in DOMAIN history /\ j - 1 \in DOMAIN history
            BY <3>1, <3>3, <4>2
          <5>2. history[i - 1] = history[j - 1]
            BY <2>2, <3>1, <3>4, <4>2
          <5>3. i - 1 = j - 1
            BY <1>1, <5>1, <5>2 DEF IsInjective
          <5>4. QED
            BY <3>1, <5>3
        <4>3. QED
          BY <4>1, <4>2
      <3>5. QED
        BY <3>4 DEF IsInjective
    <2>4. QED
      BY <1>1, <1>4, <2>1, <2>2, <2>3, DueTypes DEF AppendAlert
  <1>5. ASSUME NEW n \in Notices, PublishNotification(n) PROVE Types'
    <2>1. [id |-> n, status |-> "raised"] \in Entry
      BY DEF Entry
    <2>2. QED
      BY <1>1, <1>5, <2>1, DueTypes DEF PublishNotification
  <1>6. QED
    BY <1>2, <1>3, <1>4, <1>5

LEMMA EmissionTypes ==
    ASSUME Types, NEW entry \in BagToSet(emissions), Emit(entry) \/ LoseEmission(entry)
    PROVE  Types'
  <1>1. IsABag(emissions) /\ BagToSet(emissions) \subseteq Entry /\ entry \in Entry
    BY DEF Types, ServerTypes
  <1>2. emissions' = emissions (-) SetToBag({entry})
    BY DEF Emit, LoseEmission
  <1>3. IsABag(emissions') /\ BagToSet(emissions') \subseteq Entry
    BY <1>1, <1>2, BagRemove
  <1>4. ServerTypes'
    BY <1>3 DEF Types, ServerTypes, Emit, LoseEmission
  <1>5. inbox' = inbox \/ inbox' = Append(inbox, entry)
    BY DEF Emit, LoseEmission, socketVars
  <1>6. LinkTypes'
    BY <1>1, <1>5, AppendProperties DEF Types, LinkTypes, Emit, LoseEmission, socketVars
  <1>7. ScreenTypes' /\ PollTypes'
    <2>1. synced' \subseteq {"tasks", "ulds", "alerts"}
      BY SyncedType DEF Emit, LoseEmission
    <2>2. UNCHANGED <<screenVars, queueVars, marks, marked, polls>>
      BY DEF Emit, LoseEmission
    <2>3. QED
      BY <2>1, <2>2, TypesFrame
  <1>8. QED
    BY <1>4, <1>6, <1>7 DEF Types

LEMMA StatusesAreTasks ==
    /\ \A stored \in Statuses : mapActionToTask(stored) \in TaskStatuses
    /\ \A level \in Levels : normalizeRisk(level) \in Risks
  BY LevelsAssumption DEF mapActionToTask, normalizeRisk, Statuses, TaskStatuses, Risks

\* What an entry shows: of an action a task, of a ULD its risk.
LEMMA EntryShows ==
    ASSUME NEW entry \in Entry, entry.id \in Actions \cup Ulds
    PROVE  /\ entry.status \in Held(entry.id)
           /\ entry.id \in Ids
           /\ (IF entry.id \in Actions THEN mapActionToTask(entry.status)
               ELSE mapTelemetryToUld(entry.status)) \in Shows(entry.id)
  <1>1. CASE entry \in [id : Actions, status : Statuses]
    BY <1>1, IdsAreApart, StatusesAreTasks DEF Held, Shows
  <1>2. CASE entry \in [id : Ulds, status : Levels]
    BY <1>2, IdsAreApart, StatusesAreTasks DEF Held, Shows, mapTelemetryToUld
  <1>3. QED
    BY <1>1, <1>2, IdsAreApart DEF Entry

LEMMA HandleEntryTypes ==
    ASSUME Types, HandleEntry
    PROVE  Types'
  <1> DEFINE entry == Head(inbox)
  <1>1. entry \in Entry /\ Tail(inbox) \in Seq(Entry) /\ entry.id \in Actions \cup Ulds
    BY HeadTailProperties DEF Types, LinkTypes, HandleEntry
  <1> DEFINE shown == IF entry.id \in Actions THEN mapActionToTask(entry.status)
                      ELSE mapTelemetryToUld(entry.status)
  <1>2. entry.id \in Ids /\ shown \in Shows(entry.id)
    BY <1>1, EntryShows
  <1>3. screen' = [screen EXCEPT ![entry.id] = shown] /\ marked' = marked \ {entry.id}
    BY DEF HandleEntry, replaceById
  <1> HIDE DEF entry, shown
  <1>4. screen' = [i \in Ids |-> screen'[i]] /\ \A i \in Ids : screen'[i] \in Shows(i)
    BY <1>2, <1>3 DEF Types, ScreenTypes
  <1>5. ScreenTypes'
    BY <1>3, <1>4 DEF Types, ScreenTypes, HandleEntry, queueVars, Shows
  <1>6. LinkTypes'
    BY <1>1 DEF Types, LinkTypes, HandleEntry
  <1>7. ServerTypes' /\ PollTypes'
    BY TypesFrame DEF HandleEntry
  <1>8. QED
    BY <1>5, <1>6, <1>7 DEF Types

\* What the alerts are when x arrives.
LEMMA AlertArrives ==
    ASSUME NEW S, NEW list \in Seq(S), NEW x \in S
    PROVE  LET cut == IF Len(list) < AlertLimit THEN Len(list) + 1 ELSE AlertLimit
               after == SubSeq(<<x>> \o list, 1, cut)
           IN  /\ after \in Seq(S)
               /\ Len(list) < AlertLimit => Range(after) = Range(list) \cup {x}
               /\ Len(list) >= AlertLimit => Len(after) >= AlertLimit
  <1> DEFINE all == <<x>> \o list
             cut == IF Len(list) < AlertLimit THEN Len(list) + 1 ELSE AlertLimit
             after == SubSeq(all, 1, cut)
  <1>1. /\ all \in Seq(S) /\ Len(all) = Len(list) + 1 /\ all[1] = x
        /\ \A i \in 2 .. Len(list) + 1 : all[i] = list[i - 1]
    BY ConsSeq
  <1>2. Len(list) \in Nat /\ AlertLimit \in Nat
    BY LimitsAssumption
  <1>3. cut \in Nat /\ cut <= Len(list) + 1
    BY <1>2
  <1>4. \A i \in 1 .. cut : all[i] \in S
    BY <1>1, <1>2, <1>3
  <1> HIDE DEF all
  <1>5. /\ after \in Seq(S)
        /\ Len(after) = IF 1 <= cut THEN cut - 1 + 1 ELSE 0
        /\ \A i \in 1 .. cut - 1 + 1 : after[i] = all[1 + i - 1]
    BY <1>3, <1>4, SubSeqProperties
  <1>6. Len(after) = cut /\ \A i \in 1 .. cut : after[i] = all[i]
    BY <1>3, <1>5
  <1>7. ASSUME Len(list) < AlertLimit PROVE Range(after) = Range(list) \cup {x}
    <2>1. cut = Len(list) + 1
      BY <1>7
    <2>2. DOMAIN after = 1 .. Len(list) + 1 /\ DOMAIN list = 1 .. Len(list)
      BY <1>5, <1>6, <2>1
    <2>3. after[1] = x /\ \A i \in 1 .. Len(list) : after[i + 1] = list[i]
      BY <1>1, <1>2, <1>6, <2>1 DEF all
    <2>4. \A i \in 1 .. Len(list) + 1 : i = 1 \/ (i - 1 \in 1 .. Len(list) /\ i = (i - 1) + 1)
      BY <1>2
    <2>5. 1 \in 1 .. Len(list) + 1 /\ \A i \in 1 .. Len(list) : i + 1 \in 1 .. Len(list) + 1
      BY <1>2
    <2> HIDE DEF after
    <2>6. Range(after) \subseteq Range(list) \cup {x}
      <3>1. ASSUME NEW i \in 1 .. Len(list) + 1 PROVE after[i] \in Range(list) \cup {x}
        <4>1. CASE i = 1
          BY <2>3, <4>1
        <4>2. CASE i # 1
          BY <2>2, <2>3, <2>4, <4>2 DEF Range
        <4>3. QED
          BY <4>1, <4>2
      <3>2. QED
        BY <2>2, <3>1 DEF Range
    <2>7. Range(list) \cup {x} \subseteq Range(after)
      BY <2>2, <2>3, <2>5 DEF Range
    <2>8. QED
      BY <2>6, <2>7
  <1>8. Len(list) >= AlertLimit => cut = AlertLimit
    BY <1>2
  <1>9. QED
    BY <1>2, <1>5, <1>6, <1>7, <1>8 DEF all

LEMMA HandleAlertTypes ==
    ASSUME Types, HandleAlert
    PROVE  Types'
  <1> DEFINE x == Head(inbox).id
             S == Alerts \cup Notices \cup SeedAlerts
  <1>1. x \in S /\ Tail(inbox) \in Seq(Entry) /\ alerts \in Seq(S)
    BY HeadTailProperties DEF Types, LinkTypes, ScreenTypes, HandleAlert
  <1>2. alerts' = SubSeq(<<x>> \o alerts, 1,
                         IF Len(alerts) < AlertLimit THEN Len(alerts) + 1 ELSE AlertLimit)
    BY DEF HandleAlert
  <1> HIDE DEF x
  <1>3. alerts' \in Seq(S)
    BY <1>1, <1>2, AlertArrives
  <1>4. ScreenTypes'
    BY <1>3 DEF Types, ScreenTypes, HandleAlert, queueVars, ghostVars, Shows
  <1>5. LinkTypes'
    BY <1>1 DEF Types, LinkTypes, HandleAlert
  <1>6. ServerTypes' /\ PollTypes'
    BY TypesFrame DEF HandleAlert
  <1>7. QED
    BY <1>4, <1>5, <1>6 DEF Types

LEMMA LinkStepTypes ==
    ASSUME Types, Connect \/ ConnectError \/ Disconnect \/ GoOffline
    PROVE  Types'
  <1>1. ServerTypes' /\ PollTypes'
    BY TypesFrame DEF Connect, ConnectError, Disconnect, GoOffline
  <1>2. link' \in BOOLEAN /\ onLine' \in BOOLEAN
    BY Zenon DEF Types, LinkTypes, Connect, ConnectError, Disconnect, GoOffline, socketVars
  <1>3. attempts' \in 0 .. ReconnectAttempts + 1
    BY LimitsAssumption DEF Types, LinkTypes, Connect, ConnectError, Disconnect, GoOffline, socketVars
  <1>4. status' \in {"online", "syncing", "offline"}
    BY DEF Connect, ConnectError, Disconnect, GoOffline
  <1>5. inbox' \in Seq(Entry)
    <2>1. <<>> \in Seq(Entry)
      OBVIOUS
    <2>2. QED
      BY <2>1 DEF Types, LinkTypes, Connect, ConnectError, Disconnect, GoOffline, socketVars
  <1>6. synced' \subseteq {"tasks", "ulds", "alerts"}
    BY SyncedType DEF Connect, ConnectError, Disconnect, GoOffline, ghostVars
  <1>7. UNCHANGED <<screenVars, queueVars, marks, marked>>
    BY DEF Connect, ConnectError, Disconnect, GoOffline, ghostVars
  <1>8. ScreenTypes'
    BY <1>6, <1>7, TypesFrame
  <1>9. QED
    BY <1>1, <1>2, <1>3, <1>4, <1>5, <1>8 DEF Types, LinkTypes

LEMMA QueueStepTypes ==
    ASSUME Types, GoOnline \/ FinishFlush \/ \E i \in Tasks : markTaskCompleted(i)
    PROVE  Types'
  <1>1. /\ screen = [i \in Ids |-> screen[i]] /\ \A i \in Ids : screen[i] \in Shows(i)
        /\ marks \in 0 .. MaxMarks /\ MaxMarks \in Nat /\ MaxFlushes \in Nat
        /\ queue \in Seq(Tasks) /\ Len(queue) <= marks /\ flushes \in 0 .. MaxFlushes
    BY LimitsAssumption DEF Types, ScreenTypes
  <1>2. CASE GoOnline
    <2>1. status' \in {"online", "syncing", "offline"} /\ flushes' \in 0 .. MaxFlushes
      BY <1>1, <1>2 DEF GoOnline
    <2>2. ScreenTypes'
      BY <1>2, <2>1 DEF Types, ScreenTypes, GoOnline, screenVars, ghostVars, Shows
    <2>3. link' \in BOOLEAN /\ onLine' \in BOOLEAN
      BY <1>2, Zenon DEF Types, LinkTypes, GoOnline, socketVars
    <2>4. inbox' = inbox /\ attempts' = attempts
      BY <1>2 DEF GoOnline, socketVars
    <2>5. LinkTypes'
      BY <2>1, <2>3, <2>4 DEF Types, LinkTypes
    <2>6. ServerTypes' /\ PollTypes'
      BY <1>2, TypesFrame DEF GoOnline
    <2>7. QED
      BY <2>2, <2>5, <2>6 DEF Types
  <1>3. CASE FinishFlush
    <2>1. <<>> \in Seq(Tasks) /\ Len(<<>>) = 0
      OBVIOUS
    <2>2. ScreenTypes'
      BY <1>1, <1>3, <2>1 DEF Types, ScreenTypes, FinishFlush, screenVars, ghostVars, Shows
    <2>3. status' \in {"online", "syncing", "offline"}
      BY <1>3 DEF FinishFlush
    <2>4. UNCHANGED <<socketVars, onLine>>
      BY <1>3 DEF FinishFlush
    <2>5. LinkTypes'
      BY <2>3, <2>4 DEF Types, LinkTypes, socketVars
    <2>6. ServerTypes' /\ PollTypes'
      BY <1>3, TypesFrame DEF FinishFlush
    <2>7. QED
      BY <2>2, <2>5, <2>6 DEF Types
  <1>4. ASSUME NEW i \in Tasks, markTaskCompleted(i) PROVE Types'
    <2>1. queue' \in Seq(Tasks) /\ Len(queue') = Len(queue) + 1
      <3>1. queue' = <<i>> \o queue
        BY <1>4 DEF markTaskCompleted
      <3>2. <<i>> \o queue \in Seq(Tasks) /\ Len(<<i>> \o queue) = Len(queue) + 1
        BY <1>1, ConsSeq
      <3>3. QED
        BY <3>1, <3>2
    <2>2. marks' = marks + 1 /\ marks' \in 0 .. MaxMarks /\ Len(queue) \in Nat
      <3>1. marks < MaxMarks /\ marks' = marks + 1
        BY <1>4 DEF markTaskCompleted
      <3>2. QED
        BY <1>1, <3>1
    <2>3. "Completed" \in Shows(i) /\ i \in Ids
      BY IdsAreApart DEF Shows, TaskStatuses
    <2>4. screen' = [j \in Ids |-> screen'[j]] /\ \A j \in Ids : screen'[j] \in Shows(j)
      BY <1>1, <1>4, <2>3 DEF markTaskCompleted
    <2>5. Len(queue') <= marks'
      BY <1>1, <2>1, <2>2
    <2>6. /\ UNCHANGED <<alerts, flushes, synced>>
          /\ marked' \subseteq Tasks
      BY <1>4 DEF markTaskCompleted, Types, ScreenTypes
    <2>7. ScreenTypes'
      BY <2>1, <2>2, <2>4, <2>5, <2>6 DEF Types, ScreenTypes, Shows
    <2>8. ServerTypes' /\ PollTypes' /\ LinkTypes'
      BY <1>4, TypesFrame DEF markTaskCompleted
    <2>9. QED
      BY <2>7, <2>8 DEF Types
  <1>5. QED
    BY <1>2, <1>3, <1>4

LEMMA PollStepTypes ==
    ASSUME Types, NEW p \in DOMAIN polls, ReadLists(p) \/ FinishPoll(p) \/ FailPoll(p)
    PROVE  Types'
  <1>1. polls \in Seq(Poll) /\ Len(polls) <= MaxPolls /\ polls[p] \in Poll /\ polls[p] \in Answer
    BY DEF Types, PollTypes, Poll
  <1>2. RemoveAt(polls, p) \in Seq(Poll) /\ Len(RemoveAt(polls, p)) = Len(polls) - 1
    BY <1>1, RemoveAtType
  <1>3. Len(RemoveAt(polls, p)) <= MaxPolls
    BY <1>1, <1>2, LimitsAssumption
  <1>4. CASE ReadLists(p)
    <2> DEFINE D == {i \in DOMAIN server : server[i] \notin {"none", "VERIFIED"}}
               read == [sent |-> TRUE, entries |-> Restrict(server, D), alerts |-> history]
    <2>1. polls' = [polls EXCEPT ![p] = read]
      BY <1>4 DEF ReadLists
    <2>2. D \subseteq Actions \cup Ulds /\ \A i \in D : server[i] \in Held(i) \ {"VERIFIED"}
      BY DEF Types, ServerTypes
    <2>3. \A i \in D : server[i] \in Statuses \cup Levels
      BY <2>2 DEF Held
    <2> HIDE DEF D
    <2>4. Restrict(server, D) \in [D -> Statuses \cup Levels]
      BY <2>3 DEF Restrict
    <2>5. read \in Answer
      BY <2>2, <2>4 DEF Answer, Types, ServerTypes
    <2>6. read \in Poll
      BY <2>2, <2>5 DEF Poll, HoldsListed, Restrict
    <2> HIDE DEF read
    <2>7. polls' \in Seq(Poll) /\ Len(polls') = Len(polls)
      BY <1>1, <2>1, <2>6, ExceptSeq
    <2>8. PollTypes'
      BY <1>1, <2>7 DEF PollTypes
    <2>9. UNCHANGED <<serverVars, socketVars, onLine, status, screenVars, queueVars, marks, marked, synced>>
      BY <1>4 DEF ReadLists, ghostVars
    <2>10. ServerTypes' /\ LinkTypes' /\ ScreenTypes'
      BY <2>9, TypesFrame, SyncedType
    <2>11. QED
      BY <2>8, <2>10 DEF Types
  <1>5. CASE FinishPoll(p)
    <2>1. PollTypes'
      BY <1>2, <1>3, <1>5 DEF FinishPoll, PollTypes
    <2>2. \A i \in DOMAIN polls[p].entries : polls[p].entries[i] \in Held(i)
      BY <1>1, <1>5 DEF FinishPoll, Poll, HoldsListed, Unread
    <2>3. DOMAIN polls[p].entries \subseteq Actions \cup Ulds /\ polls[p].alerts \in Seq(Alerts)
      BY <1>1 DEF Answer
    <2>4. PICK answered : screen' =
            [i \in Ids |->
              IF listOf(i) \notin answered THEN screen[i]
              ELSE IF i \notin DOMAIN polls[p].entries THEN "absent"
              ELSE IF i \in Actions THEN mapActionToTask(polls[p].entries[i])
              ELSE mapFleetToUld(polls[p].entries[i])]
      BY <1>5 DEF FinishPoll
    <2>5. ASSUME NEW i \in Ids PROVE screen'[i] \in Shows(i)
      <3>1. screen[i] \in Shows(i) /\ "absent" \in Shows(i)
        BY DEF Types, ScreenTypes, Shows
      <3>2. CASE i \in DOMAIN polls[p].entries /\ i \in Actions
        BY <2>2, <2>4, <3>1, <3>2, StatusesAreTasks, IdsAreApart DEF Held, Shows
      <3>3. CASE i \in DOMAIN polls[p].entries /\ i \notin Actions
        <4>1. i \in Ulds /\ i \notin Tasks /\ polls[p].entries[i] \in Levels
          BY <2>2, <2>3, <3>3, IdsAreApart DEF Held
        <4>2. QED
          BY <2>4, <3>1, <3>3, <4>1, StatusesAreTasks DEF Shows, mapFleetToUld
      <3>4. CASE i \notin DOMAIN polls[p].entries
        BY <2>4, <3>1, <3>4
      <3>5. QED
        BY <3>2, <3>3, <3>4
    <2>6. alerts' \in Seq(Alerts \cup Notices \cup SeedAlerts)
      <3>1. polls[p].alerts \in Seq(Alerts \cup Notices \cup SeedAlerts)
        BY <2>3, SeqMonotonic
      <3>2. alerts' = polls[p].alerts \/ alerts' = alerts
        BY <1>5 DEF FinishPoll
      <3>3. QED
        BY <3>1, <3>2 DEF Types, ScreenTypes
    <2>7. marked' \subseteq Tasks /\ synced' \subseteq {"tasks", "ulds", "alerts"}
      <3>1. \A i : listOf(i) \in {"tasks", "ulds", "alerts"}
        BY DEF listOf
      <3>2. QED
        BY <1>5, <3>1 DEF FinishPoll, Types, ScreenTypes
    <2>8. UNCHANGED <<serverVars, socketVars, onLine, status, queueVars, marks>>
      BY <1>5 DEF FinishPoll
    <2>9. ServerTypes' /\ LinkTypes'
      BY <2>8, TypesFrame
    <2>10. screen' = [i \in Ids |-> screen'[i]]
      BY <2>4
    <2>11. ScreenTypes'
      BY <2>5, <2>6, <2>7, <2>8, <2>10 DEF Types, ScreenTypes, queueVars, Shows
    <2>12. QED
      BY <2>1, <2>9, <2>11 DEF Types
  <1>6. CASE FailPoll(p)
    <2>1. PollTypes'
      BY <1>2, <1>3, <1>6 DEF FailPoll, PollTypes
    <2>2. status' \in {"online", "syncing", "offline"} /\ UNCHANGED <<socketVars, onLine>>
      BY <1>6 DEF FailPoll
    <2>3. LinkTypes'
      BY <2>2 DEF Types, LinkTypes, socketVars
    <2>4. ServerTypes' /\ ScreenTypes'
      BY <1>6, TypesFrame, SyncedType DEF FailPoll, ghostVars
    <2>5. QED
      BY <2>1, <2>3, <2>4 DEF Types
  <1>7. QED
    BY <1>4, <1>5, <1>6

LEMMA TypesStep == Types /\ [Next]_vars => Types'
  <1> SUFFICES ASSUME Types, [Next]_vars PROVE Types'
    OBVIOUS
  <1>1. CASE StartPoll
    <2>1. polls' \in Seq(Poll) /\ Len(polls') = Len(polls) + 1
      BY <1>1, UnreadType, AppendProperties DEF StartPoll, Types, PollTypes
    <2>2. PollTypes'
      BY <1>1, <2>1, LimitsAssumption DEF StartPoll, Types, PollTypes
    <2>3. ServerTypes' /\ LinkTypes' /\ ScreenTypes'
      BY <1>1, TypesFrame, SyncedType DEF StartPoll, ghostVars
    <2>4. QED
      BY <2>2, <2>3 DEF Types
  <1>2. CASE Reload
    <2>1. PollTypes'
      BY <1>2, SeedTypes DEF Reload, Load, PollTypes
    <2>2. ScreenTypes'
      <3>1. 0 \in 0 .. MaxFlushes
        BY LimitsAssumption
      <3>2. /\ screen' = SeedScreen /\ alerts' = SetToSeq(SeedAlerts) /\ flushes' = 0
            /\ marked' = {} /\ synced' = {} /\ queue' = queue /\ marks' = marks
        BY <1>2 DEF Reload, Load
      <3>3. QED
        BY <3>1, <3>2, SeedTypes DEF Types, ScreenTypes
    <2>3. LinkTypes'
      <3>1. link' \in BOOLEAN /\ onLine' \in BOOLEAN
        BY <1>2, Zenon DEF Reload, Load, Types, LinkTypes
      <3>2. status' \in {"online", "syncing", "offline"}
        BY <1>2 DEF Reload, Load
      <3>3. inbox' \in Seq(Entry) /\ attempts' \in 0 .. ReconnectAttempts + 1
        BY <1>2, LimitsAssumption DEF Reload, Load
      <3>4. QED
        BY <3>1, <3>2, <3>3 DEF LinkTypes
    <2>4. ServerTypes'
      BY <1>2, TypesFrame DEF Reload
    <2>5. QED
      BY <2>1, <2>2, <2>3, <2>4 DEF Types
  <1>3. CASE UNCHANGED vars
    BY <1>3, TypesFrame, SyncedType DEF vars, ghostVars, Types
  <1>4. QED
    BY <1>1, <1>2, <1>3, ServerStepTypes, EmissionTypes, HandleEntryTypes, HandleAlertTypes,
       LinkStepTypes, QueueStepTypes, PollStepTypes
    DEF Next

\* The tab's state is well-formed, whatever order events, answers, timers and
\* reloads come in: a task shows a task's status and a ULD a risk.
THEOREM ConsoleTypeCorrect == Spec => []TypeOK
  <1>1. QED
    BY TypesInit, TypesStep, TypesImplyTypeOK, PTL DEF Spec

\* The status an operator sees follows the network, for any number of polls,
\* flushes and attempts to connect, in any order.
THEOREM StatusSafety == Spec => []StatusFollowsNetwork
  <1>1. Init => StatusFollowsNetwork
    BY DEF Init, StatusFollowsNetwork
  <1>2. StatusFollowsNetwork /\ [Next]_vars => StatusFollowsNetwork'
    <2> SUFFICES ASSUME StatusFollowsNetwork, [Next]_vars PROVE StatusFollowsNetwork'
      OBVIOUS
    <2> USE DEF StatusFollowsNetwork, socketVars
    <2>1. ASSUME UNCHANGED <<link, onLine, status>> PROVE StatusFollowsNetwork'
      BY <2>1
    <2>2. CASE \/ Connect \/ ConnectError \/ Disconnect \/ GoOffline \/ GoOnline \/ FinishFlush
               \/ \E p \in DOMAIN polls : FailPoll(p)
      BY <2>2 DEF Connect, ConnectError, Disconnect, GoOffline, GoOnline, FinishFlush, FailPoll
    <2>3. CASE Reload
      BY <2>3 DEF Reload, Load
    <2>4. CASE \/ \E entry \in BagToSet(emissions) : Emit(entry) \/ LoseEmission(entry)
               \/ HandleEntry \/ HandleAlert
      BY <2>1, <2>4 DEF Emit, LoseEmission, HandleEntry, HandleAlert
    <2>5. CASE \/ \E a \in Actions, stored \in Statuses : SetAction(a, stored)
               \/ \E u \in Ulds, level \in Levels : SaveFleetStatus(u, level)
               \/ \E x \in Alerts : AppendAlert(x)
               \/ \E n \in Notices : PublishNotification(n)
      BY <2>1, <2>5 DEF SetAction, SaveFleetStatus, AppendAlert, PublishNotification, Due
    <2>6. CASE \/ StartPoll \/ \E i \in Tasks : markTaskCompleted(i)
               \/ \E p \in DOMAIN polls : ReadLists(p) \/ FinishPoll(p)
      BY <2>1, <2>6 DEF StartPoll, markTaskCompleted, ReadLists, FinishPoll
    <2>7. CASE UNCHANGED vars
      BY <2>1, <2>7 DEF vars
    <2>8. QED
      BY <2>2, <2>3, <2>4, <2>5, <2>6, <2>7 DEF Next
  <1>3. QED
    BY <1>1, <1>2, PTL DEF Spec
-----------------------------------------------------------------------------
(***************************************************************************)
(* The screen and the server.                                              *)
(***************************************************************************)
Emitting(i) == \E entry \in BagToSet(emissions) : entry.id = i
Waiting(i) == \E k \in 1 .. Len(inbox) : inbox[k].id = i

\* The screen shows of i what the server holds.
Shown(i) ==
    IF i \in DOMAIN server /\ server[i] # "none"
    THEN \/ i \in Actions /\ screen[i] = mapActionToTask(server[i])
         \/ i \in Ulds /\ screen[i] = normalizeRisk(server[i])
         \/ server[i] = "VERIFIED" /\ screen[i] = "absent"
    ELSE screen[i] = "absent"

\* The last word on i that is on its way is the server's: an emission, else the
\* last event in the inbox, else what the screen shows.
LastWord(i) ==
    /\ \A entry \in BagToSet(emissions) : entry.id = i => entry.status = server[i]
    /\ ~Emitting(i) =>
          \A k \in 1 .. Len(inbox) :
              inbox[k].id = i /\ (\A m \in k + 1 .. Len(inbox) : inbox[m].id # i)
              => inbox[k].status = server[i]
    /\ ~Emitting(i) /\ ~Waiting(i) /\ i \notin marked => Shown(i)

\* Every stored alert is shown or on its way, unless the screen is full.
AlertsArrive ==
    \/ Len(alerts) >= AlertLimit
    \/ \A x \in Range(history) : x \in Range(alerts) \/ Emitting(x) \/ Waiting(x)

SyncInv ==
    /\ \A i \in Ids : listOf(i) \in synced => LastWord(i)
    /\ "alerts" \in synced => AlertsArrive

LEMMA ListOfIds ==
    /\ \A i \in Ids : listOf(i) # "alerts"
    /\ \A x \in Alerts \cup Notices : listOf(x) = "alerts"
  BY IdsAreApart DEF listOf, Ids

LEMMA EntryIds ==
    ASSUME NEW entry \in Entry
    PROVE  entry.id \in Actions \cup Ulds \cup Alerts \cup Notices
  BY DEF Entry

LEMMA SyncInit == Init => SyncInv
  BY DEF Init, SyncInv

\* What LastWord is about.
LEMMA SyncFrame ==
    ASSUME SyncInv, UNCHANGED <<server, history, emissions, inbox, screen, alerts, marked>>,
           synced' \subseteq synced
    PROVE  SyncInv'
  BY DEF SyncInv, LastWord, AlertsArrive, Emitting, Waiting, Shown

\* A new entry of j is the last word on j, unless one is to be emitted still, and
\* none on another.
LEMMA DueSync ==
    ASSUME Types, SyncInv, NEW entry \in Entry, Due(entry),
           server' \in [Actions \cup Ulds -> Statuses \cup Levels \cup {"none"}],
           \A i \in Actions \cup Ulds :
               server'[i] = IF i = entry.id THEN entry.status ELSE server[i],
           Range(history') \subseteq Range(history) \cup {entry.id}
    PROVE  SyncInv'
  <1>1. BagToSet(emissions') = BagToSet(emissions) \cup {entry}
    <2>1. emissions' = emissions (+) SetToBag({entry})
      BY DEF Due
    <2>2. IsABag(emissions)
      BY DEF Types, ServerTypes
    <2>3. BagToSet(emissions (+) SetToBag({entry})) = BagToSet(emissions) \cup {entry}
      BY <2>2, BagAdd
    <2>4. QED
      BY <2>1, <2>3
  <1>2. UNCHANGED <<inbox, screen, alerts, marked>>
    BY DEF Due, socketVars, screenVars
  <1>3. /\ synced' \subseteq synced
        /\ listOf(entry.id) \in synced' => ~Emitting(entry.id)
    BY DEF Due, Emitting
  <1>4. DOMAIN server = Actions \cup Ulds /\ DOMAIN server' = Actions \cup Ulds
    BY DEF Types, ServerTypes
  <1>5. \A e \in BagToSet(emissions) : e.id \in Actions \cup Ulds \cup Alerts \cup Notices
    BY EntryIds DEF Types, ServerTypes
  <1>6. ASSUME NEW i \in Ids, listOf(i) \in synced' PROVE LastWord(i)'
    <2>1. LastWord(i)
      BY <1>3, <1>6 DEF SyncInv
    <2>2. CASE i # entry.id
      <3>1. server'[i] = server[i] \/ i \notin Actions \cup Ulds
        BY <2>2
      <3>2. \A e \in BagToSet(emissions) : e.id = i => i \in Actions \cup Ulds
        BY <1>5, IdsAreApart
      <3>3. \A e \in BagToSet(emissions') : e.id = i => e.status = server'[i]
        BY <1>1, <2>1, <2>2, <3>1, <3>2 DEF LastWord
      <3>4. Emitting(i)' <=> Emitting(i)
        BY <1>1, <2>2 DEF Emitting
      <3>5. Waiting(i)' <=> Waiting(i)
        BY <1>2 DEF Waiting
      <3>6. Shown(i) => Shown(i)'
        BY <1>2, <1>4, <3>1 DEF Shown
      <3>7. \A k \in 1 .. Len(inbox) : inbox[k].id = i => i \in Actions \cup Ulds
        <4>1. \A k \in 1 .. Len(inbox) : inbox[k] \in Entry
          BY DEF Types, LinkTypes
        <4>2. QED
          BY <4>1, EntryIds, IdsAreApart
      <3>8. QED
        BY <1>2, <2>1, <3>1, <3>3, <3>4, <3>5, <3>6, <3>7 DEF LastWord
    <2>3. CASE i = entry.id
      <3>1. i \in Actions \cup Ulds
        BY <2>3, EntryIds, IdsAreApart
      <3>2. ~Emitting(i) /\ Emitting(i)'
        BY <1>1, <1>3, <1>6, <2>3 DEF Emitting
      <3>3. \A e \in BagToSet(emissions') : e.id = i => e.status = server'[i]
        BY <1>1, <2>3, <3>1, <3>2 DEF Emitting
      <3>4. QED
        BY <3>2, <3>3 DEF LastWord
    <2>4. QED
      BY <2>2, <2>3
  <1>7. ASSUME "alerts" \in synced' PROVE AlertsArrive'
    <2>1. AlertsArrive
      BY <1>3, <1>7 DEF SyncInv
    <2>2. \A x : Emitting(x) => Emitting(x)'
      BY <1>1 DEF Emitting
    <2>3. Emitting(entry.id)'
      BY <1>1 DEF Emitting
    <2>4. \A x : Waiting(x)' <=> Waiting(x)
      BY <1>2 DEF Waiting
    <2>5. QED
      BY <1>2, <2>1, <2>2, <2>3, <2>4 DEF AlertsArrive
  <1>8. QED
    BY <1>6, <1>7 DEF SyncInv

LEMMA ServerStepSync ==
    ASSUME Types, SyncInv,
           \/ \E a \in Actions, stored \in Statuses : SetAction(a, stored)
           \/ \E u \in Ulds, level \in Levels : SaveFleetStatus(u, level)
           \/ \E x \in Alerts : AppendAlert(x)
           \/ \E n \in Notices : PublishNotification(n)
    PROVE  SyncInv'
  <1>1. server \in [Actions \cup Ulds -> Statuses \cup Levels \cup {"none"}] /\ history \in Seq(Alerts)
    BY DEF Types, ServerTypes
  <1>2. ASSUME NEW a \in Actions, NEW stored \in Statuses, SetAction(a, stored) PROVE SyncInv'
    <2>1. [id |-> a, status |-> stored] \in Entry
      BY DEF Entry
    <2>2. QED
      BY <1>1, <1>2, <2>1, DueSync DEF SetAction
  <1>3. ASSUME NEW u \in Ulds, NEW level \in Levels, SaveFleetStatus(u, level) PROVE SyncInv'
    <2>1. [id |-> u, status |-> level] \in Entry
      BY DEF Entry
    <2>2. QED
      BY <1>1, <1>3, <2>1, DueSync DEF SaveFleetStatus
  <1>4. ASSUME NEW x \in Alerts, AppendAlert(x) PROVE SyncInv'
    <2> DEFINE entry == [id |-> x, status |-> "raised"]
    <2>1. entry \in Entry /\ entry.id = x /\ x \notin Actions \cup Ulds
      BY IdsAreApart DEF Entry
    <2>2. /\ Len(<<x>> \o history) = Len(history) + 1 /\ (<<x>> \o history)[1] = x
          /\ \A i \in 2 .. Len(history) + 1 : (<<x>> \o history)[i] = history[i - 1]
          /\ <<x>> \o history \in Seq(Alerts)
      BY <1>1, ConsSeq
    <2>3. \A i \in 1 .. Len(history) + 1 : i = 1 \/ (i \in 2 .. Len(history) + 1 /\ i - 1 \in 1 .. Len(history))
      BY <1>1
    <2>4. history' = <<x>> \o history
      BY <1>4 DEF AppendAlert
    <2>5. Range(history') \subseteq Range(history) \cup {x}
      BY <1>1, <2>2, <2>3, <2>4 DEF Range
    <2>6. Due(entry) /\ UNCHANGED server
      BY <1>4 DEF AppendAlert
    <2> HIDE DEF entry
    <2>7. QED
      BY <1>1, <2>1, <2>5, <2>6, DueSync
  <1>5. ASSUME NEW n \in Notices, PublishNotification(n) PROVE SyncInv'
    <2>1. [id |-> n, status |-> "raised"] \in Entry /\ n \notin Actions \cup Ulds
      BY IdsAreApart DEF Entry
    <2>2. QED
      BY <1>1, <1>5, <2>1, DueSync DEF PublishNotification
  <1>6. QED
    BY <1>2, <1>3, <1>4, <1>5

\* An emission leaves the server's bag: for the inbox, or for nowhere, and then
\* its list counts as missed.
LEMMA EmissionSync ==
    ASSUME Types, SyncInv, NEW entry \in BagToSet(emissions), Emit(entry) \/ LoseEmission(entry)
    PROVE  SyncInv'
  <1> DEFINE j == entry.id
  <1>1. BagToSet(emissions') \in {BagToSet(emissions), BagToSet(emissions) \ {entry}}
    <2>1. emissions' = emissions (-) SetToBag({entry}) /\ IsABag(emissions)
      BY DEF Emit, LoseEmission, Types, ServerTypes
    <2>2. QED
      BY <2>1, BagRemove
  <1>2. UNCHANGED <<server, history, screen, alerts, marked>>
    BY DEF Emit, LoseEmission, screenVars
  <1>3. ASSUME NEW i, Emitting(i)' PROVE Emitting(i)
    BY <1>1, <1>3 DEF Emitting
  <1>4. ASSUME NEW i, i # j, Emitting(i) PROVE Emitting(i)'
    BY <1>1, <1>4 DEF Emitting
  <1>5. CASE inbox' = Append(inbox, entry) /\ synced' = synced
    <2>1. inbox \in Seq(Entry) /\ entry \in Entry
      BY DEF Types, LinkTypes, ServerTypes
    <2>2. /\ Len(inbox') = Len(inbox) + 1 /\ Len(inbox) \in Nat
          /\ \A k \in 1 .. Len(inbox) : inbox'[k] = inbox[k]
          /\ inbox'[Len(inbox) + 1] = entry
      BY <1>5, <2>1, AppendProperties
    <2>3. Waiting(j)' /\ \A i : Waiting(i) => Waiting(i)'
      BY <2>2 DEF Waiting
    <2>4. ASSUME NEW i \in Ids, listOf(i) \in synced' PROVE LastWord(i)'
      <3>1. LastWord(i)
        BY <1>5, <2>4 DEF SyncInv
      <3>2. \A e \in BagToSet(emissions') : e.id = i => e.status = server'[i]
        BY <1>1, <1>2, <3>1 DEF LastWord
      <3>3. ASSUME ~Emitting(i)', NEW k \in 1 .. Len(inbox'), inbox'[k].id = i,
                   \A m \in k + 1 .. Len(inbox') : inbox'[m].id # i
            PROVE  inbox'[k].status = server'[i]
        <4>1. CASE k = Len(inbox) + 1
          BY <1>2, <2>2, <3>1, <3>3, <4>1 DEF LastWord
        <4>2. CASE k # Len(inbox) + 1
          <5>1. k \in 1 .. Len(inbox) /\ Len(inbox) + 1 \in k + 1 .. Len(inbox')
            BY <2>2, <4>2
          <5>2. i # j
            BY <2>2, <3>3, <5>1
          <5>3. \A m \in k + 1 .. Len(inbox) : inbox[m].id # i
            BY <2>2, <3>3, <5>1
          <5>4. ~Emitting(i)
            BY <1>4, <3>3, <5>2
          <5>5. QED
            BY <1>2, <2>2, <3>1, <3>3, <5>1, <5>3, <5>4 DEF LastWord
        <4>3. QED
          BY <4>1, <4>2
      <3>4. ASSUME ~Emitting(i)', ~Waiting(i)', i \notin marked' PROVE Shown(i)'
        <4>1. i # j /\ ~Waiting(i)
          BY <2>3, <3>4
        <4>2. ~Emitting(i)
          BY <1>4, <3>4, <4>1
        <4>3. QED
          BY <1>2, <3>1, <3>4, <4>1, <4>2 DEF LastWord, Shown
      <3>5. QED
        BY <3>2, <3>3, <3>4 DEF LastWord
    <2>5. "alerts" \in synced' => AlertsArrive'
      BY <1>2, <1>4, <1>5, <2>3 DEF SyncInv, AlertsArrive
    <2>6. QED
      BY <2>4, <2>5 DEF SyncInv
  <1>6. CASE inbox' = inbox /\ synced' = synced \ {listOf(j)}
    <2>1. \A i : Waiting(i)' <=> Waiting(i)
      BY <1>6 DEF Waiting
    <2>2. ASSUME NEW i \in Ids, listOf(i) \in synced' PROVE LastWord(i)'
      <3>1. LastWord(i) /\ i # j
        BY <1>6, <2>2 DEF SyncInv
      <3>2. Emitting(i)' <=> Emitting(i)
        BY <1>3, <1>4, <3>1
      <3>3. \A e \in BagToSet(emissions') : e.id = i => e.status = server'[i]
        BY <1>1, <1>2, <3>1 DEF LastWord
      <3>4. QED
        BY <1>2, <1>6, <2>1, <3>1, <3>2, <3>3 DEF LastWord, Shown
    <2>3. ASSUME "alerts" \in synced' PROVE AlertsArrive'
      <3>1. "alerts" \in synced /\ listOf(j) # "alerts"
        BY <1>6, <2>3
      <3>2. Range(history) \subseteq Alerts
        BY DEF Types, ServerTypes, Range
      <3>3. \A x \in Range(history) : x # j
        BY <3>1, <3>2, ListOfIds
      <3>4. QED
        BY <1>2, <1>4, <2>1, <3>1, <3>3 DEF SyncInv, AlertsArrive
    <2>4. QED
      BY <2>2, <2>3 DEF SyncInv
  <1>7. QED
    BY <1>5, <1>6 DEF Emit, LoseEmission, socketVars

\* The head of the inbox is handled: what is said of the other ids stays so.
LEMMA InboxPops ==
    ASSUME Types, inbox # <<>>, inbox' = Tail(inbox), UNCHANGED emissions
    PROVE  /\ \A i : Emitting(i)' <=> Emitting(i)
           /\ \A i : Waiting(i) => Waiting(i)' \/ i = Head(inbox).id
           /\ \A i : Waiting(i)' => Waiting(i)
           /\ Head(inbox) = inbox[1] /\ Head(inbox) \in Entry /\ Len(inbox) \in Nat \ {0}
           /\ Len(inbox') = Len(inbox) - 1
           /\ \A k \in 1 .. Len(inbox') : inbox'[k] = inbox[k + 1]
  <1>1. inbox \in Seq(Entry)
    BY DEF Types, LinkTypes
  <1>2. /\ Head(inbox) = inbox[1] /\ Head(inbox) \in Entry /\ Len(inbox) \in Nat \ {0}
        /\ Len(inbox') = Len(inbox) - 1
        /\ \A k \in 1 .. Len(inbox') : inbox'[k] = inbox[k + 1]
    BY <1>1, HeadTailProperties, EmptySeq
  <1>3. \A i : Emitting(i)' <=> Emitting(i)
    BY DEF Emitting
  <1>4. ASSUME NEW i, Waiting(i), i # Head(inbox).id PROVE Waiting(i)'
    <2>1. PICK k \in 1 .. Len(inbox) : inbox[k].id = i
      BY <1>4 DEF Waiting
    <2>2. k # 1 /\ k - 1 \in 1 .. Len(inbox') /\ (k - 1) + 1 = k
      BY <1>2, <1>4, <2>1
    <2>3. inbox'[k - 1].id = i
      BY <1>2, <2>1, <2>2
    <2>4. QED
      BY <2>2, <2>3 DEF Waiting
  <1>5. ASSUME NEW i, Waiting(i)' PROVE Waiting(i)
    <2>1. PICK k \in 1 .. Len(inbox') : inbox'[k].id = i
      BY <1>5 DEF Waiting
    <2>2. k + 1 \in 1 .. Len(inbox) /\ inbox[k + 1].id = i
      BY <1>2, <2>1
    <2>3. QED
      BY <2>2 DEF Waiting
  <1>6. QED
    BY <1>2, <1>3, <1>4, <1>5

LEMMA WordStays ==
    ASSUME Types, inbox # <<>>, inbox' = Tail(inbox), UNCHANGED <<emissions, server>>,
           NEW i \in Ids, LastWord(i),
           i # Head(inbox).id => screen'[i] = screen[i] /\ (i \in marked' <=> i \in marked),
           i = Head(inbox).id /\ Head(inbox).status = server[i] => Shown(i)'
    PROVE  LastWord(i)'
  <1>1. /\ Head(inbox) = inbox[1] /\ Len(inbox) \in Nat \ {0} /\ Len(inbox') = Len(inbox) - 1
        /\ \A k \in 1 .. Len(inbox') : inbox'[k] = inbox[k + 1]
        /\ Emitting(i)' <=> Emitting(i)
        /\ Waiting(i) => Waiting(i)' \/ i = Head(inbox).id
    BY InboxPops
  <1>2. ASSUME ~Emitting(i)', NEW k \in 1 .. Len(inbox'), inbox'[k].id = i,
               \A m \in k + 1 .. Len(inbox') : inbox'[m].id # i
        PROVE  inbox'[k].status = server'[i]
    <2>1. k + 1 \in 1 .. Len(inbox) /\ inbox[k + 1].id = i /\ inbox'[k] = inbox[k + 1]
      BY <1>1, <1>2
    <2>2. ASSUME NEW m \in (k + 1) + 1 .. Len(inbox) PROVE inbox[m].id # i
      <3>1. m - 1 \in k + 1 .. Len(inbox') /\ m - 1 \in 1 .. Len(inbox') /\ (m - 1) + 1 = m
        BY <1>1
      <3>2. QED
        BY <1>1, <1>2, <3>1
    <2>3. QED
      BY <1>1, <1>2, <2>1, <2>2 DEF LastWord
  <1>3. ASSUME ~Emitting(i)', ~Waiting(i)', i \notin marked' PROVE Shown(i)'
    <2>1. CASE i # Head(inbox).id
      BY <1>1, <1>3, <2>1 DEF LastWord, Shown
    <2>2. CASE i = Head(inbox).id
      <3>1. 1 \in 1 .. Len(inbox) /\ inbox[1].id = i
        BY <1>1, <2>2
      <3>2. ASSUME NEW m \in 1 + 1 .. Len(inbox), inbox[m].id = i PROVE FALSE
        <4>1. m - 1 \in 1 .. Len(inbox') /\ (m - 1) + 1 = m
          BY <1>1
        <4>2. inbox'[m - 1].id = i
          BY <1>1, <3>2, <4>1
        <4>3. QED
          BY <1>3, <4>1, <4>2 DEF Waiting
      <3>3. inbox[1].status = server[i]
        BY <1>1, <1>3, <3>1, <3>2 DEF LastWord
      <3>4. QED
        BY <1>1, <2>2, <3>3
    <2>3. QED
      BY <2>1, <2>2
  <1>4. \A e \in BagToSet(emissions') : e.id = i => e.status = server'[i]
    BY DEF LastWord
  <1>5. QED
    BY <1>2, <1>3, <1>4 DEF LastWord

\* An entry of j with the server's status that is put on the screen shows j.
LEMMA EntryShown ==
    ASSUME Types, NEW j \in Actions \cup Ulds, NEW stored \in Held(j), stored = server[j],
           UNCHANGED server,
           screen' = [screen EXCEPT ![j] = IF j \in Actions THEN mapActionToTask(stored)
                                           ELSE mapTelemetryToUld(stored)]
    PROVE  Shown(j)'
  <1>1. j \in DOMAIN server' /\ server'[j] = stored /\ stored # "none"
    BY LevelsAreNoStatuses DEF Types, ServerTypes, Held
  <1>2. screen = [i \in Ids |-> screen[i]] /\ j \in Ids
    BY IdsAreApart DEF Types, ScreenTypes
  <1>3. CASE j \in Actions
    <2>1. screen'[j] = mapActionToTask(stored)
      BY <1>2, <1>3
    <2>2. QED
      BY <1>1, <1>3, <2>1 DEF Shown
  <1>4. CASE j \in Ulds
    <2>1. screen'[j] = normalizeRisk(stored)
      BY <1>2, <1>4, IdsAreApart DEF mapTelemetryToUld
    <2>2. QED
      BY <1>1, <1>4, <2>1 DEF Shown
  <1>5. QED
    BY <1>3, <1>4

LEMMA HandleEntrySync ==
    ASSUME Types, SyncInv, HandleEntry
    PROVE  SyncInv'
  \* The entry that is taken off the queue, as values the step does not change.
  <1>0. PICK entry : entry = Head(inbox)
    OBVIOUS
  <1> DEFINE j == entry.id
             stored == entry.status
  <1>1. /\ inbox # <<>> /\ j \in Actions \cup Ulds
        /\ inbox' = Tail(inbox) /\ UNCHANGED <<emissions, server, history, alerts, synced>>
        /\ screen' = [screen EXCEPT ![j] = IF j \in Actions THEN mapActionToTask(stored)
                                           ELSE mapTelemetryToUld(stored)]
        /\ marked' = marked \ {j}
    BY <1>0 DEF HandleEntry, replaceById, serverVars
  <1>2. entry \in Entry /\ \A x : Waiting(x) => Waiting(x)' \/ x = j
    BY <1>0, <1>1, InboxPops
  <1>3. stored \in Held(j)
    BY <1>1, <1>2, EntryShows
  <1>4. \A x : Emitting(x)' <=> Emitting(x)
    BY <1>1 DEF Emitting
  <1>5. screen = [i \in Ids |-> screen[i]]
    BY DEF Types, ScreenTypes
  <1>6. ASSUME stored = server[j] PROVE Shown(j)'
    <2> HIDE DEF j, stored
    <2>1. QED
      BY <1>1, <1>3, <1>6, EntryShown
  <1>7. ASSUME NEW i \in Ids, listOf(i) \in synced' PROVE LastWord(i)'
    <2>1. LastWord(i)
      BY <1>1, <1>7 DEF SyncInv
    <2>2. i # j => screen'[i] = screen[i] /\ (i \in marked' <=> i \in marked)
      BY <1>1, <1>5
    <2>3. i = j /\ stored = server[i] => Shown(i)'
      BY <1>6
    <2>4. QED
      BY <1>0, <1>1, <2>1, <2>2, <2>3, WordStays
  <1>8. ASSUME "alerts" \in synced' PROVE AlertsArrive'
    <2>1. Range(history) \subseteq Alerts
      BY DEF Types, ServerTypes, Range
    <2>2. \A x \in Range(history) : x # j
      BY <1>1, <2>1, IdsAreApart
    <2>3. QED
      BY <1>1, <1>2, <1>4, <1>8, <2>2 DEF SyncInv, AlertsArrive
  <1>9. QED
    BY <1>7, <1>8 DEF SyncInv

LEMMA HandleAlertSync ==
    ASSUME Types, SyncInv, HandleAlert
    PROVE  SyncInv'
  <1> DEFINE x == Head(inbox).id
             S == Alerts \cup Notices \cup SeedAlerts
  <1>1. /\ inbox # <<>> /\ x \in Alerts \cup Notices
        /\ inbox' = Tail(inbox) /\ UNCHANGED <<emissions, server, history, screen, marked, synced>>
        /\ alerts' = SubSeq(<<x>> \o alerts, 1,
                            IF Len(alerts) < AlertLimit THEN Len(alerts) + 1 ELSE AlertLimit)
    BY DEF HandleAlert, serverVars, ghostVars
  <1>2. /\ \A i : Emitting(i)' <=> Emitting(i)
        /\ \A i : Waiting(i) => Waiting(i)' \/ i = x
    BY <1>1, InboxPops
  <1>3. alerts \in Seq(S) /\ x \in S
    BY <1>1 DEF Types, ScreenTypes
  <1>4. ASSUME NEW i \in Ids, listOf(i) \in synced' PROVE LastWord(i)'
    <2>1. LastWord(i) /\ i # x
      BY <1>1, <1>4, IdsAreApart DEF SyncInv
    <2>2. QED
      BY <1>1, <2>1, WordStays
  <1> HIDE DEF x
  <1>5. /\ Len(alerts) < AlertLimit => Range(alerts') = Range(alerts) \cup {x}
        /\ Len(alerts) >= AlertLimit => Len(alerts') >= AlertLimit
    BY <1>1, <1>3, AlertArrives
  <1>6. Len(alerts) \in Nat /\ AlertLimit \in Nat
    BY <1>3, LimitsAssumption
  <1>7. ASSUME "alerts" \in synced' PROVE AlertsArrive'
    <2>1. AlertsArrive
      BY <1>1, <1>7 DEF SyncInv
    <2>2. CASE Len(alerts) >= AlertLimit
      BY <1>5, <2>2 DEF AlertsArrive
    <2>3. CASE Len(alerts) < AlertLimit
      BY <1>1, <1>2, <1>5, <1>6, <2>1, <2>3 DEF AlertsArrive
    <2>4. QED
      BY <1>6, <2>2, <2>3
  <1>8. QED
    BY <1>4, <1>7 DEF SyncInv

\* An answer replaces whole lists: a fresh one brings every entry to its last
\* word, and a list that is not fresh is not called synced.
LEMMA FinishPollSync ==
    ASSUME Types, SyncInv, NEW p \in DOMAIN polls, FinishPoll(p)
    PROVE  SyncInv'
  <1> DEFINE read == polls[p]
  <1>1. PICK answered :
          /\ answered = {listOf(i) : i \in DOMAIN read.entries \cup Range(read.alerts)}
          /\ screen' = [i \in Ids |->
                IF listOf(i) \notin answered THEN screen[i]
                ELSE IF i \notin DOMAIN read.entries THEN "absent"
                ELSE IF i \in Actions THEN mapActionToTask(read.entries[i])
                ELSE mapFleetToUld(read.entries[i])]
          /\ alerts' = IF "alerts" \in answered THEN read.alerts ELSE alerts
          /\ marked' = IF "tasks" \in answered THEN {} ELSE marked
          /\ synced' = (synced \ answered) \cup {list \in answered : Fresh(list, read)}
    BY DEF FinishPoll
  <1>2. UNCHANGED <<server, history, emissions, inbox>>
    BY DEF FinishPoll, serverVars, socketVars
  <1>3. /\ \A i \in DOMAIN read.entries : read.entries[i] \in Held(i)
        /\ DOMAIN read.entries \subseteq Actions \cup Ulds
    <2>1. read \in Poll /\ read.sent
      BY DEF FinishPoll, Types, PollTypes
    <2>2. QED
      BY <2>1 DEF Poll, HoldsListed, Unread, Answer
  <1>4. DOMAIN server = Actions \cup Ulds /\ marked \subseteq Tasks
    BY DEF Types, ServerTypes, ScreenTypes
  <1>5. \A i : (Emitting(i)' <=> Emitting(i)) /\ (Waiting(i)' <=> Waiting(i))
    BY <1>2 DEF Emitting, Waiting
  <1> HIDE DEF read
  <1>6. ASSUME NEW i \in Ids, listOf(i) \in synced' PROVE LastWord(i)'
    <2>1. CASE listOf(i) \in synced \ answered
      <3>1. LastWord(i)
        BY <2>1 DEF SyncInv
      <3>2. screen'[i] = screen[i]
        BY <1>1, <2>1
      <3>3. i \notin marked' => i \notin marked
        BY <1>1, <1>4, <2>1 DEF listOf
      <3>4. QED
        BY <1>2, <1>5, <3>1, <3>2, <3>3 DEF LastWord, Shown
    <2>2. CASE listOf(i) \in answered /\ Fresh(listOf(i), read)
      <3>1. i \in DOMAIN server =>
                IF i \in DOMAIN read.entries THEN server[i] = read.entries[i]
                ELSE server[i] \in {"none", "VERIFIED"}
        BY <2>2 DEF Fresh
      <3>2. \A e \in BagToSet(emissions) \cup Range(inbox) : e.id = i => e.status = server[i]
        <4>1. BagToSet(emissions) \subseteq Entry /\ Range(inbox) \subseteq Entry
          BY DEF Types, ServerTypes, LinkTypes, Range
        <4>2. \A e \in BagToSet(emissions) \cup Range(inbox) : e.id = i => i \in DOMAIN server
          BY <1>4, <4>1, EntryIds, IdsAreApart
        <4>3. QED
          BY <2>2, <4>2 DEF Fresh
      <3>3. \A k \in 1 .. Len(inbox) : inbox[k].id = i => inbox[k].status = server[i]
        BY <3>2 DEF Range, Types, LinkTypes
      <3>4. Shown(i)'
        <4>1. CASE i \in DOMAIN read.entries
          <5>1. i \in DOMAIN server /\ server[i] = read.entries[i] /\ server[i] # "none"
            BY <1>3, <1>4, <3>1, <4>1, LevelsAreNoStatuses DEF Held
          <5>2. CASE i \in Actions
            BY <1>1, <1>2, <2>2, <4>1, <5>1, <5>2 DEF Shown
          <5>3. CASE i \in Ulds
            BY <1>1, <1>2, <2>2, <4>1, <5>1, <5>3, IdsAreApart DEF Shown, mapFleetToUld
          <5>4. QED
            BY <1>4, <5>1, <5>2, <5>3
        <4>2. CASE i \notin DOMAIN read.entries
          BY <1>1, <1>2, <2>2, <3>1, <4>2 DEF Shown
        <4>3. QED
          BY <4>1, <4>2
      <3>5. QED
        BY <1>2, <3>2, <3>3, <3>4 DEF LastWord
    <2>3. QED
      BY <1>1, <1>6, <2>1, <2>2
  <1>7. ASSUME "alerts" \in synced' PROVE AlertsArrive'
    <2>1. CASE "alerts" \notin answered
      BY <1>1, <1>2, <1>5, <1>7, <2>1 DEF SyncInv, AlertsArrive
    <2>2. CASE "alerts" \in answered
      BY <1>1, <1>2, <1>7, <2>2 DEF Fresh, AlertsArrive
    <2>3. QED
      BY <2>1, <2>2
  <1>8. QED
    BY <1>6, <1>7 DEF SyncInv

LEMMA DisconnectSync ==
    ASSUME Types, SyncInv, Disconnect
    PROVE  SyncInv'
  <1>1. /\ inbox' = <<>> /\ UNCHANGED <<server, history, emissions, screen, alerts, marked>>
        /\ synced' = synced \ {listOf(entry.id) : entry \in Range(inbox)}
    BY DEF Disconnect, serverVars, screenVars
  <1>2. \A i : Emitting(i)' <=> Emitting(i)
    BY <1>1 DEF Emitting
  <1>3. \A i : Waiting(i) => listOf(i) \notin synced'
    BY <1>1 DEF Waiting, Range, Types, LinkTypes
  <1>4. Len(inbox') = 0
    BY <1>1
  <1>5. ASSUME NEW i \in Ids, listOf(i) \in synced' PROVE LastWord(i)'
    BY <1>1, <1>2, <1>3, <1>4, <1>5 DEF SyncInv, LastWord, Shown
  <1>6. ASSUME "alerts" \in synced' PROVE AlertsArrive'
    <2>1. Range(history) \subseteq Alerts
      BY DEF Types, ServerTypes, Range
    <2>2. \A x \in Range(history) : ~Waiting(x)
      BY <1>3, <1>6, <2>1, ListOfIds
    <2>3. QED
      BY <1>1, <1>2, <1>6, <2>2 DEF SyncInv, AlertsArrive
  <1>7. QED
    BY <1>5, <1>6 DEF SyncInv

LEMMA MarkSync ==
    ASSUME Types, SyncInv, NEW i \in Tasks, markTaskCompleted(i)
    PROVE  SyncInv'
  <1>1. /\ UNCHANGED <<server, history, emissions, inbox, alerts, synced>>
        /\ screen' = [screen EXCEPT ![i] = "Completed"] /\ marked' = marked \cup {i}
    BY DEF markTaskCompleted, serverVars, socketVars
  <1>2. screen = [j \in Ids |-> screen[j]]
    BY DEF Types, ScreenTypes
  <1>3. \A j : (Emitting(j)' <=> Emitting(j)) /\ (Waiting(j)' <=> Waiting(j))
    BY <1>1 DEF Emitting, Waiting
  <1>4. ASSUME NEW j \in Ids, listOf(j) \in synced' PROVE LastWord(j)'
    BY <1>1, <1>2, <1>3, <1>4 DEF SyncInv, LastWord, Shown
  <1>5. "alerts" \in synced' => AlertsArrive'
    BY <1>1, <1>3 DEF SyncInv, AlertsArrive
  <1>6. QED
    BY <1>4, <1>5 DEF SyncInv

LEMMA SyncStep == Types /\ SyncInv /\ [Next]_vars => SyncInv'
  <1> SUFFICES ASSUME Types, SyncInv, [Next]_vars PROVE SyncInv'
    OBVIOUS
  <1>1. CASE \/ StartPoll \/ Connect \/ ConnectError \/ GoOffline \/ GoOnline \/ FinishFlush
             \/ \E p \in DOMAIN polls : ReadLists(p) \/ FailPoll(p)
    <2>1. UNCHANGED <<server, history, emissions, inbox, screen, alerts, marked, synced>>
      BY <1>1 DEF StartPoll, Connect, ConnectError, GoOffline, GoOnline, FinishFlush, ReadLists,
                  FailPoll, serverVars, socketVars, screenVars, ghostVars
    <2>2. QED
      BY <2>1, SyncFrame
  <1>2. CASE Reload
    BY <1>2 DEF Reload, Load, SyncInv
  <1>3. CASE UNCHANGED vars
    <2>1. UNCHANGED <<server, history, emissions, inbox, screen, alerts, marked, synced>>
      BY <1>3 DEF vars, serverVars, socketVars, screenVars, ghostVars
    <2>2. QED
      BY <2>1, SyncFrame
  <1>4. QED
    BY <1>1, <1>2, <1>3, ServerStepSync, EmissionSync, HandleEntrySync, HandleAlertSync,
       FinishPollSync, DisconnectSync, MarkSync
    DEF Next

\* Since a fresh answer, a list of which no entry was missed or overtaken is the
\* server's once nothing is under way: for any number of entries, polls, flushes
\* and reloads, any order of emissions, and alerts beyond the limit.
THEOREM SyncSafety == Spec => []SyncedShowsServer
  <1>1. Types /\ SyncInv => SyncedShowsServer
    <2> SUFFICES ASSUME Types, SyncInv, emissions = EmptyBag, inbox = <<>>
                 PROVE  /\ \A i \in Ids \ marked : listOf(i) \in synced => Shown(i)
                        /\ "alerts" \in synced =>
                              Range(history) \subseteq Range(alerts) \/ Len(alerts) >= AlertLimit
      BY DEF SyncedShowsServer, Shown
    <2>1. \A i : ~Emitting(i) /\ ~Waiting(i)
      BY DEF Emitting, Waiting, EmptyBag, SetToBag, BagToSet
    <2>2. QED
      BY <2>1 DEF SyncInv, LastWord, AlertsArrive
  <1>2. QED
    BY <1>1, TypesInit, TypesStep, SyncInit, SyncStep, PTL DEF Spec
=============================================================================
