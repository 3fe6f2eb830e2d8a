---------------------------- MODULE ActionProofs ----------------------------
(***************************************************************************)
(* Theorems about ActionLedger: type correctness, that actions and         *)
(* workflows are opened once but for overlapping requests, that an         *)
(* answered response left its package open, and that progress is audited   *)
(* and kept, for any targets, packages, requests and failures.             *)
(***************************************************************************)
EXTENDS ActionLedger, SequenceTheorems, TLAPS

-----------------------------------------------------------------------------
(***************************************************************************)
(* The inductive invariants.                                               *)
(***************************************************************************)
\* The stages of a response that has read the open actions, and those of an
\* operator's request that has read its action.
Creating == {"push", "index", "log", "openWorkflow", "logWorkflow"}
Opening == Creating \cup {"getWorkflows"}
Changing == {"getAction", "set", "logSet", "attach"}

\* What a request holds belongs to its package and its stage.
HoldsItsOwn(r) ==
    /\ body[r] \in Body[r]
    /\ pc[r] \in Opening => body[r].kind = "orchestrate"
    /\ pc[r] \in Changing => body[r].kind # "orchestrate"
    /\ pc[r] \in {"idle", "getActions", "getWorkflows"} =>
           held[r].todo = {} /\ held[r].todoWorkflows = {}
    /\ held[r].todo \subseteq DOMAIN body[r].actions
    /\ held[r].todoWorkflows \subseteq DOMAIN body[r].workflows
    /\ pc[r] \in {"openWorkflow", "logWorkflow"} => held[r].todo = {}
    /\ pc[r] = "answered" /\ body[r].kind = "orchestrate" =>
           held[r].todo = {} /\ held[r].todoWorkflows = {}
    /\ \A w \in held[r].writes : w.entry.status # "UNINDEXED"
    /\ pc[r] = "index" => \A w \in held[r].writes : w.entry = NewEntry
    /\ pc[r] \in {"set", "logSet"} /\ body[r].kind \in {"ack", "complete"} =>
           \A v, w \in held[r].writes : v = w

HoldsInv == \A r \in Requests : HoldsItsOwn(r)

\* Two requests in flight overlap.
OverlapInv == \A q, r \in InFlight : q # r => <<q, r>> \in overlap

\* An action, or a workflow, is of the package of the request that made it,
\* which no longer has it to do.
ActionsMade ==
    \A a \in DOMAIN actions :
        LET r == actions[a].by IN
        /\ pc[r] \notin {"idle", "getActions", "getWorkflows"}
        /\ \E i \in DOMAIN body[r].actions :
              body[r].actions[i] = actions[a].name /\ i \notin held[r].todo

WorkflowsMade ==
    \A v \in DOMAIN workflows :
        LET r == workflows[v].by IN
        /\ pc[r] \notin {"idle", "getActions", "getWorkflows"}
        /\ \E i \in DOMAIN body[r].workflows :
              body[r].workflows[i] = workflows[v].name /\ i \notin held[r].todoWorkflows

\* What another request made that is not in flight with r, r has seen.
ActionsSeen ==
    \A r \in Requests : pc[r] \in Opening =>
        \A a \in DOMAIN actions :
            /\ actions[a].target = targetOf(r) /\ actions[a].by # r
            /\ <<actions[a].by, r>> \notin overlap
            => /\ pc[r] = "getWorkflows" => actions[a].name \in held[r].open
               /\ \A i \in held[r].todo : body[r].actions[i] # actions[a].name

WorkflowsSeen ==
    \A r \in Requests : pc[r] \in Opening =>
        \A v \in DOMAIN workflows :
            /\ workflows[v].target = targetOf(r) /\ workflows[v].by # r
            /\ <<workflows[v].by, r>> \notin overlap
            => \A i \in held[r].todoWorkflows : body[r].workflows[i] # workflows[v].name

\* A response has its package listed but for what it still has to do.
PackageInv ==
    \A r \in Requests :
        /\ pc[r] = "getWorkflows" => held[r].open \subseteq OpenNames(targetOf(r))
        /\ pc[r] \in Creating \cup {"answered"} /\ body[r].kind = "orchestrate" =>
           /\ \A i \in DOMAIN body[r].actions \ held[r].todo :
                 body[r].actions[i] \in OpenNames(targetOf(r))
           /\ \A i \in DOMAIN body[r].workflows \ held[r].todoWorkflows :
                 body[r].workflows[i] \in OpenWorkflows(targetOf(r))

\* An action misses in the index while its request is about to write it there.
IndexInv ==
    \A a \in DOMAIN actions :
        index[a] = Unindexed =>
            \/ pc[actions[a].by] = "aborted"
            \/ pc[actions[a].by] = "index" /\ \A w \in held[actions[a].by].writes : w.id = a

\* A change is logged, or is the one its request is about to log.
AuditInv ==
    \A p \in wrote :
        \/ p \in audit \/ pc[p[1]] = "aborted"
        \/ /\ pc[p[1]] = "logSet"
           /\ \A w \in held[p[1]].writes : Foremost(w, held[p[1]].writes) => w.id = p[2]

\* Progress was written by a request, and one that wrote to an action in the
\* making was in flight with its maker.
ProgressWritten ==
    /\ \A a \in DOMAIN actions :
          index[a] \in {Unindexed, NewEntry} \/ \E q \in Requests : <<q, a>> \in wrote
    /\ \A r \in Requests : pc[r] = "index" =>
          \A w \in held[r].writes : \A q \in Requests :
              <<q, w.id>> \in wrote => <<q, r>> \in overlap

\* A verified entry, written or about to be, is that of a completion.
Completing == {"complete", "done"}

CompletedInv ==
    /\ \A p \in wrote : pc[p[1]] \notin {"idle", "getActions", "getWorkflows"}
    /\ \A a \in DOMAIN actions :
          /\ index[a].status = "VERIFIED" => WasCompleted(a)
          /\ index[a].status = "UNINDEXED" => index[a] = Unindexed
    /\ \A r \in Requests : pc[r] \in {"set", "logSet"} =>
          \A w \in held[r].writes :
              w.entry.status = "VERIFIED" => body[r].kind \in Completing \/ WasCompleted(w.id)

\* What an operator is about to write takes no progress from an action, unless
\* another request wrote to it since it was read.
ReadsLast ==
    \A r \in Requests : pc[r] = "set" /\ body[r].kind \in {"ack", "complete"} =>
        \A w \in held[r].writes :
            \/ ~Less(index[w.id], w.entry)
            \/ \E q \in Requests : <<q, w.id>> \in wrote /\ <<q, r>> \in overlap

-----------------------------------------------------------------------------
(***************************************************************************)
(* Lemmas about entries, packages and the lists.                           *)
(***************************************************************************)
LEMMA NewEntryType ==
    /\ Unindexed \in Entry /\ NewEntry \in Entry
    /\ Unindexed.status = "UNINDEXED" /\ NewEntry.status = "ASSIGNED"
    /\ ~NewEntry.acknowledged /\ ~NewEntry.escalated
    /\ ~Unindexed.acknowledged /\ ~Unindexed.escalated
  BY DEF Unindexed, NewEntry, Entry

LEMMA EscalatedType ==
    ASSUME NEW e \in Entry
    PROVE  /\ Escalated(e) \in Entry /\ Escalated(e).status = e.status
           /\ Escalated(e).acknowledged = e.acknowledged /\ Escalated(e).escalated
  BY DEF Escalated, Entry

LEMMA CompletedType ==
    ASSUME NEW e \in Entry
    PROVE  /\ Completed(e) \in Entry /\ Completed(e).status = "VERIFIED"
           /\ Completed(e).acknowledged = e.acknowledged
           /\ Completed(e).escalated = e.escalated
  BY DEF Completed, Entry

LEMMA AcknowledgedType ==
    ASSUME NEW e \in Entry
    PROVE  /\ Acknowledged(e) \in Entry /\ Acknowledged(e).acknowledged
           /\ Acknowledged(e).status =
                  IF e.status = "VERIFIED" THEN "VERIFIED" ELSE "IN_PROGRESS"
           /\ Acknowledged(e).escalated = e.escalated
  BY DEF Acknowledged, Entry

\* An operator's change of the entry that was read takes no progress from it.
LEMMA ChangeKeeps ==
    ASSUME NEW e \in Entry
    PROVE  /\ ~Less(e, Acknowledged(e)) /\ ~Less(e, Completed(e)) /\ ~Less(e, e)
           /\ ~Less(Unindexed, NewEntry) /\ \A f \in Entry : ~Less(NewEntry, f)
  BY NewEntryType, AcknowledgedType, CompletedType DEF Less

LEMMA BodyTypes ==
    ASSUME NEW b \in RequestBody
    PROVE  /\ b.kind \in Kinds /\ b.target \in Targets
           /\ b.actions \in Seq(ActionNames) /\ b.workflows \in Seq(WorkflowNames)
           /\ DOMAIN b.actions \subseteq Nat /\ DOMAIN b.workflows \subseteq Nat
           /\ \A i \in DOMAIN b.actions : b.actions[i] \in ActionNames
           /\ \A i \in DOMAIN b.workflows : b.workflows[i] \in WorkflowNames
  BY DEF RequestBody

LEMMA HeldTypes ==
    ASSUME NEW ids, NEW h \in Held(ids)
    PROVE  /\ h.open \subseteq ActionNames /\ h.todo \subseteq Nat
           /\ h.todoWorkflows \subseteq Nat
           /\ \A w \in h.writes : w.id \in ids /\ w.entry \in Entry
  BY DEF Held

LEMMA NothingType ==
    /\ \A ids : Nothing \in Held(ids)
    /\ Nothing.open = {} /\ Nothing.todo = {} /\ Nothing.todoWorkflows = {}
    /\ Nothing.writes = {}
  BY DEF Nothing, Held

LEMMA HeldGrows ==
    ASSUME NEW small, NEW large, small \subseteq large
    PROVE  Held(small) \subseteq Held(large)
  BY DEF Held

LEMMA WriteType ==
    ASSUME NEW a, NEW e
    PROVE  /\ Write(a, e).id = a /\ Write(a, e).entry = e
           /\ \A ids : a \in ids /\ e \in Entry => Write(a, e) \in [id : ids, entry : Entry]
  BY DEF Write

\* Only one action is the foremost to be written.
LEMMA ForemostIsOne ==
    ASSUME NEW writes, \A w \in writes : w.id \in Nat,
           NEW v, NEW w, Foremost(v, writes), Foremost(w, writes)
    PROVE  v.id = w.id
  <1>1. v.id \in Nat /\ w.id \in Nat /\ v.id <= w.id /\ w.id <= v.id
    BY DEF Foremost
  <1>2. QED
    BY <1>1

\* The parts of TypeOK, and lists by their lengths.
Lists ==
    /\ actions \in Seq(Action) /\ workflows \in Seq(Workflow)
    /\ Len(actions) \in Nat /\ DOMAIN actions = 1 .. Len(actions)
    /\ Len(workflows) \in Nat /\ DOMAIN workflows = 1 .. Len(workflows)
    /\ index \in Seq(Entry) /\ Len(index) = Len(actions)
    /\ DOMAIN index = 1 .. Len(actions)
    /\ \A a \in DOMAIN actions :
          /\ actions[a].target \in Targets /\ actions[a].name \in ActionNames
          /\ actions[a].by \in Requests /\ index[a] \in Entry
    /\ \A v \in DOMAIN workflows :
          /\ workflows[v].target \in Targets /\ workflows[v].name \in WorkflowNames
          /\ workflows[v].by \in Requests

LEMMA ListTypes == ASSUME TypeOK PROVE Lists
  <1>1. /\ actions \in Seq(Action) /\ workflows \in Seq(Workflow)
        /\ Len(actions) \in Nat /\ DOMAIN actions = 1 .. Len(actions)
        /\ Len(workflows) \in Nat /\ DOMAIN workflows = 1 .. Len(workflows)
    <2>1. actions \in Seq(Action) /\ workflows \in Seq(Workflow)
      BY DEF TypeOK
    <2>2. QED
      BY <2>1
  <1>2. index \in [1 .. Len(actions) -> Entry]
    BY <1>1 DEF TypeOK
  <1>3. index \in Seq(Entry) /\ Len(index) = Len(actions) /\ DOMAIN index = 1 .. Len(actions)
    BY <1>1, <1>2
  <1>4. /\ \A a \in DOMAIN actions : actions[a] \in Action /\ index[a] \in Entry
        /\ \A v \in DOMAIN workflows : workflows[v] \in Workflow
    BY <1>1, <1>2
  <1>5. /\ \A a \in DOMAIN actions :
              /\ actions[a].target \in Targets /\ actions[a].name \in ActionNames
              /\ actions[a].by \in Requests
        /\ \A v \in DOMAIN workflows :
              /\ workflows[v].target \in Targets /\ workflows[v].name \in WorkflowNames
              /\ workflows[v].by \in Requests
    BY <1>4 DEF Action, Workflow
  <1>6. QED
    BY <1>1, <1>3, <1>4, <1>5 DEF Lists

-----------------------------------------------------------------------------
(***************************************************************************)
(* What each step does to its request, and that it leaves the others.      *)
(***************************************************************************)
Others(r) ==
    \A p \in Requests \ {r} : pc'[p] = pc[p] /\ body'[p] = body[p] /\ held'[p] = held[p]

\* Of what a request holds, one part is replaced, or two, or three.
LEMMA HeldChanges ==
    ASSUME NEW ids, NEW h \in Held(ids), NEW open \in SUBSET ActionNames,
           NEW todo \in SUBSET Nat, NEW flows \in SUBSET Nat,
           NEW writes \in SUBSET [id : ids, entry : Entry]
    PROVE  /\ [h EXCEPT !.open = open] \in Held(ids)
           /\ [h EXCEPT !.todo = todo, !.todoWorkflows = flows, !.open = {}] \in Held(ids)
           /\ [h EXCEPT !.todo = todo, !.writes = writes] \in Held(ids)
           /\ [h EXCEPT !.writes = writes] \in Held(ids)
           /\ [h EXCEPT !.todoWorkflows = flows] \in Held(ids)
  BY DEF Held

\* What TypeOK says of the requests.
Requested ==
    /\ pc \in [Requests -> Stages \cup {"idle", "answered", "aborted"}]
    /\ body \in [Requests -> RequestBody]
    /\ held \in [Requests -> Held(DOMAIN actions)]

LEMMA RequestTypes ==
    ASSUME TypeOK
    PROVE  /\ Requested
           /\ \A r \in Requests :
                 /\ held[r] \in Held(DOMAIN actions) /\ body[r] \in RequestBody
                 /\ targetOf(r) \in Targets
                 /\ DOMAIN body[r].actions \subseteq Nat
                 /\ DOMAIN body[r].workflows \subseteq Nat
                 /\ \A w \in held[r].writes : w.id \in DOMAIN actions /\ w.entry \in Entry
  <1>1. Requested
    BY DEF TypeOK, Requested
  <1>2. ASSUME NEW r \in Requests
        PROVE  held[r] \in Held(DOMAIN actions) /\ body[r] \in RequestBody
    BY <1>1 DEF Requested
  <1>3. QED
    BY <1>1, <1>2, HeldTypes, BodyTypes DEF targetOf

LEMMA BeginEffect ==
    ASSUME TypeOK, NEW r \in Requests, Begin(r)
    PROVE  /\ Others(r) /\ pc[r] = "idle" /\ pc'[r] \in {"getAction", "getActions"}
           /\ body'[r] \in Body[r] /\ held' = held
           /\ pc'[r] = "getAction" <=> body'[r].kind = "complete"
           /\ overlap' = overlap \cup ({r} \X InFlight) \cup (InFlight \X {r})
           /\ UNCHANGED <<parses, actions, index, workflows, audit, failures, wrote>>
           /\ Requested'
  <1>1. Requested
    BY RequestTypes
  <1>2. PICK b \in Body[r] :
           /\ body' = [body EXCEPT ![r] = b]
           /\ pc' = [pc EXCEPT ![r] = IF b.kind = "complete" THEN "getAction" ELSE "getActions"]
    BY DEF Begin
  <1>3. b \in RequestBody
    BY RequestsAssumption
  <1>4. /\ UNCHANGED <<parses, actions, index, workflows, audit, failures, wrote, held>>
        /\ overlap' = overlap \cup ({r} \X InFlight) \cup (InFlight \X {r})
        /\ pc[r] = "idle"
    BY DEF Begin, redisVars
  <1>5. QED
    BY <1>1, <1>2, <1>3, <1>4 DEF Others, Requested, Stages

LEMMA OpenEffect ==
    ASSUME TypeOK, NEW r \in Requests, GetOpenActions(r)
    PROVE  /\ Others(r) /\ pc[r] = "getActions" /\ pc'[r] = "getWorkflows"
           /\ body[r].kind = "orchestrate"
           /\ held'[r].open = OpenNames(targetOf(r)) /\ held'[r].todo = held[r].todo
           /\ held'[r].todoWorkflows = held[r].todoWorkflows
           /\ held'[r].writes = held[r].writes
           /\ UNCHANGED <<parses, body, actions, index, workflows, audit, failures, wrote, overlap>>
           /\ Requested'
  <1>1. Requested /\ Lists /\ held[r] \in Held(DOMAIN actions)
    BY RequestTypes, ListTypes
  <1>2. OpenNames(targetOf(r)) \subseteq ActionNames
    BY <1>1 DEF OpenNames, Listed, Lists
  <1>3. /\ held' = [held EXCEPT ![r] = [held[r] EXCEPT !.open = OpenNames(targetOf(r))]]
        /\ pc' = [pc EXCEPT ![r] = "getWorkflows"] /\ pc[r] = "getActions"
        /\ body[r].kind = "orchestrate"
        /\ UNCHANGED <<parses, body, actions, index, workflows, audit, failures, wrote, overlap>>
    BY DEF GetOpenActions, GoTo, redisVars, ghostVars
  <1>4. [held[r] EXCEPT !.open = OpenNames(targetOf(r))] \in Held(DOMAIN actions)
    BY <1>1, <1>2, HeldChanges
  <1>5. Requested'
    BY <1>1, <1>3, <1>4 DEF Requested, Stages
  <1>6. QED
    BY <1>1, <1>3, <1>5 DEF Requested, Others, Held

LEMMA ChooseEffect ==
    ASSUME TypeOK, NEW r \in Requests, GetOpenWorkflows(r)
    PROVE  /\ Others(r) /\ pc[r] = "getWorkflows"
           /\ pc'[r] = NextStage(Missing(r), MissingWorkflows(r))
           /\ held'[r].open = {} /\ held'[r].todo = Missing(r)
           /\ held'[r].todoWorkflows = MissingWorkflows(r)
           /\ held'[r].writes = held[r].writes
           /\ UNCHANGED <<parses, body, actions, index, workflows, audit, failures, wrote, overlap>>
           /\ Requested'
  <1>1. Requested /\ held[r] \in Held(DOMAIN actions)
    BY RequestTypes
  <1>2. Missing(r) \subseteq Nat /\ MissingWorkflows(r) \subseteq Nat
    BY RequestTypes DEF Missing, MissingWorkflows
  <1>3. /\ held' = [held EXCEPT ![r] = [held[r] EXCEPT !.todo = Missing(r),
                        !.todoWorkflows = MissingWorkflows(r), !.open = {}]]
        /\ pc' = [pc EXCEPT ![r] = NextStage(Missing(r), MissingWorkflows(r))]
        /\ pc[r] = "getWorkflows"
        /\ UNCHANGED <<parses, body, actions, index, workflows, audit, failures, wrote, overlap>>
    BY DEF GetOpenWorkflows, GoTo, redisVars, ghostVars
  <1>4. [held[r] EXCEPT !.todo = Missing(r), !.todoWorkflows = MissingWorkflows(r), !.open = {}]
            \in Held(DOMAIN actions)
    BY <1>1, <1>2, HeldChanges
  <1>5. NextStage(Missing(r), MissingWorkflows(r)) \in {"push", "openWorkflow", "answered"}
    BY DEF NextStage
  <1>6. Requested'
    BY <1>1, <1>3, <1>4, <1>5 DEF Requested, Stages
  <1>7. QED
    BY <1>1, <1>3, <1>6 DEF Requested, Others, Held

\* A list that grows by one entry.
LEMMA ActionAppended ==
    ASSUME Lists, NEW a \in Action, actions' = Append(actions, a),
           index' = Append(index, Unindexed)
    PROVE  /\ actions' \in Seq(Action) /\ index' \in [DOMAIN actions' -> Entry]
           /\ DOMAIN actions' = DOMAIN actions \cup {Len(actions) + 1}
           /\ Len(actions) + 1 \notin DOMAIN actions /\ Len(actions) + 1 \in Nat
           /\ \A i \in DOMAIN actions : /\ actions'[i] = actions[i] /\ index'[i] = index[i]
                                        /\ i < Len(actions) + 1
           /\ actions'[Len(actions) + 1] = a /\ index'[Len(actions) + 1] = Unindexed
  <1>1. /\ actions \in Seq(Action) /\ Len(actions) \in Nat /\ DOMAIN actions = 1 .. Len(actions)
        /\ index \in Seq(Entry) /\ Len(index) = Len(actions) /\ Unindexed \in Entry
    BY NewEntryType DEF Lists
  <1>2. /\ actions' \in Seq(Action) /\ DOMAIN actions' = 1 .. Len(actions) + 1
        /\ \A i \in 1 .. Len(actions) : actions'[i] = actions[i]
        /\ actions'[Len(actions) + 1] = a
    BY <1>1
  <1>3. /\ index' \in [1 .. Len(actions) + 1 -> Entry]
        /\ \A i \in 1 .. Len(actions) : index'[i] = index[i]
        /\ index'[Len(actions) + 1] = Unindexed
    <2>1. index' \in Seq(Entry) /\ Len(index') = Len(actions) + 1
      BY <1>1
    <2>3. index' \in [1 .. Len(actions) + 1 -> Entry]
      BY <2>1, LenProperties
    <2>4. \A i \in 1 .. Len(actions) : index'[i] = index[i]
      BY <1>1
    <2>5. index'[Len(actions) + 1] = Unindexed
      BY <1>1
    <2>6. QED
      BY <2>3, <2>4, <2>5
  <1>4. QED
    BY <1>1, <1>2, <1>3

LEMMA WorkflowAppended ==
    ASSUME Lists, NEW v \in Workflow, workflows' = Append(workflows, v)
    PROVE  /\ workflows' \in Seq(Workflow)
           /\ DOMAIN workflows' = DOMAIN workflows \cup {Len(workflows) + 1}
           /\ Len(workflows) + 1 \notin DOMAIN workflows /\ Len(workflows) + 1 \in Nat
           /\ \A i \in DOMAIN workflows : /\ workflows'[i] = workflows[i]
                                          /\ i < Len(workflows) + 1
           /\ workflows'[Len(workflows) + 1] = v
  <1>1. /\ workflows \in Seq(Workflow) /\ Len(workflows) \in Nat
        /\ DOMAIN workflows = 1 .. Len(workflows)
    BY DEF Lists
  <1>2. QED
    BY <1>1

LEMMA AppendEffect ==
    ASSUME TypeOK, HoldsInv, NEW r \in Requests, AppendAction(r)
    PROVE  \E i \in held[r].todo :
           LET new == [target |-> targetOf(r), name |-> body[r].actions[i], by |-> r]
               id == Len(actions) + 1
           IN
           /\ i \in DOMAIN body[r].actions /\ new \in Action
           /\ Others(r) /\ pc[r] = "push" /\ pc'[r] = "index"
           /\ held'[r].open = held[r].open /\ held'[r].todo = held[r].todo \ {i}
           /\ held'[r].todoWorkflows = held[r].todoWorkflows
           /\ held'[r].writes = {Write(id, NewEntry)}
           /\ actions' = Append(actions, new) /\ index' = Append(index, Unindexed)
           /\ UNCHANGED <<parses, body, workflows, audit, failures, wrote, overlap>>
           /\ Requested'
  <1>1. Requested /\ Lists /\ held[r] \in Held(DOMAIN actions) /\ body[r] \in RequestBody
        /\ targetOf(r) \in Targets
    BY RequestTypes, ListTypes
  <1> DEFINE id == Len(actions) + 1
             after(i) == [held[r] EXCEPT !.todo = held[r].todo \ {i},
                                         !.writes = {Write(id, NewEntry)}]
  <1>2. PICK i \in held[r].todo :
           /\ actions' = Append(actions, [target |-> targetOf(r), name |-> body[r].actions[i],
                                          by |-> r])
           /\ held' = [held EXCEPT ![r] = after(i)]
    BY DEF AppendAction
  <1>3. /\ pc' = [pc EXCEPT ![r] = "index"] /\ pc[r] = "push"
        /\ index' = Append(index, Unindexed)
        /\ UNCHANGED <<parses, body, workflows, audit, failures, wrote, overlap>>
    BY DEF AppendAction, GoTo, ghostVars
  <1>4. i \in DOMAIN body[r].actions /\ body[r].actions[i] \in ActionNames
    BY <1>1, BodyTypes DEF HoldsInv, HoldsItsOwn
  <1> DEFINE new == [target |-> targetOf(r), name |-> body[r].actions[i], by |-> r]
  <1>5. new \in Action
    BY <1>1, <1>4 DEF Action
  <1> HIDE DEF new
  <1>6. DOMAIN actions \subseteq DOMAIN actions' /\ id \in DOMAIN actions'
    BY <1>1, <1>2, <1>3, <1>5, ActionAppended DEF new
  <1>7. held \in [Requests -> Held(DOMAIN actions')]
    <2>1. Held(DOMAIN actions) \subseteq Held(DOMAIN actions')
      BY <1>6, HeldGrows
    <2>2. QED
      BY <1>1, <2>1 DEF Requested
  <1>8. held[r] \in Held(DOMAIN actions')
    BY <1>7
  <1>9. /\ held[r].todo \ {i} \subseteq Nat
        /\ {Write(id, NewEntry)} \subseteq [id : DOMAIN actions', entry : Entry]
    BY <1>6, <1>8, HeldTypes, WriteType, NewEntryType
  <1>10. after(i) \in Held(DOMAIN actions')
    BY <1>8, <1>9, HeldChanges
  <1>11. /\ after(i).open = held[r].open /\ after(i).todo = held[r].todo \ {i}
         /\ after(i).todoWorkflows = held[r].todoWorkflows
         /\ after(i).writes = {Write(id, NewEntry)}
    BY <1>8 DEF Held
  <1> HIDE DEF after, id
  <1>12. Requested' /\ Others(r) /\ held'[r] = after(i) /\ pc'[r] = "index"
    BY <1>1, <1>2, <1>3, <1>7, <1>10 DEF Requested, Others, Stages
  <1>13. QED
    BY <1>2, <1>3, <1>4, <1>5, <1>11, <1>12 DEF new, id

LEMMA IndexSet ==
    ASSUME Lists, NEW a \in DOMAIN actions, NEW e \in Entry, index' = [index EXCEPT ![a] = e]
    PROVE  /\ index' \in [DOMAIN actions -> Entry] /\ index'[a] = e
           /\ \A b \in DOMAIN actions : b # a => index'[b] = index[b]
  BY DEF Lists

LEMMA SetEffect ==
    ASSUME TypeOK, HoldsInv, NEW r \in Requests, SetAction(r)
    PROVE  \E w \in held[r].writes :
           /\ w.id \in DOMAIN actions
           /\ Others(r) /\ pc[r] = "index" /\ pc'[r] = "log" /\ index'[w.id] = NewEntry
           /\ \A b \in DOMAIN actions : b # w.id => index'[b] = index[b]
           /\ index' \in [DOMAIN actions -> Entry]
           /\ UNCHANGED <<parses, body, held, actions, workflows, audit, failures, wrote, overlap>>
           /\ Requested'
  <1>1. Requested /\ Lists
    BY RequestTypes, ListTypes
  <1>2. PICK w \in held[r].writes : index' = [index EXCEPT ![w.id] = w.entry]
    BY DEF SetAction
  <1>3. /\ pc' = [pc EXCEPT ![r] = "log"] /\ pc[r] = "index"
        /\ UNCHANGED <<parses, body, held, actions, workflows, audit, failures, wrote, overlap>>
    BY DEF SetAction, GoTo, ghostVars
  <1>4. w.id \in DOMAIN actions /\ w.entry \in Entry /\ w.entry = NewEntry
    BY <1>3, RequestTypes DEF HoldsInv, HoldsItsOwn
  <1>5. /\ index' \in [DOMAIN actions -> Entry] /\ index'[w.id] = NewEntry
        /\ \A b \in DOMAIN actions : b # w.id => index'[b] = index[b]
    BY <1>1, <1>2, <1>4, IndexSet
  <1>6. Requested' /\ Others(r) /\ pc'[r] = "log"
    BY <1>1, <1>3 DEF Requested, Others, Stages
  <1>7. QED
    BY <1>3, <1>4, <1>5, <1>6

\* The writes of a request are replaced.
LEMMA WritesReplaced ==
    ASSUME TypeOK, NEW r \in Requests, NEW writes \in SUBSET [id : DOMAIN actions, entry : Entry],
           held' = [held EXCEPT ![r] = [held[r] EXCEPT !.writes = writes]], UNCHANGED actions
    PROVE  /\ held' \in [Requests -> Held(DOMAIN actions')]
           /\ held'[r].open = held[r].open /\ held'[r].todo = held[r].todo
           /\ held'[r].todoWorkflows = held[r].todoWorkflows /\ held'[r].writes = writes
           /\ \A p \in Requests \ {r} : held'[p] = held[p]
  <1>1. held \in [Requests -> Held(DOMAIN actions)] /\ held[r] \in Held(DOMAIN actions)
    BY RequestTypes DEF Requested
  <1>2. [held[r] EXCEPT !.writes = writes] \in Held(DOMAIN actions)
    BY <1>1, HeldChanges
  <1>3. LET after == [held[r] EXCEPT !.writes = writes] IN
        /\ after.open = held[r].open /\ after.todo = held[r].todo
        /\ after.todoWorkflows = held[r].todoWorkflows /\ after.writes = writes
    BY <1>1 DEF Held
  <1>4. QED
    BY <1>1, <1>2, <1>3

LEMMA LogEffect ==
    ASSUME TypeOK, NEW r \in Requests, LogAction(r)
    PROVE  \E w \in held[r].writes :
           /\ w.id \in DOMAIN actions
           /\ Others(r) /\ pc[r] = "log"
           /\ pc'[r] = NextStage(held[r].todo, held[r].todoWorkflows)
           /\ held'[r].open = held[r].open /\ held'[r].todo = held[r].todo
           /\ held'[r].todoWorkflows = held[r].todoWorkflows /\ held'[r].writes = {}
           /\ audit' = audit \cup {<<r, w.id>>}
           /\ UNCHANGED <<parses, body, actions, index, workflows, failures, wrote, overlap>>
           /\ Requested'
  <1>1. Requested
    BY RequestTypes
  <1>2. PICK w \in held[r].writes : audit' = audit \cup {<<r, w.id>>}
    BY DEF LogAction
  <1>3. /\ pc' = [pc EXCEPT ![r] = NextStage(held[r].todo, held[r].todoWorkflows)]
        /\ pc[r] = "log" /\ held' = [held EXCEPT ![r] = [held[r] EXCEPT !.writes = {}]]
        /\ UNCHANGED <<parses, body, actions, index, workflows, failures, wrote, overlap>>
    BY DEF LogAction, GoTo, redisVars, ghostVars
  <1>4. NextStage(held[r].todo, held[r].todoWorkflows) \in {"push", "openWorkflow", "answered"}
    BY DEF NextStage
  <1>5. /\ held' \in [Requests -> Held(DOMAIN actions')]
        /\ held'[r].open = held[r].open /\ held'[r].todo = held[r].todo
        /\ held'[r].todoWorkflows = held[r].todoWorkflows /\ held'[r].writes = {}
        /\ \A p \in Requests \ {r} : held'[p] = held[p]
    <2>1. {} \in SUBSET [id : DOMAIN actions, entry : Entry]
      OBVIOUS
    <2> DEFINE none == {}
    <2>2. none \in SUBSET [id : DOMAIN actions, entry : Entry]
      BY <2>1
    <2>3. held' = [held EXCEPT ![r] = [held[r] EXCEPT !.writes = none]]
      BY <1>3
    <2> HIDE DEF none
    <2>4. /\ held' \in [Requests -> Held(DOMAIN actions')]
          /\ held'[r].open = held[r].open /\ held'[r].todo = held[r].todo
          /\ held'[r].todoWorkflows = held[r].todoWorkflows /\ held'[r].writes = none
          /\ \A p \in Requests \ {r} : held'[p] = held[p]
      BY <1>3, <2>2, <2>3, WritesReplaced
    <2>5. QED
      BY <2>4 DEF none
  <1>6. Requested' /\ Others(r) /\ pc'[r] = NextStage(held[r].todo, held[r].todoWorkflows)
    BY <1>1, <1>3, <1>4, <1>5 DEF Requested, Others, Stages
  <1>7. w.id \in DOMAIN actions
    BY RequestTypes
  <1>8. QED
    BY <1>2, <1>3, <1>5, <1>6, <1>7

LEMMA WorkflowEffect ==
    ASSUME TypeOK, HoldsInv, NEW r \in Requests, AppendWorkflow(r)
    PROVE  \E i \in held[r].todoWorkflows :
           LET new == [target |-> targetOf(r), name |-> body[r].workflows[i], by |-> r] IN
           /\ i \in DOMAIN body[r].workflows /\ new \in Workflow
           /\ Others(r) /\ pc[r] = "openWorkflow" /\ pc'[r] = "logWorkflow"
           /\ held'[r].open = held[r].open /\ held'[r].todo = held[r].todo
           /\ held'[r].todoWorkflows = held[r].todoWorkflows \ {i}
           /\ held'[r].writes = held[r].writes
           /\ workflows' = Append(workflows, new)
           /\ UNCHANGED <<parses, body, actions, index, audit, failures, wrote, overlap>>
           /\ Requested'
  <1>1. Requested /\ held[r] \in Held(DOMAIN actions) /\ body[r] \in RequestBody
        /\ targetOf(r) \in Targets
    BY RequestTypes
  <1>2. PICK i \in held[r].todoWorkflows :
           /\ workflows' = Append(workflows, [target |-> targetOf(r),
                                              name |-> body[r].workflows[i], by |-> r])
           /\ held' = [held EXCEPT ![r] =
                 [held[r] EXCEPT !.todoWorkflows = held[r].todoWorkflows \ {i}]]
    BY DEF AppendWorkflow
  <1>3. /\ pc' = [pc EXCEPT ![r] = "logWorkflow"] /\ pc[r] = "openWorkflow"
        /\ UNCHANGED <<parses, body, actions, index, audit, failures, wrote, overlap>>
    BY DEF AppendWorkflow, GoTo, ghostVars
  <1>4. i \in DOMAIN body[r].workflows /\ body[r].workflows[i] \in WorkflowNames
    BY <1>1, BodyTypes DEF HoldsInv, HoldsItsOwn
  <1>5. [target |-> targetOf(r), name |-> body[r].workflows[i], by |-> r] \in Workflow
    BY <1>1, <1>4 DEF Workflow
  <1> DEFINE after == [held[r] EXCEPT !.todoWorkflows = held[r].todoWorkflows \ {i}]
  <1>6. after \in Held(DOMAIN actions)
    BY <1>1, HeldTypes, HeldChanges
  <1>7. /\ after.open = held[r].open /\ after.todo = held[r].todo
        /\ after.todoWorkflows = held[r].todoWorkflows \ {i} /\ after.writes = held[r].writes
    BY <1>1 DEF Held
  <1>8. held' = [held EXCEPT ![r] = after]
    BY <1>2
  <1> HIDE DEF after
  <1>9. Requested' /\ Others(r) /\ pc'[r] = "logWorkflow" /\ held'[r] = after
    BY <1>1, <1>3, <1>6, <1>8 DEF Requested, Others, Stages
  <1>10. QED
    BY <1>2, <1>3, <1>4, <1>5, <1>7, <1>9

LEMMA LogWorkflowEffect ==
    ASSUME TypeOK, NEW r \in Requests, LogWorkflow(r)
    PROVE  /\ Others(r) /\ pc[r] = "logWorkflow"
           /\ pc'[r] = NextStage({}, held[r].todoWorkflows)
           /\ UNCHANGED <<parses, body, held, actions, index, workflows, audit, failures,
                          wrote, overlap>>
           /\ Requested'
  <1>1. NextStage({}, held[r].todoWorkflows) \in {"openWorkflow", "answered"}
    BY DEF NextStage
  <1>2. Requested
    BY RequestTypes
  <1>3. /\ pc' = [pc EXCEPT ![r] = NextStage({}, held[r].todoWorkflows)]
        /\ pc[r] = "logWorkflow"
        /\ UNCHANGED <<parses, body, held, actions, index, workflows, audit, failures,
                       wrote, overlap>>
    BY DEF LogWorkflow, GoTo, redisVars, ghostVars
  <1>4. QED
    BY <1>1, <1>2, <1>3 DEF Requested, Others, Stages

LEMMA AfterWritesStage ==
    ASSUME NEW r \in Requests, NEW writes
    PROVE  /\ writes # {} => AfterWrites(r, writes) = "set"
           /\ writes = {} => AfterWrites(r, writes)
                                = IF body[r].kind = "complete" THEN "answered" ELSE "attach"
  BY DEF AfterWrites

\* A command holds what it is going to write, and its kind decides what.
LEMMA CommandEffect ==
    ASSUME TypeOK, NEW r \in Requests, GetActions(r)
    PROVE  /\ Others(r) /\ pc[r] = "getActions" /\ pc'[r] \in {"getAction", "set", "attach"}
           /\ body[r].kind \in Commands /\ parses
           /\ pc'[r] = "set" => body[r].kind # "ack"
           /\ held'[r].open = held[r].open /\ held'[r].todo = held[r].todo
           /\ held'[r].todoWorkflows = held[r].todoWorkflows
           /\ \A w \in held'[r].writes :
                 /\ w.entry.status # "UNINDEXED"
                 /\ w.entry.status = "VERIFIED" => body[r].kind = "done"
           /\ UNCHANGED <<parses, body, actions, index, workflows, audit, failures, wrote, overlap>>
           /\ Requested'
  <1> DEFINE kind == body[r].kind
             listed == Listed(targetOf(r))
             chosen == IF kind = "escalate" THEN listed ELSE Newest(listed)
             written == IF kind = "escalate" THEN Escalated(NewEntry)
                        ELSE IF kind = "done" THEN Completed(NewEntry) ELSE NewEntry
             writes == {Write(a, written) : a \in chosen}
  <1>1. Requested
    BY RequestTypes
  <1>2. /\ kind \in Commands /\ parses /\ pc[r] = "getActions"
        /\ pc' = [pc EXCEPT ![r] = IF kind = "ack" /\ writes # {} THEN "getAction"
                                   ELSE AfterWrites(r, writes)]
        /\ held' = [held EXCEPT ![r] = [held[r] EXCEPT !.writes = writes]]
        /\ UNCHANGED <<parses, body, actions, index, workflows, audit, failures, wrote, overlap>>
    BY DEF GetActions, GoTo, redisVars, ghostVars
  <1>3. /\ written \in Entry /\ written.status # "UNINDEXED"
        /\ written.status = "VERIFIED" => kind = "done"
    BY NewEntryType, EscalatedType, CompletedType
  <1>4. chosen \subseteq DOMAIN actions
    BY DEF Newest, Listed
  <1> HIDE DEF written, chosen
  <1>5. /\ writes \subseteq [id : DOMAIN actions, entry : Entry]
        /\ \A w \in writes : w.entry.status # "UNINDEXED" /\ w.entry = written
    BY <1>3, <1>4, WriteType
  <1> HIDE DEF writes
  <1>6. /\ held' \in [Requests -> Held(DOMAIN actions')]
        /\ held'[r].open = held[r].open /\ held'[r].todo = held[r].todo
        /\ held'[r].todoWorkflows = held[r].todoWorkflows /\ held'[r].writes = writes
        /\ \A p \in Requests \ {r} : held'[p] = held[p]
    BY <1>2, <1>5, WritesReplaced
  <1>7. /\ AfterWrites(r, writes) \in {"set", "attach"}
        /\ AfterWrites(r, writes) = "set" => writes # {}
    BY <1>2, AfterWritesStage DEF Commands
  <1>8. /\ Requested' /\ Others(r) /\ pc'[r] \in {"getAction", "set", "attach"}
        /\ pc'[r] = "set" => kind # "ack"
    BY <1>1, <1>2, <1>6, <1>7 DEF Requested, Others, Stages
  <1>9. QED
    BY <1>2, <1>3, <1>5, <1>6, <1>8

\* An acknowledgement or a completion holds one write, which takes nothing from
\* the entry it has read.
LEMMA ReadEffect ==
    ASSUME TypeOK, HoldsInv, NEW r \in Requests, GetAction(r)
    PROVE  /\ Others(r) /\ pc[r] = "getAction" /\ pc'[r] \in {"set", "attach", "answered"}
           /\ body[r].kind \in {"ack", "complete"}
           /\ pc'[r] = "set" => \E w \in held'[r].writes :
                 /\ \A v \in held'[r].writes : v = w
                 /\ w.id \in DOMAIN actions /\ ~Less(index[w.id], w.entry)
                 /\ w.entry.status = "VERIFIED" =>
                        body[r].kind = "complete" \/ index[w.id].status = "VERIFIED"
           /\ held'[r].open = held[r].open /\ held'[r].todo = held[r].todo
           /\ held'[r].todoWorkflows = held[r].todoWorkflows
           /\ \A w \in held'[r].writes : w.entry.status # "UNINDEXED"
           /\ UNCHANGED <<parses, body, actions, index, workflows, audit, failures, wrote, overlap>>
           /\ Requested'
  <1>1. Requested /\ Lists
    BY RequestTypes, ListTypes
  <1>2. UNCHANGED <<parses, body, actions, index, workflows, audit, failures, wrote, overlap>>
    BY DEF GetAction, redisVars, ghostVars
  <1> DEFINE OneWrite ==
             /\ Others(r) /\ Requested' /\ pc[r] = "getAction" /\ pc'[r] = "set"
             /\ \E w \in held'[r].writes :
                   /\ \A v \in held'[r].writes : v = w
                   /\ w.id \in DOMAIN actions /\ ~Less(index[w.id], w.entry)
                   /\ w.entry.status = "VERIFIED" =>
                          body[r].kind = "complete" \/ index[w.id].status = "VERIFIED"
             /\ held'[r].open = held[r].open /\ held'[r].todo = held[r].todo
             /\ held'[r].todoWorkflows = held[r].todoWorkflows
             /\ \A w \in held'[r].writes : w.entry.status # "UNINDEXED"
  <1>3. ASSUME NEW a \in DOMAIN actions, NEW e \in Entry, e.status # "UNINDEXED",
               e.status = "VERIFIED" => body[r].kind = "complete" \/ index[a].status = "VERIFIED",
               ~Less(index[a], e), GoTo(r, "getAction", "set"),
               held' = [held EXCEPT ![r].writes = {Write(a, e)}]
        PROVE  OneWrite
    <2> DEFINE writes == {Write(a, e)}
    <2>1. /\ writes \in SUBSET [id : DOMAIN actions, entry : Entry]
          /\ \A w \in writes : w.id = a /\ w.entry = e /\ w = Write(a, e)
          /\ Write(a, e) \in writes
      BY <1>3, WriteType
    <2>2. held' = [held EXCEPT ![r] = [held[r] EXCEPT !.writes = writes]]
      BY <1>3
    <2> HIDE DEF writes
    <2>3. /\ held' \in [Requests -> Held(DOMAIN actions')]
          /\ held'[r].open = held[r].open /\ held'[r].todo = held[r].todo
          /\ held'[r].todoWorkflows = held[r].todoWorkflows /\ held'[r].writes = writes
          /\ \A p \in Requests \ {r} : held'[p] = held[p]
      BY <1>2, <2>1, <2>2, WritesReplaced
    <2>4. /\ Requested' /\ Others(r) /\ pc[r] = "getAction" /\ pc'[r] = "set"
      BY <1>1, <1>2, <1>3, <2>3 DEF Requested, Others, Stages, GoTo
    <2>5. QED
      BY <1>3, <2>1, <2>3, <2>4
  <1>4. CASE body[r].kind = "ack"
    <2>1. PICK w \in held[r].writes :
             LET found == index[w.id] # Unindexed
                 writes == IF found THEN {Write(w.id, Acknowledged(index[w.id]))} ELSE {}
             IN  /\ GoTo(r, "getAction", AfterWrites(r, writes))
                 /\ held' = [held EXCEPT ![r].writes = writes]
      BY <1>4 DEF GetAction
    <2>2. w.id \in DOMAIN actions /\ index[w.id] \in Entry
      BY <1>1, RequestTypes DEF Lists
    <2>3. CASE index[w.id] # Unindexed
      <3>1. /\ Acknowledged(index[w.id]) \in Entry
            /\ Acknowledged(index[w.id]).status # "UNINDEXED"
            /\ ~Less(index[w.id], Acknowledged(index[w.id]))
            /\ Acknowledged(index[w.id]).status = "VERIFIED" => index[w.id].status = "VERIFIED"
        BY <2>2, AcknowledgedType, ChangeKeeps
      <3>2. AfterWrites(r, {Write(w.id, Acknowledged(index[w.id]))}) = "set"
        BY DEF AfterWrites
      <3>3. /\ GoTo(r, "getAction", "set")
            /\ held' = [held EXCEPT ![r].writes = {Write(w.id, Acknowledged(index[w.id]))}]
        BY <2>1, <2>3, <3>2
      <3>4. QED
        BY <1>2, <1>3, <1>4, <2>2, <3>1, <3>3
    <2>4. CASE index[w.id] = Unindexed
      <3> DEFINE none == {}
      <3>1. AfterWrites(r, none) = "attach"
        BY <1>4 DEF AfterWrites
      <3>2. /\ none \in SUBSET [id : DOMAIN actions, entry : Entry]
            /\ held' = [held EXCEPT ![r] = [held[r] EXCEPT !.writes = none]]
            /\ pc' = [pc EXCEPT ![r] = "attach"] /\ pc[r] = "getAction"
        BY <2>1, <2>4, <3>1 DEF GoTo
      <3> HIDE DEF none
      <3>3. /\ held' \in [Requests -> Held(DOMAIN actions')]
            /\ held'[r].open = held[r].open /\ held'[r].todo = held[r].todo
            /\ held'[r].todoWorkflows = held[r].todoWorkflows /\ held'[r].writes = none
            /\ \A p \in Requests \ {r} : held'[p] = held[p]
        BY <1>2, <3>2, WritesReplaced
      <3>4. /\ Requested' /\ Others(r) /\ pc'[r] = "attach"
        BY <1>1, <1>2, <3>2, <3>3 DEF Requested, Others, Stages
      <3>5. held'[r].writes = {}
        BY <3>3 DEF none
      <3>6. QED
        BY <1>2, <1>4, <3>2, <3>3, <3>4, <3>5
    <2>5. QED
      BY <2>3, <2>4
  <1>5. ASSUME body[r].kind = "complete",
               NEW a \in Listed(targetOf(r)), index[a] # Unindexed,
               GoTo(r, "getAction", "set"),
               held' = [held EXCEPT ![r].writes = {Write(a, Completed(index[a]))}]
        PROVE  OneWrite
    <2>1. a \in DOMAIN actions /\ index[a] \in Entry
      BY <1>1, <1>5 DEF Listed, Lists
    <2>2. /\ Completed(index[a]) \in Entry /\ Completed(index[a]).status # "UNINDEXED"
          /\ ~Less(index[a], Completed(index[a]))
      BY <2>1, CompletedType, ChangeKeeps
    <2>3. QED
      BY <1>3, <1>5, <2>1, <2>2
  <1>6. CASE /\ body[r].kind = "complete"
             /\ GoTo(r, "getAction", "answered")
             /\ UNCHANGED held
    <2>1. /\ Requested' /\ Others(r) /\ pc'[r] = "answered" /\ pc[r] = "getAction"
      BY <1>1, <1>2, <1>6 DEF Requested, Others, Stages, GoTo
    <2>2. QED
      BY <1>2, <1>6, <2>1 DEF HoldsInv, HoldsItsOwn
  <1>7. CASE body[r].kind = "complete"
    BY <1>2, <1>5, <1>6, <1>7 DEF GetAction
  <1>8. QED
    BY <1>4, <1>7 DEF GetAction

LEMMA UpdateEffect ==
    ASSUME TypeOK, NEW r \in Requests, SetUpdatedAction(r)
    PROVE  \E w \in held[r].writes :
           /\ Foremost(w, held[r].writes) /\ w.id \in DOMAIN actions
           /\ Others(r) /\ pc[r] = "set" /\ pc'[r] = "logSet"
           /\ index' \in [DOMAIN actions -> Entry] /\ index'[w.id] = w.entry
           /\ \A b \in DOMAIN actions : b # w.id => index'[b] = index[b]
           /\ wrote' = wrote \cup {<<r, w.id>>}
           /\ UNCHANGED <<parses, body, held, actions, workflows, audit, failures, overlap>>
           /\ Requested'
  <1>1. Requested /\ Lists
    BY RequestTypes, ListTypes
  <1>2. PICK w \in held[r].writes :
           /\ Foremost(w, held[r].writes) /\ index' = [index EXCEPT ![w.id] = w.entry]
           /\ wrote' = wrote \cup {<<r, w.id>>}
    BY DEF SetUpdatedAction
  <1>3. /\ pc' = [pc EXCEPT ![r] = "logSet"] /\ pc[r] = "set"
        /\ UNCHANGED <<parses, body, held, actions, workflows, audit, failures, overlap>>
    BY DEF SetUpdatedAction, GoTo
  <1>4. w.id \in DOMAIN actions /\ w.entry \in Entry
    BY RequestTypes
  <1>5. /\ index' \in [DOMAIN actions -> Entry] /\ index'[w.id] = w.entry
        /\ \A b \in DOMAIN actions : b # w.id => index'[b] = index[b]
    BY <1>1, <1>2, <1>4, IndexSet
  <1>6. Requested' /\ Others(r) /\ pc'[r] = "logSet"
    BY <1>1, <1>3 DEF Requested, Others, Stages
  <1>7. QED
    BY <1>2, <1>3, <1>4, <1>5, <1>6

LEMMA LogUpdateEffect ==
    ASSUME TypeOK, NEW r \in Requests, LogUpdatedAction(r)
    PROVE  \E w \in held[r].writes :
           /\ Foremost(w, held[r].writes) /\ w.id \in DOMAIN actions
           /\ Others(r) /\ pc[r] = "logSet"
           /\ pc'[r] \in {"set", "attach", "answered"}
           /\ pc'[r] = "set" => held[r].writes # {w}
           /\ pc'[r] = "answered" => body[r].kind = "complete"
           /\ held'[r].open = held[r].open /\ held'[r].todo = held[r].todo
           /\ held'[r].todoWorkflows = held[r].todoWorkflows
           /\ held'[r].writes = held[r].writes \ {w}
           /\ audit' = audit \cup {<<r, w.id>>}
           /\ UNCHANGED <<parses, body, actions, index, workflows, failures, wrote, overlap>>
           /\ Requested'
  <1>1. Requested
    BY RequestTypes
  <1>2. PICK w \in held[r].writes :
           /\ Foremost(w, held[r].writes)
           /\ GoTo(r, "logSet", AfterWrites(r, held[r].writes \ {w}))
           /\ audit' = audit \cup {<<r, w.id>>}
           /\ held' = [held EXCEPT ![r] = [held[r] EXCEPT !.writes = held[r].writes \ {w}]]
    BY DEF LogUpdatedAction
  <1> DEFINE rest == held[r].writes \ {w}
  <1>3. rest \in SUBSET [id : DOMAIN actions, entry : Entry]
    BY RequestTypes DEF Held
  <1>4. UNCHANGED <<parses, body, actions, index, workflows, failures, wrote, overlap>>
    BY DEF LogUpdatedAction, redisVars, ghostVars
  <1>5. /\ held' \in [Requests -> Held(DOMAIN actions')]
        /\ held'[r].open = held[r].open /\ held'[r].todo = held[r].todo
        /\ held'[r].todoWorkflows = held[r].todoWorkflows /\ held'[r].writes = rest
        /\ \A p \in Requests \ {r} : held'[p] = held[p]
    BY <1>2, <1>3, <1>4, WritesReplaced
  <1>6. /\ AfterWrites(r, rest) \in {"set", "attach", "answered"}
        /\ AfterWrites(r, rest) = "set" => rest # {}
        /\ AfterWrites(r, rest) = "answered" => body[r].kind = "complete"
    BY DEF AfterWrites
  <1>7. /\ Requested' /\ Others(r) /\ pc[r] = "logSet" /\ pc'[r] = AfterWrites(r, rest)
    BY <1>1, <1>2, <1>4, <1>5, <1>6 DEF Requested, Others, Stages, GoTo
  <1>8. w.id \in DOMAIN actions
    BY RequestTypes
  <1>9. QED
    BY <1>2, <1>4, <1>5, <1>6, <1>7, <1>8

LEMMA AttachEffect ==
    ASSUME TypeOK, NEW r \in Requests, AttachCommunication(r)
    PROVE  /\ Others(r) /\ pc[r] = "attach" /\ pc'[r] = "answered"
           /\ UNCHANGED <<parses, body, held, actions, index, workflows, audit, failures,
                          wrote, overlap>>
           /\ Requested'
  <1>1. Requested
    BY RequestTypes
  <1>2. /\ pc' = [pc EXCEPT ![r] = "answered"] /\ pc[r] = "attach"
        /\ UNCHANGED <<parses, body, held, actions, index, workflows, audit, failures,
                       wrote, overlap>>
    BY DEF AttachCommunication, GoTo, redisVars, ghostVars
  <1>3. QED
    BY <1>1, <1>2 DEF Requested, Others

\* A request, or all that are in flight, end before they are done; what requests
\* hold is gone.
Ended ==
    /\ \A r \in Requests :
          \/ pc'[r] = pc[r] /\ held'[r] = held[r]
          \/ pc'[r] = pc[r] /\ held'[r] = Nothing /\ pc[r] \notin Stages
          \/ pc'[r] = "aborted" /\ held'[r] = Nothing /\ pc[r] \in Stages
    /\ UNCHANGED <<parses, body, actions, index, workflows, audit, wrote, overlap>>
    /\ failures' \in 0 .. MaxFailures
    /\ Requested'

LEMMA EndEffect ==
    ASSUME TypeOK, (\E r \in Requests : Reject(r) \/ FailCommand(r)) \/ Crash
    PROVE  Ended
  <1>1. Requested /\ Nothing \in Held(DOMAIN actions) /\ failures \in 0 .. MaxFailures
    BY RequestTypes, NothingType DEF TypeOK
  <1>2. ASSUME NEW r \in Requests, Reject(r) PROVE Ended
    <2>1. /\ pc' = [pc EXCEPT ![r] = "aborted"] /\ held' = [held EXCEPT ![r] = Nothing]
          /\ pc[r] \in Stages
          /\ UNCHANGED <<parses, body, actions, index, workflows, audit, wrote, overlap>>
      BY <1>2 DEF Reject, redisVars, ghostVars, Stages
    <2>2. failures' \in 0 .. MaxFailures
      BY <1>1, <1>2, InFlightAssumption DEF Reject
    <2>3. QED
      BY <1>1, <2>1, <2>2 DEF Ended, Requested
  <1>3. CASE (\E r \in Requests : FailCommand(r)) \/ Crash
    <2>1. /\ pc' = [p \in Requests |-> IF p \in InFlight THEN "aborted" ELSE pc[p]]
          /\ held' = [p \in Requests |-> Nothing]
          /\ UNCHANGED <<parses, body, actions, index, workflows, audit, wrote, overlap>>
      BY <1>3 DEF FailCommand, Crash, EndProcess, redisVars, ghostVars
    <2>2. failures' \in 0 .. MaxFailures
      BY <1>1, <1>3, InFlightAssumption DEF FailCommand, Crash
    <2>3. QED
      BY <1>1, <2>1, <2>2 DEF Ended, Requested, InFlight
  <1>4. QED
    BY <1>2, <1>3

-----------------------------------------------------------------------------
(***************************************************************************)
(* Type correctness, and what requests hold.                               *)
(***************************************************************************)
\* The other parts of TypeOK.
Recorded ==
    /\ parses \in BOOLEAN
    /\ actions \in Seq(Action) /\ index \in [DOMAIN actions -> Entry]
    /\ workflows \in Seq(Workflow)
    /\ audit \subseteq Requests \X DOMAIN actions /\ wrote \subseteq Requests \X DOMAIN actions
    /\ failures \in 0 .. MaxFailures
    /\ overlap \subseteq Requests \X Requests

LEMMA TypeParts == TypeOK <=> Requested /\ Recorded
  BY DEF TypeOK, Requested, Recorded

LEMMA TypePartsNext == TypeOK' <=> Requested' /\ Recorded'
  BY DEF TypeOK, Requested, Recorded

LEMMA TypeInit == Init => TypeOK /\ HoldsInv
  <1> SUFFICES ASSUME Init PROVE TypeOK /\ HoldsInv
    OBVIOUS
  <1>1. \A r \in Requests : (CHOOSE b \in Body[r] : TRUE) \in Body[r]
    BY RequestsAssumption
  <1>2. \A r \in Requests : body[r] \in Body[r] /\ body[r] \in RequestBody
    BY <1>1, RequestsAssumption DEF Init
  <1>3. /\ \A r \in Requests : pc[r] = "idle" /\ held[r] = Nothing
        /\ body \in [Requests -> RequestBody]
    BY <1>2 DEF Init
  <1>4. Requested
    BY <1>2, <1>3, NothingType DEF Init, Requested
  <1>5. Recorded
    <2>1. actions = <<>> /\ index = <<>> /\ workflows = <<>>
      BY DEF Init
    <2>2. actions \in Seq(Action) /\ workflows \in Seq(Workflow) /\ DOMAIN actions = {}
      BY <2>1
    <2>3. index \in [DOMAIN actions -> Entry]
      BY <2>1, <2>2
    <2>4. QED
      BY <2>2, <2>3, BuildsAssumption, InFlightAssumption DEF Init, Recorded
  <1>6. HoldsInv
    BY <1>2, <1>3, NothingType DEF HoldsInv, HoldsItsOwn, Opening, Creating, Changing
  <1>7. QED
    BY <1>4, <1>5, <1>6, TypeParts

\* A request that a step leaves alone holds what it held.
LEMMA HoldsAlone ==
    ASSUME NEW r \in Requests, HoldsItsOwn(r),
           pc'[r] = pc[r], body'[r] = body[r], held'[r] = held[r]
    PROVE  HoldsItsOwn(r)'
  BY DEF HoldsItsOwn

LEMMA HoldsOthers ==
    ASSUME HoldsInv, NEW r \in Requests, Others(r), HoldsItsOwn(r)'
    PROVE  HoldsInv'
  BY HoldsAlone DEF HoldsInv, Others

LEMMA TypeStep == TypeOK /\ HoldsInv /\ [Next]_vars => (TypeOK /\ HoldsInv)'
  <1> SUFFICES ASSUME TypeOK, HoldsInv, [Next]_vars PROVE TypeOK' /\ HoldsInv'
    OBVIOUS
  <1> USE DEF Recorded
  <1>1. Requested /\ Recorded /\ Lists
    BY TypeParts, RequestTypes, ListTypes
  <1>2. \A r \in Requests : HoldsItsOwn(r) /\ body[r].kind \in Kinds
    BY RequestTypes, BodyTypes DEF HoldsInv
  <1>3. ASSUME NEW r \in Requests, Begin(r) PROVE TypeOK' /\ HoldsInv'
    <2>1. TypeOK'
      BY <1>1, <1>3, BeginEffect, TypePartsNext DEF InFlight
    <2>2. HoldsItsOwn(r)'
      <3>1. /\ held[r].todo = {} /\ held[r].todoWorkflows = {}
            /\ \A w \in held[r].writes : w.entry.status # "UNINDEXED"
        BY <1>2, <1>3, BeginEffect DEF HoldsItsOwn
      <3>2. QED
        BY <1>3, <3>1, BeginEffect DEF HoldsItsOwn, Opening, Creating, Changing
    <2>3. QED
      BY <1>3, <2>1, <2>2, BeginEffect, HoldsOthers
  <1>4. ASSUME NEW r \in Requests, GetOpenActions(r) PROVE TypeOK' /\ HoldsInv'
    <2>1. TypeOK'
      BY <1>1, <1>4, OpenEffect, TypePartsNext
    <2>2. HoldsItsOwn(r)'
      BY <1>2, <1>4, OpenEffect DEF HoldsItsOwn, Opening, Creating, Changing
    <2>3. QED
      BY <1>4, <2>1, <2>2, OpenEffect, HoldsOthers
  <1>5. ASSUME NEW r \in Requests, GetOpenWorkflows(r) PROVE TypeOK' /\ HoldsInv'
    <2>1. TypeOK'
      BY <1>1, <1>5, ChooseEffect, TypePartsNext
    <2>2. HoldsItsOwn(r)'
      BY <1>2, <1>5, ChooseEffect
      DEF HoldsItsOwn, Opening, Creating, Changing, NextStage, Missing, MissingWorkflows
    <2>3. QED
      BY <1>5, <2>1, <2>2, ChooseEffect, HoldsOthers
  <1>6. ASSUME NEW r \in Requests, AppendAction(r) PROVE TypeOK' /\ HoldsInv'
    <2>1. PICK i \in held[r].todo :
             LET new == [target |-> targetOf(r), name |-> body[r].actions[i], by |-> r]
                 id == Len(actions) + 1
             IN
             /\ i \in DOMAIN body[r].actions /\ new \in Action
             /\ Others(r) /\ pc[r] = "push" /\ pc'[r] = "index"
             /\ held'[r].todo = held[r].todo \ {i}
             /\ held'[r].todoWorkflows = held[r].todoWorkflows
             /\ held'[r].writes = {Write(id, NewEntry)}
             /\ actions' = Append(actions, new) /\ index' = Append(index, Unindexed)
             /\ UNCHANGED <<parses, body, workflows, audit, failures, wrote, overlap>>
             /\ Requested'
      BY <1>6, AppendEffect
    <2>2. /\ actions' \in Seq(Action) /\ index' \in [DOMAIN actions' -> Entry]
          /\ DOMAIN actions \subseteq DOMAIN actions'
      BY <1>1, <2>1, ActionAppended
    <2>3. TypeOK'
      BY <1>1, <2>1, <2>2, TypePartsNext
    <2>4. HoldsItsOwn(r)'
      BY <1>2, <2>1, WriteType, NewEntryType DEF HoldsItsOwn, Opening, Creating, Changing
    <2>5. QED
      BY <2>1, <2>3, <2>4, HoldsOthers
  <1>7. ASSUME NEW r \in Requests, SetAction(r) PROVE TypeOK' /\ HoldsInv'
    <2>1. TypeOK'
      BY <1>1, <1>7, SetEffect, TypePartsNext
    <2>2. HoldsItsOwn(r)'
      BY <1>2, <1>7, SetEffect DEF HoldsItsOwn, Opening, Creating, Changing
    <2>3. QED
      BY <1>7, <2>1, <2>2, SetEffect, HoldsOthers
  <1>8. ASSUME NEW r \in Requests, LogAction(r) PROVE TypeOK' /\ HoldsInv'
    <2>1. TypeOK'
      BY <1>1, <1>8, LogEffect, TypePartsNext
    <2>2. HoldsItsOwn(r)'
      BY <1>2, <1>8, LogEffect DEF HoldsItsOwn, Opening, Creating, Changing, NextStage
    <2>3. QED
      BY <1>8, <2>1, <2>2, LogEffect, HoldsOthers
  <1>9. ASSUME NEW r \in Requests, AppendWorkflow(r) PROVE TypeOK' /\ HoldsInv'
    <2>1. PICK i \in held[r].todoWorkflows :
             LET new == [target |-> targetOf(r), name |-> body[r].workflows[i], by |-> r] IN
             /\ i \in DOMAIN body[r].workflows /\ new \in Workflow
             /\ Others(r) /\ pc[r] = "openWorkflow" /\ pc'[r] = "logWorkflow"
             /\ held'[r].todo = held[r].todo
             /\ held'[r].todoWorkflows = held[r].todoWorkflows \ {i}
             /\ held'[r].writes = held[r].writes
             /\ workflows' = Append(workflows, new)
             /\ UNCHANGED <<parses, body, actions, index, audit, failures, wrote, overlap>>
             /\ Requested'
      BY <1>9, WorkflowEffect
    <2>2. workflows' \in Seq(Workflow)
      BY <1>1, <2>1, WorkflowAppended
    <2>3. TypeOK'
      BY <1>1, <2>1, <2>2, TypePartsNext
    <2>4. HoldsItsOwn(r)'
      BY <1>2, <2>1 DEF HoldsItsOwn, Opening, Creating, Changing
    <2>5. QED
      BY <2>1, <2>3, <2>4, HoldsOthers
  <1>10. ASSUME NEW r \in Requests, LogWorkflow(r) PROVE TypeOK' /\ HoldsInv'
    <2>1. TypeOK'
      BY <1>1, <1>10, LogWorkflowEffect, TypePartsNext
    <2>2. HoldsItsOwn(r)'
      BY <1>2, <1>10, LogWorkflowEffect DEF HoldsItsOwn, Opening, Creating, Changing, NextStage
    <2>3. QED
      BY <1>10, <2>1, <2>2, LogWorkflowEffect, HoldsOthers
  <1>11. ASSUME NEW r \in Requests, GetActions(r) PROVE TypeOK' /\ HoldsInv'
    <2>1. TypeOK'
      BY <1>1, <1>11, CommandEffect, TypePartsNext
    <2>2. HoldsItsOwn(r)'
      BY <1>2, <1>11, CommandEffect DEF HoldsItsOwn, Opening, Creating, Changing, Commands
    <2>3. QED
      BY <1>11, <2>1, <2>2, CommandEffect, HoldsOthers
  <1>12. ASSUME NEW r \in Requests, GetAction(r) PROVE TypeOK' /\ HoldsInv'
    <2>1. TypeOK'
      BY <1>1, <1>12, ReadEffect, TypePartsNext
    <2>2. HoldsItsOwn(r)'
      BY <1>2, <1>12, ReadEffect DEF HoldsItsOwn, Opening, Creating, Changing
    <2>3. QED
      BY <1>12, <2>1, <2>2, ReadEffect, HoldsOthers
  <1>13. ASSUME NEW r \in Requests, SetUpdatedAction(r) PROVE TypeOK' /\ HoldsInv'
    <2>1. TypeOK'
      BY <1>1, <1>13, UpdateEffect, TypePartsNext
    <2>2. HoldsItsOwn(r)'
      BY <1>2, <1>13, UpdateEffect DEF HoldsItsOwn, Opening, Creating, Changing
    <2>3. QED
      BY <1>13, <2>1, <2>2, UpdateEffect, HoldsOthers
  <1>14. ASSUME NEW r \in Requests, LogUpdatedAction(r) PROVE TypeOK' /\ HoldsInv'
    <2>1. TypeOK'
      BY <1>1, <1>14, LogUpdateEffect, TypePartsNext
    <2>2. HoldsItsOwn(r)'
      BY <1>2, <1>14, LogUpdateEffect DEF HoldsItsOwn, Opening, Creating, Changing
    <2>3. QED
      BY <1>14, <2>1, <2>2, LogUpdateEffect, HoldsOthers
  <1>15. ASSUME NEW r \in Requests, AttachCommunication(r) PROVE TypeOK' /\ HoldsInv'
    <2>1. TypeOK'
      BY <1>1, <1>15, AttachEffect, TypePartsNext
    <2>2. HoldsItsOwn(r)'
      BY <1>2, <1>15, AttachEffect DEF HoldsItsOwn, Opening, Creating, Changing
    <2>3. QED
      BY <1>15, <2>1, <2>2, AttachEffect, HoldsOthers
  <1>16. ASSUME Ended PROVE TypeOK' /\ HoldsInv'
    <2>1. TypeOK'
      BY <1>1, <1>16, TypePartsNext DEF Ended
    <2>2. ASSUME NEW r \in Requests PROVE HoldsItsOwn(r)'
      BY <1>2, <1>16, NothingType
      DEF HoldsItsOwn, Opening, Creating, Changing, Ended, Stages
    <2>3. QED
      BY <2>1, <2>2 DEF HoldsInv
  <1>17. CASE UNCHANGED vars
    BY <1>1, <1>17, TypeParts, TypePartsNext
    DEF vars, requestVars, redisVars, ghostVars, Requested, HoldsInv, HoldsItsOwn
  <1>18. QED
    BY <1>3, <1>4, <1>5, <1>6, <1>7, <1>8, <1>9, <1>10, <1>11, <1>12, <1>13, <1>14, <1>15, <1>16,
       <1>17, EndEffect
    DEF Next, Step, Finished

\* Every variable has its type, in every reachable state.
THEOREM ActionsTypeCorrect == Spec => []TypeOK
  BY TypeInit, TypeStep, PTL DEF Spec

-----------------------------------------------------------------------------
(***************************************************************************)
(* Requests in flight overlap, and what every step leaves as it is.        *)
(***************************************************************************)
LEMMA InFlightStep ==
    ASSUME TypeOK, HoldsInv, [Next]_vars
    PROVE  \/ overlap' = overlap /\ InFlight' \subseteq InFlight
           \/ \E r \in Requests : Begin(r)
  <1>1. ASSUME NEW r \in Requests, Step(r)
        PROVE  overlap' = overlap /\ Others(r) /\ pc[r] \in Stages
    <2>1. CASE GetOpenActions(r) \/ GetOpenWorkflows(r) \/ GetActions(r) \/ GetAction(r)
      BY <2>1, OpenEffect, ChooseEffect, CommandEffect, ReadEffect DEF Stages
    <2>2. CASE AppendAction(r) \/ SetAction(r) \/ LogAction(r) \/ AppendWorkflow(r)
      BY <2>2, AppendEffect, SetEffect, LogEffect, WorkflowEffect DEF Stages
    <2>3. CASE \/ LogWorkflow(r) \/ SetUpdatedAction(r) \/ LogUpdatedAction(r)
               \/ AttachCommunication(r)
      BY <2>3, LogWorkflowEffect, UpdateEffect, LogUpdateEffect, AttachEffect DEF Stages
    <2>4. QED
      BY <1>1, <2>1, <2>2, <2>3 DEF Step
  <1>2. ASSUME NEW r \in Requests, Step(r)
        PROVE  overlap' = overlap /\ InFlight' \subseteq InFlight
    BY <1>1, <1>2 DEF Others, InFlight
  <1>3. ASSUME Ended
        PROVE  overlap' = overlap /\ InFlight' \subseteq InFlight
    BY <1>3 DEF Ended, InFlight, Stages
  <1>4. CASE UNCHANGED vars
    BY <1>4 DEF vars, requestVars, ghostVars, InFlight
  <1>5. QED
    BY <1>2, <1>3, <1>4, EndEffect DEF Next, Finished

LEMMA OverlapStep ==
    ASSUME TypeOK, HoldsInv, OverlapInv, [Next]_vars
    PROVE  OverlapInv'
  <1>1. CASE overlap' = overlap /\ InFlight' \subseteq InFlight
    BY <1>1 DEF OverlapInv
  <1>2. ASSUME NEW r \in Requests, Begin(r) PROVE OverlapInv'
    <2>1. InFlight' \subseteq InFlight \cup {r}
      BY <1>2, BeginEffect DEF InFlight, Others
    <2>2. overlap' = overlap \cup ({r} \X InFlight) \cup (InFlight \X {r})
      BY <1>2, BeginEffect
    <2>3. QED
      BY <2>1, <2>2 DEF OverlapInv
  <1>3. QED
    BY <1>1, <1>2, InFlightStep

\* What a step that does not read the lists leaves of a request.
Unread == {"idle", "getActions", "getWorkflows"}

Kept(p) ==
    /\ pc[p] # "idle" => body'[p] = body[p]
    /\ pc[p] \notin Unread => pc'[p] \notin Unread
    /\ pc'[p] \in Creating => pc[p] \in Creating
    /\ pc'[p] = "getWorkflows" => pc[p] = "getWorkflows" /\ held'[p].open = held[p].open
    /\ pc'[p] = "answered" /\ body'[p].kind = "orchestrate" =>
           pc[p] \in Creating \cup {"answered"}
    /\ held'[p].todo \subseteq held[p].todo
    /\ held'[p].todoWorkflows \subseteq held[p].todoWorkflows
    /\ pc'[p] \in Creating \cup {"answered"} /\ body'[p].kind = "orchestrate" =>
           /\ held'[p].todo = held[p].todo \/ AppendAction(p)
           /\ held'[p].todoWorkflows = held[p].todoWorkflows \/ AppendWorkflow(p)

LEMMA OthersKept ==
    ASSUME NEW r \in Requests, Others(r)
    PROVE  \A p \in Requests \ {r} : Kept(p)
  BY DEF Others, Kept

LEMMA StepKept ==
    ASSUME TypeOK, HoldsInv, [Next]_vars
    PROVE  \/ \A p \in Requests : Kept(p)
           \/ \E r \in Requests : GetOpenActions(r) \/ GetOpenWorkflows(r)
  <1> USE DEF Kept, Unread, Creating
  <1>1. ASSUME NEW r \in Requests, Begin(r) PROVE Kept(r) /\ Others(r)
    BY <1>1, BeginEffect
  <1>2. ASSUME NEW r \in Requests, AppendAction(r) PROVE Kept(r) /\ Others(r)
    <2>1. /\ Others(r) /\ pc[r] = "push" /\ pc'[r] = "index" /\ body' = body
          /\ held'[r].todo \subseteq held[r].todo
          /\ held'[r].todoWorkflows = held[r].todoWorkflows
      BY <1>2, AppendEffect
    <2>2. QED
      BY <1>2, <2>1
  <1>3. ASSUME NEW r \in Requests, SetAction(r) PROVE Kept(r) /\ Others(r)
    BY <1>3, SetEffect
  <1>4. ASSUME NEW r \in Requests, LogAction(r) PROVE Kept(r) /\ Others(r)
    BY <1>4, LogEffect DEF NextStage
  <1>5. ASSUME NEW r \in Requests, AppendWorkflow(r) PROVE Kept(r) /\ Others(r)
    <2>1. /\ Others(r) /\ pc[r] = "openWorkflow" /\ pc'[r] = "logWorkflow" /\ body' = body
          /\ held'[r].todo = held[r].todo
          /\ held'[r].todoWorkflows \subseteq held[r].todoWorkflows
      BY <1>5, WorkflowEffect
    <2>2. QED
      BY <1>5, <2>1
  <1>6. ASSUME NEW r \in Requests, LogWorkflow(r) PROVE Kept(r) /\ Others(r)
    BY <1>6, LogWorkflowEffect DEF NextStage
  <1>7. ASSUME NEW r \in Requests, GetActions(r) PROVE Kept(r) /\ Others(r)
    BY <1>7, CommandEffect
  <1>8. ASSUME NEW r \in Requests, GetAction(r) PROVE Kept(r) /\ Others(r)
    BY <1>8, ReadEffect
  <1>9. ASSUME NEW r \in Requests, SetUpdatedAction(r) PROVE Kept(r) /\ Others(r)
    BY <1>9, UpdateEffect
  <1>10. ASSUME NEW r \in Requests, LogUpdatedAction(r) PROVE Kept(r) /\ Others(r)
    BY <1>10, LogUpdateEffect
  <1>11. ASSUME NEW r \in Requests, AttachCommunication(r) PROVE Kept(r) /\ Others(r)
    BY <1>11, AttachEffect DEF HoldsInv, HoldsItsOwn, Changing
  <1>12. ASSUME Ended, NEW p \in Requests PROVE Kept(p)
    BY <1>12, NothingType DEF Ended, Stages, HoldsInv, HoldsItsOwn
  <1>13. ASSUME UNCHANGED vars, NEW p \in Requests PROVE Kept(p)
    BY <1>13 DEF vars, requestVars
  <1>14. QED
    BY <1>1, <1>2, <1>3, <1>4, <1>5, <1>6, <1>7, <1>8, <1>9, <1>10, <1>11, <1>12, <1>13,
       EndEffect, OthersKept
    DEF Next, Step, Finished

\* The lists grow by the steps that append to them only.
LEMMA ListsKept ==
    ASSUME TypeOK, HoldsInv, [Next]_vars
    PROVE  /\ overlap \subseteq overlap'
           /\ UNCHANGED actions \/ \E r \in Requests : AppendAction(r)
           /\ UNCHANGED workflows \/ \E r \in Requests : AppendWorkflow(r)
  <1>1. overlap \subseteq overlap'
    BY InFlightStep, BeginEffect
  <1>2. UNCHANGED actions \/ \E r \in Requests : AppendAction(r)
    BY EndEffect
    DEF Next, Step, Finished, Ended, Begin, GetOpenActions, GetOpenWorkflows, SetAction, LogAction,
        AppendWorkflow, LogWorkflow, GetActions, GetAction, SetUpdatedAction,
        LogUpdatedAction, AttachCommunication, redisVars, vars
  <1>3. UNCHANGED workflows \/ \E r \in Requests : AppendWorkflow(r)
    BY EndEffect
    DEF Next, Step, Finished, Ended, Begin, GetOpenActions, GetOpenWorkflows, SetAction, LogAction,
        AppendAction, LogWorkflow, GetActions, GetAction, SetUpdatedAction,
        LogUpdatedAction, AttachCommunication, redisVars, vars
  <1>4. QED
    BY <1>1, <1>2, <1>3

\* A new action is the next that its request has to create, at the end of the
\* list.
NewAction(r, n, i) ==
    /\ i \in DOMAIN body[r].actions /\ i \in held[r].todo
    /\ held'[r].todo = held[r].todo \ {i}
    /\ Others(r) /\ pc[r] = "push" /\ pc'[r] = "index" /\ body' = body
    /\ DOMAIN actions' = DOMAIN actions \cup {n} /\ n \notin DOMAIN actions /\ n \in Nat
    /\ \A a \in DOMAIN actions : actions'[a] = actions[a] /\ index'[a] = index[a] /\ a < n
    /\ actions'[n].target = targetOf(r) /\ actions'[n].by = r
    /\ actions'[n].name = body[r].actions[i] /\ index'[n] = Unindexed
    /\ \A w \in held'[r].writes : w.id = n /\ w.entry = NewEntry
    /\ workflows' = workflows /\ overlap' = overlap /\ wrote' = wrote /\ audit' = audit

LEMMA ActionIsNew ==
    ASSUME TypeOK, HoldsInv, NEW r \in Requests, AppendAction(r)
    PROVE  \E n, i : NewAction(r, n, i)
  <1> DEFINE n == Len(actions) + 1
  <1>1. PICK i \in held[r].todo :
           LET new == [target |-> targetOf(r), name |-> body[r].actions[i], by |-> r] IN
           /\ i \in DOMAIN body[r].actions /\ new \in Action
           /\ Others(r) /\ pc[r] = "push" /\ pc'[r] = "index"
           /\ held'[r].todo = held[r].todo \ {i}
           /\ held'[r].writes = {Write(n, NewEntry)}
           /\ actions' = Append(actions, new) /\ index' = Append(index, Unindexed)
           /\ UNCHANGED <<body, workflows, audit, wrote, overlap>>
    BY AppendEffect
  <1> DEFINE new == [target |-> targetOf(r), name |-> body[r].actions[i], by |-> r]
  <1>2. new.target = targetOf(r) /\ new.name = body[r].actions[i] /\ new.by = r
    OBVIOUS
  <1>3. /\ new \in Action /\ actions' = Append(actions, new)
        /\ index' = Append(index, Unindexed)
    BY <1>1
  <1> HIDE DEF new
  <1>4. /\ DOMAIN actions' = DOMAIN actions \cup {n} /\ n \notin DOMAIN actions /\ n \in Nat
        /\ \A a \in DOMAIN actions : actions'[a] = actions[a] /\ index'[a] = index[a] /\ a < n
        /\ actions'[n] = new /\ index'[n] = Unindexed
    BY <1>3, ListTypes, ActionAppended
  <1>5. \A w \in held'[r].writes : w.id = n /\ w.entry = NewEntry
    BY <1>1, WriteType
  <1> HIDE DEF n
  <1>6. NewAction(r, n, i)
    BY <1>1, <1>2, <1>4, <1>5 DEF NewAction
  <1>7. QED
    BY <1>6

NewWorkflow(r, n, i) ==
    /\ i \in DOMAIN body[r].workflows /\ i \in held[r].todoWorkflows
    /\ held'[r].todoWorkflows = held[r].todoWorkflows \ {i}
    /\ Others(r) /\ pc[r] = "openWorkflow" /\ pc'[r] = "logWorkflow" /\ body' = body
    /\ DOMAIN workflows' = DOMAIN workflows \cup {n} /\ n \notin DOMAIN workflows /\ n \in Nat
    /\ \A v \in DOMAIN workflows : workflows'[v] = workflows[v] /\ v < n
    /\ workflows'[n].target = targetOf(r) /\ workflows'[n].by = r
    /\ workflows'[n].name = body[r].workflows[i]
    /\ actions' = actions /\ overlap' = overlap

LEMMA WorkflowIsNew ==
    ASSUME TypeOK, HoldsInv, NEW r \in Requests, AppendWorkflow(r)
    PROVE  \E n, i : NewWorkflow(r, n, i)
  <1> DEFINE n == Len(workflows) + 1
  <1>1. PICK i \in held[r].todoWorkflows :
           LET new == [target |-> targetOf(r), name |-> body[r].workflows[i], by |-> r] IN
           /\ i \in DOMAIN body[r].workflows /\ new \in Workflow
           /\ Others(r) /\ pc[r] = "openWorkflow" /\ pc'[r] = "logWorkflow"
           /\ held'[r].todoWorkflows = held[r].todoWorkflows \ {i}
           /\ workflows' = Append(workflows, new)
           /\ UNCHANGED <<body, actions, overlap>>
    BY WorkflowEffect
  <1> DEFINE new == [target |-> targetOf(r), name |-> body[r].workflows[i], by |-> r]
  <1>2. new.target = targetOf(r) /\ new.name = body[r].workflows[i] /\ new.by = r
    OBVIOUS
  <1>3. new \in Workflow /\ workflows' = Append(workflows, new)
    BY <1>1
  <1> HIDE DEF new
  <1>4. /\ DOMAIN workflows' = DOMAIN workflows \cup {n} /\ n \notin DOMAIN workflows /\ n \in Nat
        /\ \A v \in DOMAIN workflows : workflows'[v] = workflows[v] /\ v < n
        /\ workflows'[n] = new
    BY <1>3, ListTypes, WorkflowAppended
  <1> HIDE DEF n
  <1>5. NewWorkflow(r, n, i)
    BY <1>1, <1>2, <1>4 DEF NewWorkflow
  <1>6. QED
    BY <1>5

-----------------------------------------------------------------------------
(***************************************************************************)
(* Who made the actions and workflows, and who has seen them.              *)
(***************************************************************************)
LEMMA ActionsMadeStep ==
    ASSUME TypeOK, HoldsInv, ActionsMade, [Next]_vars
    PROVE  ActionsMade'
  <1>1. \A a \in DOMAIN actions : actions[a].by \in Requests
    BY ListTypes DEF Lists
  <1>2. ASSUME NEW a \in DOMAIN actions, actions'[a] = actions[a], Kept(actions[a].by)
        PROVE  LET r == actions'[a].by IN
               /\ pc'[r] \notin Unread
               /\ \E i \in DOMAIN body'[r].actions :
                     body'[r].actions[i] = actions'[a].name /\ i \notin held'[r].todo
    BY <1>2 DEF ActionsMade, Kept, Unread
  <1>3. ASSUME NEW r \in Requests, AppendAction(r), \A p \in Requests : Kept(p)
        PROVE  ActionsMade'
    <2>1. PICK n, i : NewAction(r, n, i)
      BY <1>3, ActionIsNew
    <2>2. \A a \in DOMAIN actions : actions'[a] = actions[a] /\ Kept(actions[a].by)
      BY <1>1, <1>3, <2>1 DEF NewAction
    <2>3. LET q == actions'[n].by IN
               /\ pc'[q] \notin Unread
               /\ \E k \in DOMAIN body'[q].actions :
                     body'[q].actions[k] = actions'[n].name /\ k \notin held'[q].todo
      BY <2>1 DEF NewAction, Unread
    <2>4. DOMAIN actions' = DOMAIN actions \cup {n}
      BY <2>1 DEF NewAction
    <2>5. QED
      BY <1>2, <2>2, <2>3, <2>4 DEF ActionsMade, Unread
  <1>4. ASSUME actions' = actions, \A p \in Requests : Kept(p)
        PROVE  ActionsMade'
    BY <1>1, <1>2, <1>4 DEF ActionsMade, Unread
  <1>5. ASSUME NEW r \in Requests, GetOpenActions(r) \/ GetOpenWorkflows(r)
        PROVE  ActionsMade'
    <2>1. Others(r) /\ pc[r] \in Unread /\ actions' = actions
      BY <1>5, OpenEffect, ChooseEffect DEF Unread
    <2>2. \A a \in DOMAIN actions : Kept(actions[a].by)
      BY <1>1, <2>1, OthersKept DEF ActionsMade, Unread
    <2>3. QED
      BY <1>2, <2>1, <2>2 DEF ActionsMade, Unread
  <1>6. QED
    BY <1>3, <1>4, <1>5, StepKept, ListsKept

LEMMA WorkflowsMadeStep ==
    ASSUME TypeOK, HoldsInv, WorkflowsMade, [Next]_vars
    PROVE  WorkflowsMade'
  <1>1. \A v \in DOMAIN workflows : workflows[v].by \in Requests
    BY ListTypes DEF Lists
  <1>2. ASSUME NEW v \in DOMAIN workflows, workflows'[v] = workflows[v], Kept(workflows[v].by)
        PROVE  LET r == workflows'[v].by IN
               /\ pc'[r] \notin Unread
               /\ \E i \in DOMAIN body'[r].workflows :
                     body'[r].workflows[i] = workflows'[v].name /\ i \notin held'[r].todoWorkflows
    BY <1>2 DEF WorkflowsMade, Kept, Unread
  <1>3. ASSUME NEW r \in Requests, AppendWorkflow(r), \A p \in Requests : Kept(p)
        PROVE  WorkflowsMade'
    <2>1. PICK n, i : NewWorkflow(r, n, i)
      BY <1>3, WorkflowIsNew
    <2>2. \A v \in DOMAIN workflows : workflows'[v] = workflows[v] /\ Kept(workflows[v].by)
      BY <1>1, <1>3, <2>1 DEF NewWorkflow
    <2>3. LET q == workflows'[n].by IN
               /\ pc'[q] \notin Unread
               /\ \E k \in DOMAIN body'[q].workflows :
                     body'[q].workflows[k] = workflows'[n].name /\ k \notin held'[q].todoWorkflows
      BY <2>1 DEF NewWorkflow, Unread
    <2>4. DOMAIN workflows' = DOMAIN workflows \cup {n}
      BY <2>1 DEF NewWorkflow
    <2>5. QED
      BY <1>2, <2>2, <2>3, <2>4 DEF WorkflowsMade, Unread
  <1>4. ASSUME workflows' = workflows, \A p \in Requests : Kept(p)
        PROVE  WorkflowsMade'
    BY <1>1, <1>2, <1>4 DEF WorkflowsMade, Unread
  <1>5. ASSUME NEW r \in Requests, GetOpenActions(r) \/ GetOpenWorkflows(r)
        PROVE  WorkflowsMade'
    <2>1. Others(r) /\ pc[r] \in Unread /\ workflows' = workflows
      BY <1>5, OpenEffect, ChooseEffect DEF Unread
    <2>2. \A v \in DOMAIN workflows : Kept(workflows[v].by)
      BY <1>1, <2>1, OthersKept DEF WorkflowsMade, Unread
    <2>3. QED
      BY <1>2, <2>1, <2>2 DEF WorkflowsMade, Unread
  <1>6. QED
    BY <1>3, <1>4, <1>5, StepKept, ListsKept

LEMMA ActionsSeenStep ==
    ASSUME TypeOK, HoldsInv, OverlapInv, ActionsSeen, [Next]_vars
    PROVE  ActionsSeen'
  <1> DEFINE Seen(r, a) ==
             actions[a].target = targetOf(r) /\ actions[a].by # r
                 /\ <<actions[a].by, r>> \notin overlap =>
             /\ pc[r] = "getWorkflows" => actions[a].name \in held[r].open
             /\ \A i \in held[r].todo : body[r].actions[i] # actions[a].name
  <1>1. \A r \in Requests : pc[r] \in Opening => \A a \in DOMAIN actions : Seen(r, a)
    BY DEF ActionsSeen
  <1>2. overlap \subseteq overlap'
    BY ListsKept
  <1>3. ASSUME NEW r \in Requests, Kept(r), pc'[r] \in Opening,
               NEW a \in DOMAIN actions, actions'[a] = actions[a]
        PROVE  Seen(r, a)'
    <2>1. /\ pc[r] \in Opening /\ body'[r] = body[r] /\ held'[r].todo \subseteq held[r].todo
          /\ pc'[r] = "getWorkflows" => pc[r] = "getWorkflows" /\ held'[r].open = held[r].open
      BY <1>3 DEF Kept, Opening, Creating
    <2>2. Seen(r, a)
      BY <1>1, <2>1
    <2>3. QED
      BY <1>2, <1>3, <2>1, <2>2 DEF targetOf
  <1>4. ASSUME NEW s \in Requests, AppendAction(s), \A p \in Requests : Kept(p)
        PROVE  ActionsSeen'
    <2>1. PICK n, i : NewAction(s, n, i)
      BY <1>4, ActionIsNew
    <2>2. ASSUME NEW r \in Requests, pc'[r] \in Opening PROVE Seen(r, n)'
      <3>1. r # s => <<s, r>> \in overlap
        <4>1. pc[r] \in Opening /\ pc[s] = "push"
          BY <1>4, <2>1, <2>2 DEF Kept, Opening, Creating, NewAction
        <4>2. r \in InFlight /\ s \in InFlight
          BY <4>1 DEF InFlight, Opening, Creating, Stages
        <4>3. QED
          BY <4>2 DEF OverlapInv
      <3>2. actions'[n].by = s
        BY <2>1 DEF NewAction
      <3>3. QED
        BY <1>2, <3>1, <3>2
    <2>3. ASSUME NEW r \in Requests, pc'[r] \in Opening, NEW a \in DOMAIN actions'
          PROVE  Seen(r, a)'
      BY <1>3, <1>4, <2>1, <2>2, <2>3 DEF NewAction
    <2>4. QED
      BY <2>3 DEF ActionsSeen
  <1>5. ASSUME actions' = actions, \A p \in Requests : Kept(p)
        PROVE  ActionsSeen'
    BY <1>3, <1>5 DEF ActionsSeen
  <1>6. ASSUME NEW s \in Requests, GetOpenActions(s) PROVE ActionsSeen'
    <2>1. /\ Others(s) /\ actions' = actions /\ body' = body /\ pc[s] = "getActions"
          /\ held'[s].open = OpenNames(targetOf(s)) /\ held'[s].todo = held[s].todo
      BY <1>6, OpenEffect
    <2>2. held'[s].todo = {}
      BY <2>1 DEF HoldsInv, HoldsItsOwn
    <2>3. ASSUME NEW a \in DOMAIN actions PROVE Seen(s, a)'
      BY <2>1, <2>2, <2>3 DEF OpenNames, Listed, targetOf
    <2>4. ASSUME NEW r \in Requests, pc'[r] \in Opening, NEW a \in DOMAIN actions'
          PROVE  Seen(r, a)'
      BY <1>3, <2>1, <2>3, <2>4, OthersKept
    <2>5. QED
      BY <2>4 DEF ActionsSeen
  <1>7. ASSUME NEW s \in Requests, GetOpenWorkflows(s) PROVE ActionsSeen'
    <2>1. /\ Others(s) /\ actions' = actions /\ body' = body /\ pc[s] = "getWorkflows"
          /\ held'[s].todo = Missing(s) /\ pc'[s] # "getWorkflows"
      BY <1>7, ChooseEffect DEF NextStage
    <2>2. ASSUME NEW a \in DOMAIN actions PROVE Seen(s, a)'
      <3>1. Seen(s, a)
        BY <1>1, <2>1 DEF Opening
      <3>2. QED
        BY <1>2, <2>1, <3>1 DEF Missing, targetOf
    <2>3. ASSUME NEW r \in Requests, pc'[r] \in Opening, NEW a \in DOMAIN actions'
          PROVE  Seen(r, a)'
      BY <1>3, <2>1, <2>2, <2>3, OthersKept
    <2>4. QED
      BY <2>3 DEF ActionsSeen
  <1>8. QED
    BY <1>4, <1>5, <1>6, <1>7, StepKept, ListsKept

LEMMA WorkflowsSeenStep ==
    ASSUME TypeOK, HoldsInv, OverlapInv, WorkflowsSeen, [Next]_vars
    PROVE  WorkflowsSeen'
  <1> DEFINE Seen(r, v) ==
             workflows[v].target = targetOf(r) /\ workflows[v].by # r
                 /\ <<workflows[v].by, r>> \notin overlap =>
             \A i \in held[r].todoWorkflows : body[r].workflows[i] # workflows[v].name
  <1>1. \A r \in Requests : pc[r] \in Opening => \A v \in DOMAIN workflows : Seen(r, v)
    BY DEF WorkflowsSeen
  <1>2. overlap \subseteq overlap'
    BY ListsKept
  <1>3. ASSUME NEW r \in Requests, Kept(r), pc'[r] \in Opening,
               NEW v \in DOMAIN workflows, workflows'[v] = workflows[v]
        PROVE  Seen(r, v)'
    <2>1. /\ pc[r] \in Opening /\ body'[r] = body[r]
          /\ held'[r].todoWorkflows \subseteq held[r].todoWorkflows
      BY <1>3 DEF Kept, Opening, Creating
    <2>2. Seen(r, v)
      BY <1>1, <2>1
    <2>3. QED
      BY <1>2, <1>3, <2>1, <2>2 DEF targetOf
  <1>4. ASSUME NEW s \in Requests, AppendWorkflow(s), \A p \in Requests : Kept(p)
        PROVE  WorkflowsSeen'
    <2>1. PICK n, i : NewWorkflow(s, n, i)
      BY <1>4, WorkflowIsNew
    <2>2. ASSUME NEW r \in Requests, pc'[r] \in Opening PROVE Seen(r, n)'
      <3>1. r # s => <<s, r>> \in overlap
        <4>1. pc[r] \in Opening /\ pc[s] = "openWorkflow"
          BY <1>4, <2>1, <2>2 DEF Kept, Opening, Creating, NewWorkflow
        <4>2. r \in InFlight /\ s \in InFlight
          BY <4>1 DEF InFlight, Opening, Creating, Stages
        <4>3. QED
          BY <4>2 DEF OverlapInv
      <3>2. workflows'[n].by = s
        BY <2>1 DEF NewWorkflow
      <3>3. QED
        BY <1>2, <3>1, <3>2
    <2>3. ASSUME NEW r \in Requests, pc'[r] \in Opening, NEW v \in DOMAIN workflows'
          PROVE  Seen(r, v)'
      BY <1>3, <1>4, <2>1, <2>2, <2>3 DEF NewWorkflow
    <2>4. QED
      BY <2>3 DEF WorkflowsSeen
  <1>5. ASSUME workflows' = workflows, \A p \in Requests : Kept(p)
        PROVE  WorkflowsSeen'
    BY <1>3, <1>5 DEF WorkflowsSeen
  <1>6. ASSUME NEW s \in Requests, GetOpenActions(s) PROVE WorkflowsSeen'
    <2>1. /\ Others(s) /\ workflows' = workflows /\ pc[s] = "getActions"
          /\ held'[s].todoWorkflows = held[s].todoWorkflows
      BY <1>6, OpenEffect
    <2>2. held'[s].todoWorkflows = {}
      BY <2>1 DEF HoldsInv, HoldsItsOwn
    <2>3. ASSUME NEW r \in Requests, pc'[r] \in Opening, NEW v \in DOMAIN workflows'
          PROVE  Seen(r, v)'
      BY <1>3, <2>1, <2>2, <2>3, OthersKept
    <2>4. QED
      BY <2>3 DEF WorkflowsSeen
  <1>7. ASSUME NEW s \in Requests, GetOpenWorkflows(s) PROVE WorkflowsSeen'
    <2>1. /\ Others(s) /\ workflows' = workflows /\ body' = body
          /\ held'[s].todoWorkflows = MissingWorkflows(s)
      BY <1>7, ChooseEffect
    <2>2. ASSUME NEW v \in DOMAIN workflows PROVE Seen(s, v)'
      BY <2>1, <2>2 DEF MissingWorkflows, OpenWorkflows, targetOf
    <2>3. ASSUME NEW r \in Requests, pc'[r] \in Opening, NEW v \in DOMAIN workflows'
          PROVE  Seen(r, v)'
      BY <1>3, <2>1, <2>2, <2>3, OthersKept
    <2>4. QED
      BY <2>3 DEF WorkflowsSeen
  <1>8. QED
    BY <1>4, <1>5, <1>6, <1>7, StepKept, ListsKept

-----------------------------------------------------------------------------
(***************************************************************************)
(* Duplicates need overlapping requests.                                   *)
(***************************************************************************)
LEMMA ActionDuplicates ==
    ASSUME TypeOK, HoldsInv, OverlapInv, ActionsMade, ActionsSeen,
           DuplicateActionNeedsOverlap, [Next]_vars
    PROVE  DuplicateActionNeedsOverlap'
  <1> DEFINE Allowed(a, b) ==
             a < b /\ actions[a].target = actions[b].target /\ actions[a].name = actions[b].name
             => \/ <<actions[a].by, actions[b].by>> \in overlap
                \/ /\ actions[a].by = actions[b].by
                   /\ Twice(body[actions[a].by].actions, actions[a].name)
  <1>1. \A a \in DOMAIN actions : actions[a].by \in Requests /\ a \in Nat
    BY ListTypes DEF Lists
  <1>2. ASSUME NEW a \in DOMAIN actions, NEW b \in DOMAIN actions,
               actions'[a] = actions[a], actions'[b] = actions[b]
        PROVE  Allowed(a, b)'
    <2>1. Allowed(a, b) /\ overlap \subseteq overlap'
      BY ListsKept DEF DuplicateActionNeedsOverlap
    <2>2. body'[actions[a].by] = body[actions[a].by]
      <3>1. pc[actions[a].by] \notin Unread
        BY DEF ActionsMade, Unread
      <3>2. body' = body \/ Kept(actions[a].by)
        BY <1>1, StepKept, OpenEffect, ChooseEffect
      <3>3. QED
        BY <3>1, <3>2 DEF Kept, Unread
    <2>3. QED
      BY <1>2, <2>1, <2>2 DEF Twice
  <1>3. ASSUME NEW r \in Requests, AppendAction(r) PROVE DuplicateActionNeedsOverlap'
    <2>1. PICK n, i : NewAction(r, n, i)
      BY <1>3, ActionIsNew
    <2>2. ASSUME NEW a \in DOMAIN actions, actions[a].target = targetOf(r),
                 actions[a].name = body[r].actions[i], <<actions[a].by, r>> \notin overlap
          PROVE  actions[a].by = r /\ Twice(body[r].actions, actions[a].name)
      <3>1. actions[a].by = r
        BY <2>1, <2>2 DEF ActionsSeen, NewAction, Opening, Creating
      <3>2. PICK k \in DOMAIN body[r].actions :
               body[r].actions[k] = actions[a].name /\ k \notin held[r].todo
        BY <3>1 DEF ActionsMade
      <3>3. i \in DOMAIN body[r].actions /\ i # k /\ i \in Nat /\ k \in Nat
        BY <2>1, <3>2, RequestTypes DEF NewAction
      <3>4. i < k \/ k < i
        BY <3>3
      <3>5. QED
        BY <2>2, <3>1, <3>2, <3>3, <3>4 DEF Twice
    <2>3. ASSUME NEW a \in DOMAIN actions PROVE Allowed(a, n)'
      BY <2>1, <2>2, <2>3 DEF NewAction
    <2>4. ASSUME NEW a \in DOMAIN actions' PROVE ~(n < a)
      BY <1>1, <2>1, <2>4 DEF NewAction
    <2>5. ASSUME NEW a \in DOMAIN actions', NEW b \in DOMAIN actions' PROVE Allowed(a, b)'
      BY <1>2, <2>1, <2>3, <2>4, <2>5 DEF NewAction
    <2>6. QED
      BY <2>5 DEF DuplicateActionNeedsOverlap
  <1>4. CASE actions' = actions
    BY <1>2, <1>4 DEF DuplicateActionNeedsOverlap
  <1>5. QED
    BY <1>3, <1>4, ListsKept

LEMMA WorkflowDuplicates ==
    ASSUME TypeOK, HoldsInv, OverlapInv, WorkflowsMade, WorkflowsSeen,
           DuplicateWorkflowNeedsOverlap, [Next]_vars
    PROVE  DuplicateWorkflowNeedsOverlap'
  <1> DEFINE Allowed(v, w) ==
             v < w /\ workflows[v].target = workflows[w].target
                 /\ workflows[v].name = workflows[w].name
             => <<workflows[v].by, workflows[w].by>> \in overlap
  <1>1. \A v \in DOMAIN workflows : v \in Nat
    BY ListTypes DEF Lists
  <1>2. ASSUME NEW v \in DOMAIN workflows, NEW w \in DOMAIN workflows,
               workflows'[v] = workflows[v], workflows'[w] = workflows[w]
        PROVE  Allowed(v, w)'
    BY <1>2, ListsKept DEF DuplicateWorkflowNeedsOverlap
  <1>3. ASSUME NEW r \in Requests, AppendWorkflow(r) PROVE DuplicateWorkflowNeedsOverlap'
    <2>1. PICK n, i : NewWorkflow(r, n, i)
      BY <1>3, WorkflowIsNew
    <2>2. ASSUME NEW v \in DOMAIN workflows, workflows[v].target = targetOf(r),
                 workflows[v].name = body[r].workflows[i], <<workflows[v].by, r>> \notin overlap
          PROVE  FALSE
      <3>1. workflows[v].by = r
        BY <2>1, <2>2 DEF WorkflowsSeen, NewWorkflow, Opening, Creating
      <3>2. PICK k \in DOMAIN body[r].workflows :
               body[r].workflows[k] = workflows[v].name /\ k \notin held[r].todoWorkflows
        BY <3>1 DEF WorkflowsMade
      <3>3. i \in DOMAIN body[r].workflows /\ i # k /\ body[r] \in Body[r]
        BY <2>1, <3>2 DEF NewWorkflow, HoldsInv, HoldsItsOwn
      <3>4. QED
        BY <2>2, <3>2, <3>3, WorkflowsAssumption
    <2>3. ASSUME NEW v \in DOMAIN workflows PROVE Allowed(v, n)'
      BY <2>1, <2>2, <2>3 DEF NewWorkflow
    <2>4. ASSUME NEW v \in DOMAIN workflows' PROVE ~(n < v)
      BY <1>1, <2>1, <2>4 DEF NewWorkflow
    <2>5. ASSUME NEW v \in DOMAIN workflows', NEW w \in DOMAIN workflows' PROVE Allowed(v, w)'
      BY <1>2, <2>1, <2>3, <2>4, <2>5 DEF NewWorkflow
    <2>6. QED
      BY <2>5 DEF DuplicateWorkflowNeedsOverlap
  <1>4. CASE workflows' = workflows
    BY <1>2, <1>4 DEF DuplicateWorkflowNeedsOverlap
  <1>5. QED
    BY <1>3, <1>4, ListsKept

LEMMA ListsInit ==
    Init => /\ OverlapInv /\ ActionsMade /\ WorkflowsMade /\ ActionsSeen /\ WorkflowsSeen
            /\ DuplicateActionNeedsOverlap /\ DuplicateWorkflowNeedsOverlap
  <1> SUFFICES ASSUME Init
               PROVE  /\ OverlapInv /\ ActionsMade /\ WorkflowsMade /\ ActionsSeen
                      /\ WorkflowsSeen
                      /\ DuplicateActionNeedsOverlap /\ DuplicateWorkflowNeedsOverlap
    OBVIOUS
  <1>1. DOMAIN actions = {} /\ DOMAIN workflows = {} /\ InFlight = {}
    BY DEF Init, InFlight, Stages
  <1>2. QED
    BY <1>1
    DEF OverlapInv, ActionsMade, WorkflowsMade, ActionsSeen, WorkflowsSeen,
        DuplicateActionNeedsOverlap, DuplicateWorkflowNeedsOverlap

\* An action is opened twice for a target only by requests that were in flight
\* together, or by one whose package names it twice.
THEOREM ActionsOpenedOnce == Spec => []DuplicateActionNeedsOverlap
  <1> DEFINE Inv == /\ TypeOK /\ HoldsInv /\ OverlapInv /\ ActionsMade /\ ActionsSeen
                    /\ DuplicateActionNeedsOverlap
  <1>1. Init => Inv
    BY TypeInit, ListsInit
  <1>2. Inv /\ [Next]_vars => Inv'
    BY TypeStep, OverlapStep, ActionsMadeStep, ActionsSeenStep, ActionDuplicates
  <1>3. QED
    BY <1>1, <1>2, PTL DEF Spec

\* A workflow is opened twice for a target only by requests that were in flight
\* together.
THEOREM WorkflowsOpenedOnce == Spec => []DuplicateWorkflowNeedsOverlap
  <1> DEFINE Inv == /\ TypeOK /\ HoldsInv /\ OverlapInv /\ WorkflowsMade /\ WorkflowsSeen
                    /\ DuplicateWorkflowNeedsOverlap
  <1>1. Init => Inv
    BY TypeInit, ListsInit
  <1>2. Inv /\ [Next]_vars => Inv'
    BY TypeStep, OverlapStep, WorkflowsMadeStep, WorkflowsSeenStep, WorkflowDuplicates
  <1>3. QED
    BY <1>1, <1>2, PTL DEF Spec

\* Nothing is opened twice but by requests in flight together, whatever they
\* found open when they read the lists.
THEOREM OpenedOnce == Spec => []DuplicatesNeedOverlap
  <1>1. DuplicateActionNeedsOverlap /\ DuplicateWorkflowNeedsOverlap => DuplicatesNeedOverlap
    BY DEF DuplicatesNeedOverlap
  <1>2. QED
    BY <1>1, ActionsOpenedOnce, WorkflowsOpenedOnce, PTL

-----------------------------------------------------------------------------
(***************************************************************************)
(* The index, and what is written to it.                                   *)
(***************************************************************************)
\* What a step changes is in the index, but for what starts and ends a request.
Stays(p) ==
    /\ pc[p] # "idle" => body'[p] = body[p]
    /\ pc[p] = "aborted" => pc'[p] = "aborted"
    /\ pc[p] = "index" =>
           SetAction(p) \/ pc'[p] = "aborted" \/ (pc'[p] = "index" /\ held'[p] = held[p])
    /\ pc[p] = "logSet" =>
           \/ LogUpdatedAction(p) \/ pc'[p] = "aborted"
           \/ pc'[p] = "logSet" /\ held'[p] = held[p]
    /\ pc'[p] = "index" => AppendAction(p) \/ (pc[p] = "index" /\ held'[p] = held[p])
    /\ pc'[p] = "set" /\ body'[p].kind \in {"ack", "complete"} =>
           GetAction(p) \/ (pc[p] = "set" /\ held'[p] = held[p])

LEMMA OthersStay ==
    ASSUME NEW r \in Requests, Others(r)
    PROVE  \A p \in Requests \ {r} : Stays(p)
  BY DEF Others, Stays

LEMMA AllStay ==
    ASSUME TypeOK, HoldsInv, [Next]_vars
    PROVE  \A p \in Requests : Stays(p)
  <1> USE DEF Stays
  <1>1. ASSUME NEW r \in Requests, Begin(r) PROVE Stays(r) /\ Others(r)
    BY <1>1, BeginEffect
  <1>2. ASSUME NEW r \in Requests, GetOpenActions(r) PROVE Stays(r) /\ Others(r)
    BY <1>2, OpenEffect
  <1>3. ASSUME NEW r \in Requests, GetOpenWorkflows(r) PROVE Stays(r) /\ Others(r)
    BY <1>3, ChooseEffect DEF NextStage
  <1>4. ASSUME NEW r \in Requests, AppendAction(r) PROVE Stays(r) /\ Others(r)
    <2>1. PICK n, i : NewAction(r, n, i)
      BY <1>4, ActionIsNew
    <2>2. QED
      BY <1>4, <2>1 DEF NewAction
  <1>5. ASSUME NEW r \in Requests, SetAction(r) PROVE Stays(r) /\ Others(r)
    BY <1>5, SetEffect
  <1>6. ASSUME NEW r \in Requests, LogAction(r) PROVE Stays(r) /\ Others(r)
    BY <1>6, LogEffect DEF NextStage
  <1>7. ASSUME NEW r \in Requests, AppendWorkflow(r) PROVE Stays(r) /\ Others(r)
    <2>1. PICK n, i : NewWorkflow(r, n, i)
      BY <1>7, WorkflowIsNew
    <2>2. QED
      BY <2>1 DEF NewWorkflow
  <1>8. ASSUME NEW r \in Requests, LogWorkflow(r) PROVE Stays(r) /\ Others(r)
    BY <1>8, LogWorkflowEffect DEF NextStage
  <1>9. ASSUME NEW r \in Requests, GetActions(r) PROVE Stays(r) /\ Others(r)
    BY <1>9, CommandEffect DEF Commands
  <1>10. ASSUME NEW r \in Requests, GetAction(r) PROVE Stays(r) /\ Others(r)
    BY <1>10, ReadEffect
  <1>11. ASSUME NEW r \in Requests, SetUpdatedAction(r) PROVE Stays(r) /\ Others(r)
    BY <1>11, UpdateEffect
  <1>12. ASSUME NEW r \in Requests, LogUpdatedAction(r) PROVE Stays(r) /\ Others(r)
    <2>1. PICK w \in held[r].writes :
             /\ Others(r) /\ pc[r] = "logSet" /\ pc'[r] \in {"set", "attach", "answered"}
             /\ pc'[r] = "set" => held[r].writes # {w}
             /\ body' = body
      BY <1>12, LogUpdateEffect
    <2>2. body[r].kind \in {"ack", "complete"} => held[r].writes = {w}
      BY <2>1 DEF HoldsInv, HoldsItsOwn
    <2>3. QED
      BY <1>12, <2>1, <2>2
  <1>13. ASSUME NEW r \in Requests, AttachCommunication(r) PROVE Stays(r) /\ Others(r)
    BY <1>13, AttachEffect
  <1>14. ASSUME Ended, NEW p \in Requests PROVE Stays(p)
    BY <1>14 DEF Ended, Stages
  <1>15. ASSUME UNCHANGED vars, NEW p \in Requests PROVE Stays(p)
    BY <1>15 DEF vars, requestVars
  <1>16. QED
    BY <1>1, <1>2, <1>3, <1>4, <1>5, <1>6, <1>7, <1>8, <1>9, <1>10, <1>11, <1>12, <1>13, <1>14,
       <1>15, EndEffect, OthersStay
    DEF Next, Step, Finished

\* The steps that write to the index, and that every other leaves it.
Entered(r) ==
    \E w \in held[r].writes :
        /\ w.id \in DOMAIN actions
        /\ pc[r] = "index" /\ pc'[r] = "log" /\ index'[w.id] = NewEntry
        /\ \A b \in DOMAIN actions : b # w.id => index'[b] = index[b]
        /\ actions' = actions /\ wrote' = wrote /\ overlap' = overlap

Updated(r) ==
    \E w \in held[r].writes :
        /\ Foremost(w, held[r].writes) /\ w.id \in DOMAIN actions
        /\ pc[r] = "set" /\ pc'[r] = "logSet" /\ index'[w.id] = w.entry
        /\ \A b \in DOMAIN actions : b # w.id => index'[b] = index[b]
        /\ wrote' = wrote \cup {<<r, w.id>>}
        /\ actions' = actions /\ overlap' = overlap /\ held' = held

LEMMA IndexSteps ==
    ASSUME TypeOK, HoldsInv, [Next]_vars
    PROVE  \/ UNCHANGED <<actions, index, wrote>>
           \/ \E r \in Requests : \E n, i : NewAction(r, n, i)
           \/ \E r \in Requests : Entered(r)
           \/ \E r \in Requests : Updated(r)
  <1>1. \/ UNCHANGED <<actions, index, wrote>>
        \/ \E r \in Requests : AppendAction(r) \/ SetAction(r) \/ SetUpdatedAction(r)
    BY EndEffect
    DEF Next, Step, Finished, Ended, Begin, GetOpenActions, GetOpenWorkflows, LogAction,
        AppendWorkflow, LogWorkflow, GetActions, GetAction, LogUpdatedAction,
        AttachCommunication, redisVars, ghostVars, vars
  <1>2. QED
    BY <1>1, ActionIsNew, SetEffect, UpdateEffect DEF Entered, Updated

LEMMA AuditGrows ==
    ASSUME TypeOK, HoldsInv, [Next]_vars
    PROVE  audit \subseteq audit'
  BY EndEffect
  DEF Next, Step, Finished, Ended, Begin, GetOpenActions, GetOpenWorkflows, AppendAction, SetAction,
      LogAction, AppendWorkflow, LogWorkflow, GetActions, GetAction, SetUpdatedAction,
      LogUpdatedAction, AttachCommunication, vars

LEMMA IndexStep ==
    ASSUME TypeOK, HoldsInv, IndexInv, [Next]_vars
    PROVE  IndexInv'
  <1> DEFINE Accounted(a) ==
             index[a] = Unindexed =>
                 \/ pc[actions[a].by] = "aborted"
                 \/ /\ pc[actions[a].by] = "index"
                    /\ \A w \in held[actions[a].by].writes : w.id = a
  <1>1. \A a \in DOMAIN actions : actions[a].by \in Requests /\ Accounted(a)
    BY ListTypes DEF Lists, IndexInv
  <1>2. NewEntry # Unindexed
    BY NewEntryType
  <1>3. ASSUME NEW a \in DOMAIN actions, actions'[a] = actions[a],
               index'[a] = Unindexed => index[a] = Unindexed
        PROVE  Accounted(a)'
    <2>1. SUFFICES ASSUME index'[a] = Unindexed,
                          pc[actions[a].by] = "index",
                          \A w \in held[actions[a].by].writes : w.id = a
                   PROVE  Accounted(a)'
      BY <1>1, <1>3, AllStay DEF Stays
    <2>2. ~SetAction(actions[a].by)
      BY <1>1, <1>2, <2>1, SetEffect
    <2>3. QED
      BY <1>1, <1>3, <2>1, <2>2, AllStay DEF Stays
  <1>4. CASE UNCHANGED <<actions, index, wrote>>
    BY <1>3, <1>4 DEF IndexInv
  <1>5. ASSUME NEW r \in Requests, NEW n, NEW i, NewAction(r, n, i) PROVE IndexInv'
    <2>1. Accounted(n)'
      BY <1>5 DEF NewAction
    <2>2. ASSUME NEW a \in DOMAIN actions PROVE Accounted(a)'
      BY <1>3, <1>5, <2>2 DEF NewAction
    <2>3. ASSUME NEW a \in DOMAIN actions' PROVE Accounted(a)'
      BY <1>5, <2>1, <2>2 DEF NewAction
    <2>4. QED
      BY <2>3 DEF IndexInv
  <1>6. ASSUME NEW r \in Requests, Entered(r) PROVE IndexInv'
    BY <1>2, <1>3, <1>6 DEF Entered, IndexInv
  <1>7. ASSUME NEW r \in Requests, Updated(r) PROVE IndexInv'
    <2>1. \A w \in held[r].writes : w.entry # Unindexed
      BY NewEntryType DEF HoldsInv, HoldsItsOwn
    <2>2. QED
      BY <1>3, <1>7, <2>1 DEF Updated, IndexInv
  <1>8. QED
    BY <1>4, <1>5, <1>6, <1>7, IndexSteps

\* What has been listed or opened stays so.
LEMMA NamesGrow ==
    ASSUME TypeOK, HoldsInv, [Next]_vars
    PROVE  /\ \A t : OpenNames(t) \subseteq OpenNames(t)'
           /\ \A t : OpenWorkflows(t) \subseteq OpenWorkflows(t)'
  <1>1. /\ DOMAIN actions \subseteq DOMAIN actions'
        /\ \A a \in DOMAIN actions : actions'[a] = actions[a]
    <2>1. CASE actions' = actions
      BY <2>1
    <2>2. ASSUME NEW r \in Requests, NEW n, NEW i, NewAction(r, n, i)
          PROVE  /\ DOMAIN actions \subseteq DOMAIN actions'
                 /\ \A a \in DOMAIN actions : actions'[a] = actions[a]
      BY <2>2 DEF NewAction
    <2>3. QED
      BY <2>1, <2>2, ListsKept, ActionIsNew
  <1>2. /\ DOMAIN workflows \subseteq DOMAIN workflows'
        /\ \A v \in DOMAIN workflows : workflows'[v] = workflows[v]
    <2>1. CASE workflows' = workflows
      BY <2>1
    <2>2. ASSUME NEW r \in Requests, NEW n, NEW i, NewWorkflow(r, n, i)
          PROVE  /\ DOMAIN workflows \subseteq DOMAIN workflows'
                 /\ \A v \in DOMAIN workflows : workflows'[v] = workflows[v]
      BY <2>2 DEF NewWorkflow
    <2>3. QED
      BY <2>1, <2>2, ListsKept, WorkflowIsNew
  <1>3. QED
    BY <1>1, <1>2 DEF OpenNames, OpenWorkflows, Listed

LEMMA PackageStep ==
    ASSUME TypeOK, HoldsInv, PackageInv, [Next]_vars
    PROVE  PackageInv'
  <1> DEFINE Read(r) == pc[r] = "getWorkflows" => held[r].open \subseteq OpenNames(targetOf(r))
             Answering(r) == pc[r] \in Creating \cup {"answered"} /\ body[r].kind = "orchestrate"
             ActionsOf(r) == Answering(r) => \A i \in DOMAIN body[r].actions \ held[r].todo :
                                 body[r].actions[i] \in OpenNames(targetOf(r))
             WorkflowsOf(r) == Answering(r) =>
                                 \A i \in DOMAIN body[r].workflows \ held[r].todoWorkflows :
                                     body[r].workflows[i] \in OpenWorkflows(targetOf(r))
  <1>1. \A r \in Requests : Read(r) /\ ActionsOf(r) /\ WorkflowsOf(r)
    BY DEF PackageInv
  <1>2. \A t : OpenNames(t) \subseteq OpenNames(t)' /\ OpenWorkflows(t) \subseteq OpenWorkflows(t)'
    BY NamesGrow
  <1>3. ASSUME NEW r \in Requests, body'[r] = body[r] \/ (Kept(r) /\ pc[r] # "idle"),
               NEW t, t = targetOf(r)
        PROVE  targetOf(r)' = t
    BY <1>3 DEF Kept, targetOf
  <1>4. ASSUME NEW r \in Requests, Kept(r) PROVE Read(r)'
    <2>1. CASE pc'[r] = "getWorkflows"
      <3>1. PICK t : t = targetOf(r)
        OBVIOUS
      <3>2. pc[r] = "getWorkflows" /\ held'[r].open = held[r].open /\ targetOf(r)' = t
        BY <1>3, <1>4, <2>1, <3>1 DEF Kept
      <3>3. held'[r].open \subseteq OpenNames(t)'
        BY <1>1, <1>2, <3>1, <3>2
      <3>4. QED
        BY <3>2, <3>3 DEF OpenNames, Listed
    <2>2. QED
      BY <2>1
  <1>5. ASSUME NEW r \in Requests, Kept(r), Answering(r)',
               held'[r].todo = held[r].todo \/ AppendAction(r),
               held'[r].todoWorkflows = held[r].todoWorkflows \/ AppendWorkflow(r)
        PROVE  ActionsOf(r)' /\ WorkflowsOf(r)'
    <2>1. PICK t : t = targetOf(r)
      OBVIOUS
    <2>2. body'[r] = body[r] /\ targetOf(r)' = t /\ Answering(r)
      BY <1>3, <1>5, <2>1 DEF Kept, Creating
    <2>3. ASSUME NEW i \in DOMAIN body[r].actions, i \notin held'[r].todo
          PROVE  body[r].actions[i] \in OpenNames(t)'
      <3>1. CASE i \notin held[r].todo
        BY <1>1, <1>2, <2>1, <2>2, <2>3, <3>1
      <3>2. CASE i \in held[r].todo
        <4>1. AppendAction(r)
          BY <1>5, <2>3, <3>2
        <4>2. PICK n, k : NewAction(r, n, k)
          BY <4>1, ActionIsNew
        <4>3. i = k
          BY <2>3, <3>2, <4>2 DEF NewAction
        <4>4. QED
          BY <2>1, <4>2, <4>3 DEF NewAction, OpenNames, Listed
      <3>3. QED
        BY <3>1, <3>2
    <2>4. ASSUME NEW i \in DOMAIN body[r].workflows, i \notin held'[r].todoWorkflows
          PROVE  body[r].workflows[i] \in OpenWorkflows(t)'
      <3>1. CASE i \notin held[r].todoWorkflows
        BY <1>1, <1>2, <2>1, <2>2, <2>4, <3>1
      <3>2. CASE i \in held[r].todoWorkflows
        <4>1. AppendWorkflow(r)
          BY <1>5, <2>4, <3>2
        <4>2. PICK n, k : NewWorkflow(r, n, k)
          BY <4>1, WorkflowIsNew
        <4>3. i = k
          BY <2>4, <3>2, <4>2 DEF NewWorkflow
        <4>4. QED
          BY <2>1, <4>2, <4>3 DEF NewWorkflow, OpenWorkflows
      <3>3. QED
        BY <3>1, <3>2
    <2>5. QED
      BY <2>2, <2>3, <2>4 DEF OpenNames, OpenWorkflows, Listed
  <1>6. ASSUME NEW r \in Requests, Kept(r) PROVE ActionsOf(r)' /\ WorkflowsOf(r)'
    BY <1>5, <1>6 DEF Kept
  <1>7. ASSUME NEW s \in Requests, GetOpenActions(s) PROVE PackageInv'
    <2>1. /\ Others(s) /\ pc'[s] = "getWorkflows" /\ body' = body
          /\ actions' = actions /\ held'[s].open = OpenNames(targetOf(s))
      BY <1>7, OpenEffect
    <2>2. Read(s)' /\ ActionsOf(s)' /\ WorkflowsOf(s)'
      BY <2>1 DEF Creating, OpenNames, Listed, targetOf
    <2>3. \A r \in Requests : Read(r)' /\ ActionsOf(r)' /\ WorkflowsOf(r)'
      BY <1>4, <1>6, <2>1, <2>2, OthersKept
    <2>4. QED
      BY <2>3 DEF PackageInv
  <1>8. ASSUME NEW s \in Requests, GetOpenWorkflows(s) PROVE PackageInv'
    <2>1. /\ Others(s) /\ pc[s] = "getWorkflows" /\ pc'[s] # "getWorkflows" /\ body' = body
          /\ actions' = actions /\ workflows' = workflows
          /\ held'[s].todo = Missing(s) /\ held'[s].todoWorkflows = MissingWorkflows(s)
      BY <1>8, ChooseEffect DEF NextStage
    <2>2. held[s].open \subseteq OpenNames(targetOf(s))
      BY <1>1, <2>1
    <2>3. ActionsOf(s)'
      BY <2>1, <2>2 DEF Missing, OpenNames, Listed, targetOf
    <2>4. WorkflowsOf(s)'
      BY <2>1 DEF MissingWorkflows, OpenWorkflows, targetOf
    <2>5. \A r \in Requests : Read(r)' /\ ActionsOf(r)' /\ WorkflowsOf(r)'
      BY <1>4, <1>6, <2>1, <2>3, <2>4, OthersKept
    <2>6. QED
      BY <2>5 DEF PackageInv
  <1>9. CASE \A r \in Requests : Kept(r)
    BY <1>4, <1>6, <1>9 DEF PackageInv
  <1>10. QED
    BY <1>7, <1>8, <1>9, StepKept

\* What a request at its writes holds it has read just now, or held before.
Reads(p) ==
    pc'[p] \in {"set", "logSet"} =>
        /\ body'[p] = body[p]
        /\ \/ GetActions(p) \/ GetAction(p)
           \/ pc[p] \in {"set", "logSet"} /\ held'[p].writes \subseteq held[p].writes

LEMMA OthersRead ==
    ASSUME NEW r \in Requests, Others(r)
    PROVE  \A p \in Requests \ {r} : Reads(p)
  BY DEF Others, Reads

LEMMA AllRead ==
    ASSUME TypeOK, HoldsInv, [Next]_vars
    PROVE  \A p \in Requests : Reads(p)
  <1> USE DEF Reads
  <1>1. ASSUME NEW r \in Requests, Begin(r) PROVE Reads(r) /\ Others(r)
    BY <1>1, BeginEffect
  <1>2. ASSUME NEW r \in Requests, GetOpenActions(r) PROVE Reads(r) /\ Others(r)
    BY <1>2, OpenEffect
  <1>3. ASSUME NEW r \in Requests, GetOpenWorkflows(r) PROVE Reads(r) /\ Others(r)
    BY <1>3, ChooseEffect DEF NextStage
  <1>4. ASSUME NEW r \in Requests, AppendAction(r) PROVE Reads(r) /\ Others(r)
    <2>1. PICK n, i : NewAction(r, n, i)
      BY <1>4, ActionIsNew
    <2>2. QED
      BY <2>1 DEF NewAction
  <1>5. ASSUME NEW r \in Requests, SetAction(r) PROVE Reads(r) /\ Others(r)
    BY <1>5, SetEffect
  <1>6. ASSUME NEW r \in Requests, LogAction(r) PROVE Reads(r) /\ Others(r)
    BY <1>6, LogEffect DEF NextStage
  <1>7. ASSUME NEW r \in Requests, AppendWorkflow(r) PROVE Reads(r) /\ Others(r)
    <2>1. PICK n, i : NewWorkflow(r, n, i)
      BY <1>7, WorkflowIsNew
    <2>2. QED
      BY <2>1 DEF NewWorkflow
  <1>8. ASSUME NEW r \in Requests, LogWorkflow(r) PROVE Reads(r) /\ Others(r)
    BY <1>8, LogWorkflowEffect DEF NextStage
  <1>9. ASSUME NEW r \in Requests, GetActions(r) PROVE Reads(r) /\ Others(r)
    BY <1>9, CommandEffect
  <1>10. ASSUME NEW r \in Requests, GetAction(r) PROVE Reads(r) /\ Others(r)
    BY <1>10, ReadEffect
  <1>11. ASSUME NEW r \in Requests, SetUpdatedAction(r) PROVE Reads(r) /\ Others(r)
    BY <1>11, UpdateEffect
  <1>12. ASSUME NEW r \in Requests, LogUpdatedAction(r) PROVE Reads(r) /\ Others(r)
    BY <1>12, LogUpdateEffect
  <1>13. ASSUME NEW r \in Requests, AttachCommunication(r) PROVE Reads(r) /\ Others(r)
    BY <1>13, AttachEffect
  <1>14. ASSUME Ended, NEW p \in Requests PROVE Reads(p)
    BY <1>14 DEF Ended, Stages
  <1>15. ASSUME UNCHANGED vars, NEW p \in Requests PROVE Reads(p)
    BY <1>15 DEF vars, requestVars
  <1>16. QED
    BY <1>1, <1>2, <1>3, <1>4, <1>5, <1>6, <1>7, <1>8, <1>9, <1>10, <1>11, <1>12, <1>13, <1>14,
       <1>15, EndEffect, OthersRead
    DEF Next, Step, Finished

\* Who wrote to an action has read what it is for, and asks for nothing else.
LEMMA WritersStay ==
    ASSUME TypeOK, HoldsInv, CompletedInv, [Next]_vars, NEW p \in wrote
    PROVE  pc'[p[1]] \notin Unread /\ body'[p[1]] = body[p[1]]
  <1>1. p[1] \in Requests /\ pc[p[1]] \notin Unread
    BY DEF TypeOK, CompletedInv, Unread
  <1>2. pc'[p[1]] \notin Unread
    <2>1. CASE \A q \in Requests : Kept(q)
      BY <1>1, <2>1 DEF Kept
    <2>2. ASSUME NEW r \in Requests, GetOpenActions(r) \/ GetOpenWorkflows(r)
          PROVE  pc'[p[1]] = pc[p[1]]
      BY <1>1, <2>2, OpenEffect, ChooseEffect DEF Others, Unread
    <2>3. QED
      BY <1>1, <2>1, <2>2, StepKept
  <1>3. body'[p[1]] = body[p[1]]
    BY <1>1, AllStay DEF Stays, Unread
  <1>4. QED
    BY <1>2, <1>3

LEMMA CompletedStep ==
    ASSUME TypeOK, HoldsInv, CompletedInv, [Next]_vars
    PROVE  CompletedInv'
  <1> DEFINE Sound(a) == /\ index[a].status = "VERIFIED" => WasCompleted(a)
                         /\ index[a].status = "UNINDEXED" => index[a] = Unindexed
             Sure(r, w) == w.entry.status = "VERIFIED" =>
                               body[r].kind \in Completing \/ WasCompleted(w.id)
  <1>1. /\ \A a \in DOMAIN actions : Sound(a)
        /\ \A r \in Requests : pc[r] \in {"set", "logSet"} =>
              \A w \in held[r].writes : Sure(r, w)
    BY DEF CompletedInv
  <1>2. wrote \subseteq wrote'
    BY IndexSteps DEF NewAction, Entered, Updated
  <1>3. ASSUME NEW a, WasCompleted(a) PROVE WasCompleted(a)'
    <2>1. PICK q \in Requests : <<q, a>> \in wrote /\ body[q].kind \in Completing
      BY <1>3 DEF WasCompleted, Completing
    <2>2. body'[q] = body[q]
      BY <2>1, WritersStay
    <2>3. QED
      BY <1>2, <2>1, <2>2 DEF WasCompleted, Completing
  <1>4. ASSUME NEW a \in DOMAIN actions, index'[a] = index[a] PROVE Sound(a)'
    BY <1>1, <1>3, <1>4 DEF Unindexed
  <1>5. \A p \in wrote' : pc'[p[1]] \notin Unread
    <2>1. ASSUME NEW p \in wrote' PROVE p \in wrote \/ pc'[p[1]] = "logSet"
      <3>1. wrote' = wrote \/ \E r \in Requests : Updated(r)
        BY IndexSteps DEF NewAction, Entered
      <3>2. ASSUME NEW r \in Requests, Updated(r) PROVE p \in wrote \/ pc'[p[1]] = "logSet"
        <4>1. PICK w : pc'[r] = "logSet" /\ wrote' = wrote \cup {<<r, w.id>>}
          BY <3>2 DEF Updated
        <4>2. CASE p = <<r, w.id>>
          BY <4>1, <4>2
        <4>3. QED
          BY <2>1, <4>1, <4>2
      <3>3. QED
        BY <2>1, <3>1, <3>2
    <2>2. QED
      BY <2>1, WritersStay DEF Unread
  <1>6. ASSUME NEW r \in Requests, pc'[r] \in {"set", "logSet"}, NEW w \in held'[r].writes
        PROVE  Sure(r, w)'
    <2>1. body'[r] = body[r]
      BY <1>6, AllRead DEF Reads
    <2>2. CASE GetActions(r)
      BY <1>6, <2>1, <2>2, CommandEffect DEF Completing
    <2>3. CASE GetAction(r)
      <3>1. PICK v \in held'[r].writes :
               /\ \A u \in held'[r].writes : u = v
               /\ v.id \in DOMAIN actions
               /\ v.entry.status = "VERIFIED" =>
                      body[r].kind = "complete" \/ index[v.id].status = "VERIFIED"
        BY <1>6, <2>3, ReadEffect
      <3>2. w = v
        BY <1>6, <3>1
      <3>3. CASE body[r].kind = "complete"
        BY <2>1, <3>3 DEF Completing
      <3>4. CASE index[v.id].status = "VERIFIED"
        BY <1>1, <1>3, <3>1, <3>2, <3>4
      <3>5. QED
        BY <3>1, <3>2, <3>3, <3>4
    <2>4. CASE pc[r] \in {"set", "logSet"} /\ held'[r].writes \subseteq held[r].writes
      <3>1. Sure(r, w)
        BY <1>1, <1>6, <2>4
      <3>2. QED
        BY <1>3, <2>1, <3>1
    <2>5. QED
      BY <1>6, <2>2, <2>3, <2>4, AllRead DEF Reads
  <1>7. ASSUME NEW a \in DOMAIN actions' PROVE Sound(a)'
    <2>1. CASE UNCHANGED <<actions, index, wrote>>
      BY <1>4, <1>7, <2>1
    <2>2. ASSUME NEW r \in Requests, NEW n, NEW i, NewAction(r, n, i) PROVE Sound(a)'
      <3>1. CASE a = n
        BY <2>2, <3>1 DEF NewAction, Unindexed
      <3>2. CASE a # n
        BY <1>4, <1>7, <2>2, <3>2 DEF NewAction
      <3>3. QED
        BY <3>1, <3>2
    <2>3. ASSUME NEW r \in Requests, Entered(r) PROVE Sound(a)'
      <3>1. index'[a] = NewEntry \/ index'[a] = index[a]
        BY <1>7, <2>3 DEF Entered
      <3>2. a \in DOMAIN actions
        BY <1>7, <2>3 DEF Entered
      <3>3. CASE index'[a] = NewEntry
        BY <3>3, NewEntryType
      <3>4. QED
        BY <1>4, <3>1, <3>2, <3>3
    <2>4. ASSUME NEW r \in Requests, Updated(r) PROVE Sound(a)'
      <3>1. PICK w \in held[r].writes :
               /\ pc[r] = "set" /\ index'[w.id] = w.entry
               /\ \A b \in DOMAIN actions : b # w.id => index'[b] = index[b]
               /\ wrote' = wrote \cup {<<r, w.id>>} /\ actions' = actions
        BY <2>4 DEF Updated
      <3>2. w.entry.status # "UNINDEXED" /\ Sure(r, w) /\ body'[r] = body[r]
        BY <1>1, <3>1, AllStay DEF HoldsInv, HoldsItsOwn, Stays
      <3>3. CASE a # w.id
        BY <1>4, <1>7, <3>1, <3>3
      <3>4. CASE a = w.id
        <4>1. CASE body[r].kind \in Completing
          BY <3>1, <3>2, <3>4, <4>1 DEF WasCompleted, Completing
        <4>2. CASE body[r].kind \notin Completing
          BY <1>3, <3>1, <3>2, <3>4, <4>2
        <4>3. QED
          BY <4>1, <4>2
      <3>5. QED
        BY <3>3, <3>4
    <2>5. QED
      BY <2>1, <2>2, <2>3, <2>4, IndexSteps
  <1>8. QED
    BY <1>5, <1>6, <1>7 DEF CompletedInv, Unread

\* An answered response has nothing left to do, and what it found listed or
\* listed itself is pending, completed, or not yet in the index.
LEMMA PackageHolds ==
    ASSUME TypeOK, HoldsInv, IndexInv, PackageInv, CompletedInv
    PROVE  PackageIsOpen
  <1> SUFFICES ASSUME NEW r \in Requests, pc[r] = "answered", body[r].kind = "orchestrate"
               PROVE  /\ \A i \in DOMAIN body[r].actions :
                            body[r].actions[i] \in OpenNames(targetOf(r))
                      /\ \A i \in DOMAIN body[r].workflows :
                            body[r].workflows[i] \in OpenWorkflows(targetOf(r))
                      /\ \A a \in Listed(targetOf(r)) :
                            Pending(a) \/ WasCompleted(a) \/ InTheMaking(a)
    BY DEF PackageIsOpen
  <1>1. held[r].todo = {} /\ held[r].todoWorkflows = {}
    BY DEF HoldsInv, HoldsItsOwn
  <1>2. /\ \A i \in DOMAIN body[r].actions : body[r].actions[i] \in OpenNames(targetOf(r))
        /\ \A i \in DOMAIN body[r].workflows :
              body[r].workflows[i] \in OpenWorkflows(targetOf(r))
    BY <1>1 DEF PackageInv
  <1>3. ASSUME NEW a \in DOMAIN actions PROVE Pending(a) \/ WasCompleted(a) \/ InTheMaking(a)
    <2>1. index[a] \in Entry
      BY ListTypes DEF Lists
    <2>2. CASE index[a].status = "UNINDEXED"
      <3>1. index[a] = Unindexed
        BY <2>2 DEF CompletedInv
      <3>2. QED
        BY <3>1 DEF IndexInv, InTheMaking
    <2>3. CASE index[a].status = "VERIFIED"
      BY <2>3 DEF CompletedInv
    <2>4. QED
      BY <2>1, <2>2, <2>3 DEF Entry, Pending
  <1>4. QED
    BY <1>2, <1>3 DEF Listed

LEMMA IndexInit ==
    ASSUME Init
    PROVE  IndexInv /\ PackageInv /\ CompletedInv /\ AuditInv /\ ProgressWritten /\ ReadsLast
  <1>1. DOMAIN actions = {} /\ wrote = {} /\ \A r \in Requests : pc[r] = "idle"
    BY DEF Init
  <1>2. QED
    BY <1>1 DEF IndexInv, PackageInv, CompletedInv, AuditInv, ProgressWritten, ReadsLast, Creating

\* An answered response leaves every action of its package listed and every
\* workflow open, and an action of its target is pending unless an operator
\* completed it or its creator was not done: for any packages, targets and number
\* of requests, and any order in which commands and buttons write to the index.
THEOREM AnsweredPackageOpen == Spec => []PackageIsOpen
  <1> DEFINE Inv == TypeOK /\ HoldsInv /\ IndexInv /\ PackageInv /\ CompletedInv
  <1>1. Init => Inv
    BY TypeInit, IndexInit
  <1>2. Inv /\ [Next]_vars => Inv'
    BY TypeStep, IndexStep, PackageStep, CompletedStep
  <1>3. Inv => PackageIsOpen
    BY PackageHolds
  <1>4. QED
    BY <1>1, <1>2, <1>3, PTL DEF Spec

-----------------------------------------------------------------------------
(***************************************************************************)
(* Progress is audited and kept.                                           *)
(***************************************************************************)
LEMMA AuditStep ==
    ASSUME TypeOK, HoldsInv, AuditInv, [Next]_vars
    PROVE  AuditInv'
  <1> DEFINE About(p) == /\ pc[p[1]] = "logSet"
                         /\ \A w \in held[p[1]].writes :
                                Foremost(w, held[p[1]].writes) => w.id = p[2]
             Logged(p) == p \in audit \/ pc[p[1]] = "aborted" \/ About(p)
  <1>1. \A p \in wrote : p = <<p[1], p[2]>> /\ p[1] \in Requests /\ Logged(p)
    BY DEF AuditInv, TypeOK
  <1>2. ASSUME NEW p \in wrote PROVE Logged(p)'
    <2>1. CASE p \in audit
      BY <2>1, AuditGrows
    <2>2. CASE pc[p[1]] = "aborted"
      BY <1>1, <2>2, AllStay DEF Stays
    <2>3. CASE About(p)
      <3>1. CASE LogUpdatedAction(p[1])
        BY <1>1, <2>3, <3>1, LogUpdateEffect
      <3>2. CASE ~LogUpdatedAction(p[1])
        BY <1>1, <2>3, <3>2, AllStay DEF Stays
      <3>3. QED
        BY <3>1, <3>2
    <2>4. QED
      BY <1>1, <2>1, <2>2, <2>3
  <1>3. ASSUME NEW r \in Requests, Updated(r) PROVE AuditInv'
    <2>1. PICK w \in held[r].writes :
             /\ Foremost(w, held[r].writes) /\ pc'[r] = "logSet" /\ held' = held
             /\ wrote' = wrote \cup {<<r, w.id>>}
      BY <1>3 DEF Updated
    <2>2. \A v \in held[r].writes : v.id \in Nat
      BY RequestTypes, ListTypes DEF Lists
    <2>3. \A v \in held[r].writes : Foremost(v, held[r].writes) => v.id = w.id
      BY <2>1, <2>2, ForemostIsOne
    <2>4. ASSUME NEW p \in wrote' PROVE Logged(p)'
      BY <1>2, <2>1, <2>3
    <2>5. QED
      BY <2>4 DEF AuditInv
  <1>4. CASE wrote' = wrote
    BY <1>2, <1>4 DEF AuditInv
  <1>5. QED
    BY <1>3, <1>4, IndexSteps DEF NewAction, Entered

\* What was done to an action is on the audit trail, but for what its request is
\* about to log or was aborted before it had logged.
THEOREM ProgressLogged == Spec => []ProgressIsAudited
  <1> DEFINE Inv == TypeOK /\ HoldsInv /\ AuditInv
  <1>1. Init => Inv
    BY TypeInit, IndexInit
  <1>2. Inv /\ [Next]_vars => Inv'
    BY TypeStep, AuditStep
  <1>3. Inv => ProgressIsAudited
    BY DEF AuditInv, ProgressIsAudited
  <1>4. QED
    BY <1>1, <1>2, <1>3, PTL DEF Spec

LEMMA ProgressWrittenStep ==
    ASSUME TypeOK, HoldsInv, OverlapInv, ProgressWritten, [Next]_vars
    PROVE  ProgressWritten'
  <1> DEFINE Known(a) == \/ index[a] \in {Unindexed, NewEntry}
                         \/ \E q \in Requests : <<q, a>> \in wrote
             Making(r) == pc[r] = "index" =>
                 \A w \in held[r].writes : \A q \in Requests :
                     <<q, w.id>> \in wrote => <<q, r>> \in overlap
  <1>1. (\A a \in DOMAIN actions : Known(a)) /\ \A r \in Requests : Making(r)
    BY DEF ProgressWritten
  <1>2. overlap \subseteq overlap'
    BY ListsKept
  <1>3. ASSUME NEW a \in DOMAIN actions, index'[a] = index[a], wrote \subseteq wrote'
        PROVE  Known(a)'
    <2>1. index'[a] \in {Unindexed, NewEntry} \/ \E q \in Requests : <<q, a>> \in wrote'
      BY <1>1, <1>3
    <2>2. QED
      BY <2>1 DEF Unindexed, NewEntry
  <1>4. ASSUME NEW r \in Requests, ~AppendAction(r), wrote' = wrote PROVE Making(r)'
    BY <1>1, <1>2, <1>4, AllStay DEF Stays
  <1>5. CASE UNCHANGED <<actions, index, wrote>>
    <2>1. ASSUME NEW r \in Requests, AppendAction(r) PROVE FALSE
      <3>1. PICK n, i : NewAction(r, n, i)
        BY <2>1, ActionIsNew
      <3>2. QED
        BY <1>5, <3>1 DEF NewAction
    <2>2. QED
      BY <1>3, <1>4, <1>5, <2>1 DEF ProgressWritten, Unindexed, NewEntry
  <1>6. ASSUME NEW r \in Requests, NEW n, NEW i, NewAction(r, n, i) PROVE ProgressWritten'
    <2>1. Known(n)'
      <3>1. index'[n] = Unindexed
        BY <1>6 DEF NewAction
      <3>2. QED
        BY <3>1 DEF Unindexed, NewEntry
    <2>2. \A q : <<q, n>> \notin wrote
      BY <1>6 DEF NewAction, TypeOK
    <2>3. Making(r)'
      BY <1>6, <2>2 DEF NewAction
    <2>4. ASSUME NEW p \in Requests, p # r PROVE Making(p)'
      BY <1>1, <1>2, <1>6, <2>4 DEF NewAction, Others
    <2>5. ASSUME NEW a \in DOMAIN actions' PROVE Known(a)'
      BY <1>3, <1>6, <2>1, <2>5 DEF NewAction
    <2>6. QED
      BY <2>3, <2>4, <2>5 DEF ProgressWritten
  <1>7. ASSUME NEW r \in Requests, Entered(r) PROVE ProgressWritten'
    <2>1. PICK w \in held[r].writes :
             /\ w.id \in DOMAIN actions /\ index'[w.id] = NewEntry
             /\ \A b \in DOMAIN actions : b # w.id => index'[b] = index[b]
             /\ actions' = actions /\ wrote' = wrote
      BY <1>7 DEF Entered
    <2>2. ASSUME NEW p \in Requests, AppendAction(p) PROVE FALSE
      <3>1. PICK n, i : NewAction(p, n, i)
        BY <2>2, ActionIsNew
      <3>2. QED
        BY <2>1, <3>1 DEF NewAction
    <2>3. Known(w.id)'
      BY <2>1 DEF Unindexed, NewEntry
    <2>4. QED
      BY <1>3, <1>4, <2>1, <2>2, <2>3 DEF ProgressWritten
  <1>8. ASSUME NEW r \in Requests, Updated(r) PROVE ProgressWritten'
    <2>1. PICK w \in held[r].writes :
             /\ w.id \in DOMAIN actions /\ pc[r] = "set" /\ pc'[r] = "logSet" /\ held' = held
             /\ \A b \in DOMAIN actions : b # w.id => index'[b] = index[b]
             /\ actions' = actions /\ wrote' = wrote \cup {<<r, w.id>>}
      BY <1>8 DEF Updated
    <2>2. ASSUME NEW p \in Requests, AppendAction(p) PROVE FALSE
      <3>1. PICK n, i : NewAction(p, n, i)
        BY <2>2, ActionIsNew
      <3>2. QED
        BY <2>1, <3>1 DEF NewAction
    <2>3. Known(w.id)'
      BY <2>1
    <2>4. ASSUME NEW p \in Requests PROVE Making(p)'
      <3>1. SUFFICES ASSUME pc[p] = "index" PROVE Making(p)'
        BY <2>2, AllStay DEF Stays
      <3>2. r \in InFlight /\ p \in InFlight /\ r # p
        BY <2>1, <3>1 DEF InFlight, Stages
      <3>3. <<r, p>> \in overlap
        BY <3>2 DEF OverlapInv
      <3>4. QED
        BY <1>1, <1>2, <2>1, <3>1, <3>3
    <2>5. QED
      BY <1>3, <2>1, <2>3, <2>4 DEF ProgressWritten
  <1>9. QED
    BY <1>5, <1>6, <1>7, <1>8, IndexSteps

LEMMA ReadsLastStep ==
    ASSUME TypeOK, HoldsInv, OverlapInv, ReadsLast, [Next]_vars
    PROVE  ReadsLast'
  <1> DEFINE Sure(r, w) == \/ ~Less(index[w.id], w.entry)
                           \/ \E q \in Requests : <<q, w.id>> \in wrote /\ <<q, r>> \in overlap
             Operates(r) == pc[r] = "set" /\ body[r].kind \in {"ack", "complete"}
  <1>1. \A r \in Requests : Operates(r) => \A w \in held[r].writes : Sure(r, w)
    BY DEF ReadsLast
  <1>2. overlap \subseteq overlap'
    BY ListsKept
  <1>3. ASSUME NEW r \in Requests, GetAction(r), Operates(r)', NEW v \in held'[r].writes
        PROVE  Sure(r, v)'
    <2>1. PICK w \in held'[r].writes :
             /\ \A u \in held'[r].writes : u = w
             /\ ~Less(index[w.id], w.entry) /\ index' = index
      BY <1>3, ReadEffect
    <2>2. v = w
      BY <2>1
    <2>3. QED
      BY <2>1, <2>2 DEF Less
  <1>4. ASSUME NEW r \in Requests, Operates(r)', ~GetAction(r),
               NEW w \in held'[r].writes
        PROVE  Sure(r, w)'
    <2>1. pc[r] = "set" /\ held'[r] = held[r] /\ body'[r] = body[r]
      BY <1>4, AllStay DEF Stays
    <2>2. w \in held[r].writes /\ w.id \in DOMAIN actions /\ w.entry \in Entry
      BY <2>1, RequestTypes
    <2>3. Sure(r, w)
      BY <1>1, <1>4, <2>1, <2>2
    <2>4. ASSUME index'[w.id] = index[w.id], wrote \subseteq wrote' PROVE Sure(r, w)'
      BY <1>2, <2>3, <2>4 DEF Less
    <2>5. ASSUME NEW s \in Requests, Entered(s) PROVE Sure(r, w)'
      <3>1. CASE index'[w.id] = NewEntry
        <4>1. ~Less(NewEntry, w.entry)
          BY <2>2, ChangeKeeps
        <4>2. QED
          BY <3>1, <4>1 DEF Less
      <3>2. QED
        BY <2>2, <2>4, <2>5, <3>1 DEF Entered
    <2>6. ASSUME NEW s \in Requests, Updated(s) PROVE Sure(r, w)'
      <3>1. s # r
        BY <1>4, <2>6 DEF Updated
      <3>2. <<s, r>> \in overlap
        BY <2>1, <2>6, <3>1 DEF OverlapInv, InFlight, Stages, Updated
      <3>3. CASE <<s, w.id>> \in wrote'
        BY <1>2, <3>2, <3>3
      <3>4. QED
        BY <2>2, <2>4, <2>6, <3>3 DEF Updated
    <2>7. ASSUME NEW s \in Requests, NEW n, NEW i, NewAction(s, n, i) PROVE Sure(r, w)'
      BY <2>2, <2>4, <2>7 DEF NewAction
    <2>8. CASE UNCHANGED <<actions, index, wrote>>
      BY <2>4, <2>8
    <2>9. QED
      BY <2>5, <2>6, <2>7, <2>8, IndexSteps
  <1>5. QED
    BY <1>3, <1>4 DEF ReadsLast

\* A step that takes progress from an action is a command's, or that of a request
\* another wrote to the action beside.
LEMMA KeepsProgress ==
    ASSUME TypeOK, HoldsInv, ProgressWritten, ReadsLast, [Next]_vars,
           NEW a \in DOMAIN actions, Less(index[a], index'[a])
    PROVE  \E r \in Requests :
               /\ pc[r] \in {"index", "set"} /\ pc'[r] # pc[r]
               /\ \/ body[r].kind \in {"done", "escalate"}
                  \/ \E q \in Requests : <<q, a>> \in wrote /\ <<q, r>> \in overlap
  <1>1. index'[a] # index[a]
    BY DEF Less
  <1>2. ASSUME NEW r \in Requests, Entered(r)
        PROVE  /\ pc[r] = "index" /\ pc'[r] # pc[r]
               /\ \E q \in Requests : <<q, a>> \in wrote /\ <<q, r>> \in overlap
    <2>1. PICK w \in held[r].writes :
             /\ pc[r] = "index" /\ pc'[r] = "log" /\ index'[w.id] = NewEntry
             /\ \A b \in DOMAIN actions : b # w.id => index'[b] = index[b]
      BY <1>2 DEF Entered
    <2>2. w.id = a
      BY <1>1, <2>1
    <2>3. index[a] \notin {Unindexed, NewEntry}
      BY <2>1, <2>2, ChangeKeeps, NewEntryType
    <2>4. PICK q \in Requests : <<q, a>> \in wrote
      BY <2>3 DEF ProgressWritten
    <2>5. <<q, r>> \in overlap
      BY <2>1, <2>2, <2>4 DEF ProgressWritten
    <2>6. QED
      BY <2>1, <2>4, <2>5
  <1>3. ASSUME NEW r \in Requests, Updated(r)
        PROVE  /\ pc[r] = "set" /\ pc'[r] # pc[r]
               /\ \/ body[r].kind \in {"done", "escalate"}
                  \/ \E q \in Requests : <<q, a>> \in wrote /\ <<q, r>> \in overlap
    <2>1. PICK w \in held[r].writes :
             /\ pc[r] = "set" /\ pc'[r] = "logSet" /\ index'[w.id] = w.entry
             /\ \A b \in DOMAIN actions : b # w.id => index'[b] = index[b]
      BY <1>3 DEF Updated
    <2>2. w.id = a
      BY <1>1, <2>1
    <2>3. body[r].kind \in Kinds /\ body[r].kind # "orchestrate"
      BY <2>1, RequestTypes, BodyTypes DEF HoldsInv, HoldsItsOwn, Changing
    <2>4. CASE body[r].kind \in {"ack", "complete"}
      BY <2>1, <2>2, <2>4 DEF ReadsLast
    <2>5. QED
      BY <2>1, <2>3, <2>4 DEF Kinds, Commands
  <1>4. PICK r \in Requests : Entered(r) \/ Updated(r)
    BY <1>1, IndexSteps DEF NewAction
  <1>5. QED
    BY <1>2, <1>3, <1>4

\* An action loses progress only to a command that writes a list entry over it,
\* or to a request in flight with one that made that progress.
THEOREM ProgressOfActionsKept == Spec => ProgressIsKept
  <1> DEFINE Inv == TypeOK /\ HoldsInv /\ OverlapInv /\ ProgressWritten /\ ReadsLast
             Keeps == \A a \in DOMAIN actions :
                          Less(index[a], index'[a]) =>
                              \E r \in Requests :
                                  /\ pc[r] \in {"index", "set"} /\ pc'[r] # pc[r]
                                  /\ \/ body[r].kind \in {"done", "escalate"}
                                     \/ \E q \in Requests :
                                            <<q, a>> \in wrote /\ <<q, r>> \in overlap
  <1>1. Init => Inv
    BY TypeInit, IndexInit, ListsInit
  <1>2. Inv /\ [Next]_vars => Inv'
    BY TypeStep, OverlapStep, ProgressWrittenStep, ReadsLastStep
  <1>3. Inv /\ [Next]_vars => [Keeps]_vars
    BY KeepsProgress
  <1>4. QED
    BY <1>1, <1>2, <1>3, PTL DEF Spec, ProgressIsKept

=============================================================================
