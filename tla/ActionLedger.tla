---------------------------- MODULE ActionLedger ----------------------------
(***************************************************************************)
(* ActionOrchestrator and OperationsRepository: the actions and workflows  *)
(* a reading or a custody incident opens, and what operators do with them  *)
(* through POST /actions/:id/complete and the WhatsApp commands.           *)
(*                                                                         *)
(* An action is stored twice: in the list uld:<t>:actions, whose entries   *)
(* are never changed again, and in the hash actions:index, where its       *)
(* progress is written.  Whether an action is already open is judged on    *)
(* the list; complete and acknowledge change the index entry they read;    *)
(* the commands /done and /escalate write list entries over the index.     *)
(*                                                                         *)
(* The route of the commands calls extractTargetId, which is defined       *)
(* nowhere in the repository: a command ends the process before it reaches *)
(* the orchestrator.  The methods behind it are modelled for a build that  *)
(* has the function too.                                                   *)
(***************************************************************************)
EXTENDS Naturals, Sequences, FiniteSets

CONSTANTS
    Targets,        \* ULD and cargo ids
    ActionNames,    \* the actions of decision.js and of a custody incident
    WorkflowNames,  \* and their workflows
    Requests,       \* calls of the orchestrator, operator requests, commands
    Body,           \* the content of each may be any member of Body[r]
    Builds,         \* is extractTargetId defined? {FALSE} at this commit
    MaxInFlight,    \* bound: requests handled at a time
    MaxFailures     \* bound: rejected audit inserts and crashes

Commands == {"ack", "done", "escalate"}
Kinds == {"orchestrate", "complete"} \cup Commands

\* actions and workflows are the templates of a decision package, in order.
\* complete names an action, the others a target.
RequestBody == [kind : Kinds, target : Targets, actions : Seq(ActionNames),
                workflows : Seq(WorkflowNames)]

ASSUME RequestsAssumption ==
    \A r \in Requests : Body[r] # {} /\ \A b \in Body[r] : b \in RequestBody
\* No package names a workflow twice, as some name an action.
ASSUME WorkflowsAssumption ==
    \A r \in Requests : \A b \in Body[r] : \A i, j \in DOMAIN b.workflows :
        b.workflows[i] = b.workflows[j] => i = j
ASSUME BuildsAssumption == Builds \subseteq BOOLEAN
ASSUME InFlightAssumption == MaxInFlight \in Nat \ {0} /\ MaxFailures \in Nat

VARIABLES
    parses,     \* the build
    pc,         \* pc[r]: the awaited call of request r
    body,       \* body[r]: what r asks for
    held,       \* held[r]: what r has read and still has to do
    actions,    \* every action pushed to a list, in order; its number is its id
    index,      \* index[a]: the entry of a in actions:index
    workflows,  \* every workflow pushed, in order
    audit,      \* pairs of a request and an action it has logged a change of
    failures,   \* rejections and crashes so far
    wrote,      \* observation: pairs of a request and an action it has changed,
    overlap     \* and the pairs of requests in flight together

requestVars == <<pc, body, held>>
redisVars == <<actions, index, workflows>>
ghostVars == <<wrote, overlap>>
vars == <<parses, requestVars, redisVars, audit, failures, ghostVars>>

Action == [target : Targets, name : ActionNames, by : Requests]
Workflow == [target : Targets, name : WorkflowNames, by : Requests]

Entry == [status : {"UNINDEXED", "ASSIGNED", "IN_PROGRESS", "VERIFIED"},
          acknowledged : BOOLEAN, escalated : BOOLEAN]
Unindexed == [status |-> "UNINDEXED", acknowledged |-> FALSE, escalated |-> FALSE]

\* What persistAction stores, and what the list holds for ever.
NewEntry == [Unindexed EXCEPT !.status = "ASSIGNED"]

\* Of its package a request holds the positions it still has to create, which it
\* takes first to last; of its writes, which it takes newest action first, ids
\* and entries.
Held(ids) == [open : SUBSET ActionNames, todo : SUBSET Nat, todoWorkflows : SUBSET Nat,
              writes : SUBSET [id : ids, entry : Entry]]
Nothing == [open |-> {}, todo |-> {}, todoWorkflows |-> {}, writes |-> {}]

Stages == {"getActions", "getWorkflows", "push", "index", "log", "openWorkflow",
           "logWorkflow", "getAction", "set", "logSet", "attach"}

TypeOK ==
    /\ parses \in BOOLEAN
    /\ pc \in [Requests -> Stages \cup {"idle", "answered", "aborted"}]
    /\ body \in [Requests -> RequestBody]
    /\ held \in [Requests -> Held(DOMAIN actions)]
    /\ actions \in Seq(Action)
    /\ index \in [DOMAIN actions -> Entry]
    /\ workflows \in Seq(Workflow)
    /\ audit \subseteq Requests \X DOMAIN actions
    /\ wrote \subseteq Requests \X DOMAIN actions
    /\ failures \in 0 .. MaxFailures
    /\ overlap \subseteq Requests \X Requests

Init ==
    /\ parses \in Builds
    /\ pc = [r \in Requests |-> "idle"]
    /\ body = [r \in Requests |-> CHOOSE b \in Body[r] : TRUE]  \* until Begin
    /\ held = [r \in Requests |-> Nothing]
    /\ actions = <<>> /\ index = <<>> /\ workflows = <<>>
    /\ audit = {} /\ failures = 0
    /\ wrote = {} /\ overlap = {}

InFlight == {r \in Requests : pc[r] \in Stages}
targetOf(r) == body[r].target
GoTo(r, here, next) == pc[r] = here /\ pc' = [pc EXCEPT ![r] = next]
-----------------------------------------------------------------------------
\* getActions: the list of a target, whose entries are all as they were made.
Listed(t) == {a \in DOMAIN actions : actions[a].target = t}
OpenNames(t) == {actions[a].name : a \in Listed(t)}
OpenWorkflows(t) == {workflows[w].name : w \in {v \in DOMAIN workflows : workflows[v].target = t}}

\* Of a list, newest first, of which all entries count as open, the first.
Newest(S) == {a \in S : \A b \in S : b <= a}

\* Of a package, the template that comes next.
First(i, todo) == i \in todo /\ \A k \in todo : i <= k

\* The write that comes next.
Foremost(write, writes) == write \in writes /\ \A w \in writes : w.id <= write.id

\* Mutant of Missing: an action that was verified counts as missing.
MissingUnlessOpen(r) ==
    {i \in DOMAIN body[r].actions :
        ~ \E a \in Listed(targetOf(r)) :
            actions[a].name = body[r].actions[i] /\ index[a].status # "VERIFIED"}

\* The templates of the package that are not in the list that was read.
Missing(r) == {i \in DOMAIN body[r].actions : body[r].actions[i] \notin held[r].open}

MissingWorkflows(r) ==
    {i \in DOMAIN body[r].workflows : body[r].workflows[i] \notin OpenWorkflows(targetOf(r))}

\* Where orchestrate goes when no action is left to create.
NextStage(todo, todoWorkflows) ==
    IF todo # {} THEN "push" ELSE IF todoWorkflows # {} THEN "openWorkflow" ELSE "answered"

Write(a, entry) == [id |-> a, entry |-> entry]

Begin(r) ==
    /\ Cardinality(InFlight) < MaxInFlight
    /\ pc[r] = "idle"
    /\ \E b \in Body[r] :
          /\ body' = [body EXCEPT ![r] = b]
          /\ pc' = [pc EXCEPT ![r] = IF b.kind = "complete" THEN "getAction" ELSE "getActions"]
    /\ overlap' = overlap \cup ({r} \X InFlight) \cup (InFlight \X {r})
    /\ UNCHANGED <<parses, held, redisVars, audit, failures, wrote>>

\* orchestrate and orchestrateCargoIncident read the actions of the target ...
GetOpenActions(r) ==
    /\ body[r].kind = "orchestrate"
    /\ GoTo(r, "getActions", "getWorkflows")
    /\ held' = [held EXCEPT ![r].open = OpenNames(targetOf(r))]
    /\ UNCHANGED <<parses, body, redisVars, audit, failures, ghostVars>>

\* ... and its workflows, and have all they need to know what to create.
GetOpenWorkflows(r) ==
    /\ GoTo(r, "getWorkflows", NextStage(Missing(r), MissingWorkflows(r)))
    /\ held' = [held EXCEPT ![r].todo = Missing(r),
                            ![r].todoWorkflows = MissingWorkflows(r), ![r].open = {}]
    /\ UNCHANGED <<parses, body, redisVars, audit, failures, ghostVars>>

\* persistAction: the list,
AppendAction(r) ==
    /\ GoTo(r, "push", "index")
    /\ \E i \in held[r].todo :
          /\ First(i, held[r].todo)
          /\ actions' = Append(actions, [target |-> targetOf(r), name |-> body[r].actions[i],
                                         by |-> r])
          /\ held' = [held EXCEPT ![r].todo = @ \ {i},
                                  ![r].writes = {Write(Len(actions) + 1, NewEntry)}]
    /\ index' = Append(index, Unindexed)
    /\ UNCHANGED <<parses, body, workflows, audit, failures, ghostVars>>

\* the index and the timeline,
SetAction(r) ==
    /\ GoTo(r, "index", "log")
    /\ \E w \in held[r].writes : index' = [index EXCEPT ![w.id] = w.entry]
    /\ UNCHANGED <<parses, body, held, actions, workflows, audit, failures, ghostVars>>

\* and the audit event, after which the next action follows.
LogAction(r) ==
    /\ GoTo(r, "log", NextStage(held[r].todo, held[r].todoWorkflows))
    /\ \E w \in held[r].writes : audit' = audit \cup {<<r, w.id>>}
    /\ held' = [held EXCEPT ![r].writes = {}]
    /\ UNCHANGED <<parses, body, redisVars, failures, ghostVars>>

\* persistWorkflow.  Nothing reads the index of workflows to change it.
AppendWorkflow(r) ==
    /\ GoTo(r, "openWorkflow", "logWorkflow")
    /\ \E i \in held[r].todoWorkflows :
          /\ First(i, held[r].todoWorkflows)
          /\ workflows' = Append(workflows, [target |-> targetOf(r),
                                             name |-> body[r].workflows[i], by |-> r])
          /\ held' = [held EXCEPT ![r].todoWorkflows = @ \ {i}]
    /\ UNCHANGED <<parses, body, actions, index, audit, failures, ghostVars>>

LogWorkflow(r) ==
    /\ GoTo(r, "logWorkflow", NextStage({}, held[r].todoWorkflows))
    /\ UNCHANGED <<parses, body, held, redisVars, audit, failures, ghostVars>>
-----------------------------------------------------------------------------
Completed(entry) == [entry EXCEPT !.status = "VERIFIED"]
Escalated(entry) == [entry EXCEPT !.escalated = TRUE]

\* Mutant of Acknowledged: the status is not looked at.
AcknowledgedAlways(entry) == [entry EXCEPT !.status = "IN_PROGRESS", !.acknowledged = TRUE]

\* Mutant of Acknowledged: the branches of the conditional are swapped.
AcknowledgedSwapped(entry) ==
    [entry EXCEPT !.status = IF @ = "VERIFIED" THEN "IN_PROGRESS" ELSE "VERIFIED",
                  !.acknowledged = TRUE]

Acknowledged(entry) ==
    [entry EXCEPT !.status = IF @ = "VERIFIED" THEN @ ELSE "IN_PROGRESS", !.acknowledged = TRUE]

\* How a request goes on when it has written what it had to.
AfterWrites(r, writes) ==
    IF writes # {} THEN "set" ELSE IF body[r].kind = "complete" THEN "answered" ELSE "attach"

\* getActions for a command, which works on the first entry of the list or,
\* for /escalate, on all of them.  Each entry says ASSIGNED.
GetActions(r) ==
    LET kind == body[r].kind
        listed == Listed(targetOf(r))
        chosen == IF kind = "escalate" THEN listed ELSE Newest(listed)
        written == IF kind = "escalate" THEN Escalated(NewEntry)
                   ELSE IF kind = "done" THEN Completed(NewEntry) ELSE NewEntry
        writes == {Write(a, written) : a \in chosen}
    IN  /\ kind \in Commands /\ parses
        /\ GoTo(r, "getActions", IF kind = "ack" /\ writes # {} THEN "getAction"
                                 ELSE AfterWrites(r, writes))
        /\ held' = [held EXCEPT ![r].writes = writes]
        /\ UNCHANGED <<parses, body, redisVars, audit, failures, ghostVars>>

\* getAction of acknowledgeAction, which may find nothing in the index, and of
\* completeAction for an action the operator was shown, or none: 404.
GetAction(r) ==
    /\ \/ /\ body[r].kind = "ack"
          /\ \E w \in held[r].writes :
                LET found == index[w.id] # Unindexed
                    writes == IF found THEN {Write(w.id, Acknowledged(index[w.id]))} ELSE {}
                IN  /\ GoTo(r, "getAction", AfterWrites(r, writes))
                    /\ held' = [held EXCEPT ![r].writes = writes]
       \/ /\ body[r].kind = "complete"
          /\ \E a \in Listed(targetOf(r)) :
                /\ index[a] # Unindexed
                /\ GoTo(r, "getAction", "set")
                /\ held' = [held EXCEPT ![r].writes = {Write(a, Completed(index[a]))}]
       \/ /\ body[r].kind = "complete"
          /\ GoTo(r, "getAction", "answered")
          /\ UNCHANGED held
    /\ UNCHANGED <<parses, body, redisVars, audit, failures, ghostVars>>

\* setAction and the timeline, of persistUpdatedAction or completeAction.
SetUpdatedAction(r) ==
    /\ GoTo(r, "set", "logSet")
    /\ \E w \in held[r].writes :
          /\ Foremost(w, held[r].writes)
          /\ index' = [index EXCEPT ![w.id] = w.entry]
          /\ wrote' = wrote \cup {<<r, w.id>>}
    /\ UNCHANGED <<parses, body, held, actions, workflows, audit, failures, overlap>>

\* Mutant of LogUpdatedAction: only the first change of a request is logged.
LogFirstUpdate(r) ==
    /\ \E w \in held[r].writes :
          /\ Foremost(w, held[r].writes)
          /\ GoTo(r, "logSet", AfterWrites(r, held[r].writes \ {w}))
          /\ audit' = IF \E a \in DOMAIN actions : <<r, a>> \in audit THEN audit
                      ELSE audit \cup {<<r, w.id>>}
          /\ held' = [held EXCEPT ![r].writes = @ \ {w}]
    /\ UNCHANGED <<parses, body, redisVars, failures, ghostVars>>

\* Its audit event; an escalation goes on with the next action.
LogUpdatedAction(r) ==
    /\ \E w \in held[r].writes :
          /\ Foremost(w, held[r].writes)
          /\ GoTo(r, "logSet", AfterWrites(r, held[r].writes \ {w}))
          /\ audit' = audit \cup {<<r, w.id>>}
          /\ held' = [held EXCEPT ![r].writes = @ \ {w}]
    /\ UNCHANGED <<parses, body, redisVars, failures, ghostVars>>

\* attachCommunicationEvent, and the 202 answer of the command.
AttachCommunication(r) ==
    /\ GoTo(r, "attach", "answered")
    /\ UNCHANGED <<parses, body, held, redisVars, audit, failures, ghostVars>>

\* The audit insert of a reading's orchestration is rejected: MqttConsumer
\* catches it, and the rest of the package is not created.
Reject(r) ==
    /\ failures < MaxFailures
    /\ failures' = failures + 1
    /\ pc[r] \in {"log", "logWorkflow"}
    /\ pc' = [pc EXCEPT ![r] = "aborted"]
    /\ held' = [held EXCEPT ![r] = Nothing]
    /\ UNCHANGED <<parses, body, redisVars, audit, ghostVars>>

\* The process ends, with every request in flight.  Redis keeps what it has.
EndProcess ==
    /\ pc' = [r \in Requests |-> IF r \in InFlight THEN "aborted" ELSE pc[r]]
    /\ held' = [r \in Requests |-> Nothing]
    /\ UNCHANGED <<parses, body, redisVars, audit, ghostVars>>

\* The route of the commands throws, after it has recorded the message.
FailCommand(r) ==
    /\ body[r].kind \in Commands /\ ~parses
    /\ pc[r] = "getActions"
    /\ EndProcess
    /\ UNCHANGED failures

\* For any other reason, as the insert of a request that is rejected and that
\* no route catches.
Crash ==
    /\ failures < MaxFailures
    /\ failures' = failures + 1
    /\ EndProcess

Step(r) ==
    \/ GetOpenActions(r) \/ GetOpenWorkflows(r)
    \/ AppendAction(r) \/ SetAction(r) \/ LogAction(r)
    \/ AppendWorkflow(r) \/ LogWorkflow(r)
    \/ GetActions(r) \/ GetAction(r)
    \/ SetUpdatedAction(r) \/ LogUpdatedAction(r) \/ AttachCommunication(r)

Finished ==
    /\ \A r \in Requests : pc[r] \in {"answered", "aborted"}
    /\ UNCHANGED vars

Next ==
    \/ \E r \in Requests : Begin(r) \/ Step(r) \/ Reject(r) \/ FailCommand(r)
    \/ Crash
    \/ Finished

Spec == Init /\ [][Next]_vars
-----------------------------------------------------------------------------
Twice(names, name) == \E i, j \in DOMAIN names : i < j /\ names[i] = name /\ names[j] = name

\* An action is opened twice for a target only by requests that overlapped, or
\* by one whose package names it twice.  It follows that an action that was
\* verified is not opened again either.
DuplicateActionNeedsOverlap ==
    \A a, b \in DOMAIN actions :
        /\ a < b
        /\ actions[a].target = actions[b].target /\ actions[a].name = actions[b].name
        => \/ <<actions[a].by, actions[b].by>> \in overlap
           \/ /\ actions[a].by = actions[b].by
              /\ Twice(body[actions[a].by].actions, actions[a].name)

\* The same of workflows.
DuplicateWorkflowNeedsOverlap ==
    \A v, w \in DOMAIN workflows :
        /\ v < w
        /\ workflows[v].target = workflows[w].target /\ workflows[v].name = workflows[w].name
        => <<workflows[v].by, workflows[w].by>> \in overlap

\* Nothing is opened twice, although what is open is read before what is
\* missing is created: only requests that overlap duplicate an action or a
\* workflow.
DuplicatesNeedOverlap == DuplicateActionNeedsOverlap /\ DuplicateWorkflowNeedsOverlap

\* An operator completed a, with its button or with /done.
WasCompleted(a) ==
    \E q \in Requests : <<q, a>> \in wrote /\ body[q].kind \in {"complete", "done"}

\* The creator of a has listed it and is about to write it into the index, or
\* was stopped there for ever.
InTheMaking(a) == index[a] = Unindexed /\ pc[actions[a].by] \in {"index", "aborted"}

Pending(a) == index[a].status \in {"ASSIGNED", "IN_PROGRESS"}

\* An answered orchestration leaves every action of its package listed and its
\* workflows open, even if others were to create them.  What is
\* listed is pending, unless an operator completed it or its creator is not
\* done yet: no acknowledgement, escalation or reading closes an action, in
\* whatever order their reads and writes come.  It is not promised that something is pending: an
\* action that was completed is not opened again by a later breach, which is
\* answered with what it finds listed.
PackageIsOpen ==
    \A r \in Requests :
        pc[r] = "answered" /\ body[r].kind = "orchestrate"
        => /\ \A i \in DOMAIN body[r].actions : body[r].actions[i] \in OpenNames(targetOf(r))
           /\ \A i \in DOMAIN body[r].workflows : body[r].workflows[i] \in OpenWorkflows(targetOf(r))
           /\ \A a \in Listed(targetOf(r)) : Pending(a) \/ WasCompleted(a) \/ InTheMaking(a)

\* An action loses progress only to a command that writes a list entry over
\* it, /escalate or /done, or to a request that overlapped the one that made
\* it: its creation among them, which lists an action before it indexes it.
Less(before, after) ==
    \/ before.status = "VERIFIED" /\ after.status # "VERIFIED"
    \/ before.acknowledged /\ ~after.acknowledged
    \/ before.escalated /\ ~after.escalated

ProgressIsKept ==
    [][\A a \in DOMAIN actions :
          Less(index[a], index'[a]) =>
              \E r \in Requests :
                  /\ pc[r] \in {"index", "set"} /\ pc'[r] # pc[r]
                  /\ \/ body[r].kind \in {"done", "escalate"}
                     \/ \E q \in Requests : <<q, a>> \in wrote /\ <<q, r>> \in overlap]_vars

\* What was done to an action is on the audit trail, but for what its request
\* is about to log or could not log because it was aborted.
ProgressIsAudited ==
    \A p \in wrote : p \in audit \/ pc[p[1]] \in {"logSet", "aborted"}
=============================================================================
