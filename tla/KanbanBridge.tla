----------------------------- MODULE KanbanBridge -----------------------------
(***************************************************************************)
(* Clients work on the Kanban boards of a Hermes host through the Router   *)
(* (kanbanBridgeAdapter.ts, handleKanbanBridge).  A request is planned: an *)
(* operation, the permission it needs and one call to the host.  The call  *)
(* is made at most once, its answer may be lost, and what the host answers *)
(* is projected before a client sees it.  The host's own dispatcher and    *)
(* workers move tasks as well.                                             *)
(***************************************************************************)
EXTENDS Naturals, FiniteSets

CONSTANTS
    KanbanRequests,  \* requests of clients
    Tasks,           \* ids of tasks
    Grants,          \* what the clients' tokens permit: sets of permissions
    MaxMoves         \* bound on what happens at the host itself

VARIABLES
    tasks,    \* task -> its status at the host, "none" if it is not there
    links,    \* pairs of a task and one that depends on it
    kanban,   \* request -> what it asks, what was called, what was answered
    moves     \* changes made at the host itself

kanbanVars == <<tasks, links, kanban, moves>>

ASSUME KanbanConstantsAssumption ==
    MaxMoves \in Nat /\ Grants \subseteq SUBSET {"read", "write", "execute"}

(* MOVABLE_TASK_STATUSES: those a client may give a task *)
Movable == {"triage", "todo", "ready"}
Statuses == Movable \cup {"blocked", "running", "done", "archived"}

Readings == {"boards.list", "columns.list", "task.get"}
Actions == {"block", "unblock", "complete", "archive"}
TaskOps == {"task.create", "task.update"} \cup Actions
Mutations == {"comment.create", "link.create", "link.delete"}
DispatchOps == {"dispatch.preview", "dispatch.run"}
KanbanOps == Readings \cup TaskOps \cup Mutations \cup DispatchOps

(* What a request says where its operation looks at it: the task, its new  *)
(* status or none, the task that depends on it, that a run is confirmed;   *)
(* wellFormed: whatever else it says is in order.                          *)
Asks ==
    {ask \in [op : KanbanOps, task : Tasks, other : Tasks, status : Statuses \cup {"none"},
              confirmed : BOOLEAN, wellFormed : BOOLEAN] :
        /\ ask.status # "none" => ask.op \in {"task.create", "task.update"}
        /\ ask.other # ask.task => ask.op \in {"link.create", "link.delete"}
        /\ ask.confirmed => ask.op = "dispatch.run"}

Refused(code) == [answer |-> code, permission |-> "none", call |-> "none", status |-> "none"]
Planned(permission, call, status) ==
    [answer |-> "none", permission |-> permission, call |-> call, status |-> status]

(* createTaskBody: the status is one of these, or the host's choice *)
PlanCreate(ask) ==
    IF ask.status \in Movable \cup {"none"} THEN Planned("write", "create", ask.status)
    ELSE Refused("invalid_status")

(* updateTaskBody: no task is set running, done or archived this way *)
PlanUpdate(ask) ==
    IF ask.status = "running" THEN Refused("running_requires_dispatch")
    ELSE IF ask.status \in Movable \cup {"none"} THEN Planned("write", "patch", ask.status)
    ELSE Refused("status_requires_action")

(* actionBody: block and unblock are calls of their own, the others set a  *)
(* status that an update may not                                           *)
PlanAction(ask) ==
    CASE ask.op \in {"block", "unblock"} -> Planned("write", ask.op, "none")
      [] ask.op = "complete" -> Planned("write", "patch", "done")
      [] ask.op = "archive" -> Planned("write", "patch", "archived")

(* linkBody: no task depends on itself *)
PlanLink(ask) ==
    IF ask.task = ask.other THEN Refused("self_link") ELSE Planned("write", ask.op, "none")

(* Mutant: a run that was not confirmed is planned as well. *)
PlanUnconfirmed(ask) ==
    Planned("execute", IF ask.op = "dispatch.preview" THEN "dry_run" ELSE "run", "none")

(* dispatchPlan: both need the permission to execute *)
PlanDispatch(ask) ==
    IF ask.op = "dispatch.preview" THEN Planned("execute", "dry_run", "none")
    ELSE IF ask.confirmed THEN Planned("execute", "run", "none")
    ELSE Refused("confirmation_required")

(* planKanbanBridgeRequest *)
Plan(ask) ==
    CASE ~ask.wellFormed -> Refused("invalid")
      [] ask.wellFormed /\ ask.op \in Readings -> Planned("read", "read", "none")
      [] ask.wellFormed /\ ask.op = "task.create" -> PlanCreate(ask)
      [] ask.wellFormed /\ ask.op = "task.update" -> PlanUpdate(ask)
      [] ask.wellFormed /\ ask.op \in Actions -> PlanAction(ask)
      [] ask.wellFormed /\ ask.op = "comment.create" -> Planned("write", ask.op, "none")
      [] ask.wellFormed /\ ask.op \in {"link.create", "link.delete"} -> PlanLink(ask)
      [] ask.wellFormed /\ ask.op \in DispatchOps -> PlanDispatch(ask)

(* handled: how often the host has acted on the call; moved: the tasks it  *)
(* moved then, with the status they got; open: the call may yet be handled *)
KanbanNotAsked ==
    [ask |-> "none", holds |-> {}, plan |-> Refused("none"), step |-> "new", open |-> FALSE,
     payload |-> "none", handled |-> 0, moved |-> {}, answer |-> "none"]

KanbanInit ==
    /\ tasks \in [Tasks -> {"none", "ready", "blocked"}]
    /\ links = {}
    /\ kanban = [q \in KanbanRequests |-> KanbanNotAsked]
    /\ moves = 0

(* The request is planned before the token is looked at: who may not and   *)
(* asks wrongly is told of the latter.                                     *)
AskKanban(q, ask, holds) ==
    /\ kanban[q] = KanbanNotAsked
    /\ LET plan == Plan(ask)
           asked == [KanbanNotAsked EXCEPT !.ask = ask, !.holds = holds, !.plan = plan]
       IN  kanban' = [kanban EXCEPT ![q] =
             IF plan.answer # "none" THEN [asked EXCEPT !.step = "done", !.answer = plan.answer]
             ELSE IF plan.permission \notin holds
             THEN [asked EXCEPT !.step = "done", !.answer = "forbidden"]
             ELSE [asked EXCEPT !.step = "waits", !.open = TRUE]]
    /\ UNCHANGED <<tasks, links, moves>>

(* The tasks a call moves at the host: a run may take up those ready. *)
MovedBy(x) ==
    LET Moved(t, status) == [task |-> t, status |-> status]
        t == x.ask.task
    IN  CASE x.plan.call = "run" -> {Moved(r, "running") : r \in {r \in Tasks : tasks[r] = "ready"}}
          [] x.plan.call = "create" -> {Moved(t, IF x.plan.status = "none" THEN "todo" ELSE x.plan.status)}
          [] x.plan.call = "patch" /\ x.plan.status # "none" -> {Moved(t, x.plan.status)}
          [] x.plan.call = "block" -> {Moved(t, "blocked")}
          [] x.plan.call = "unblock" /\ tasks[t] = "blocked" -> {Moved(t, "ready")}
          [] OTHER -> {}

LinksAfter(ask) ==
    CASE ask.op = "link.create" -> links \cup {<<ask.task, ask.other>>}
      [] ask.op = "link.delete" -> links \ {<<ask.task, ask.other>>}
      [] OTHER -> links

(* The host handles the call, perhaps after the Router has given up on it. *)
(* A new task gets an id that is free; its answer may lack what the Router *)
(* looks for, and to a comment or a link it may say that nothing was done. *)
KanbanHostHandles(q) ==
    LET x == kanban[q]
    IN  /\ x.open
        /\ x.ask.op \in TaskOps \cup Mutations \cup {"task.get"} =>
              (tasks[x.ask.task] = "none") = (x.ask.op = "task.create")
        /\ \E moved \in SUBSET MovedBy(x), payload \in {"whole", "lacking", "not_ok", "broken"} :
              /\ x.plan.call # "run" => moved = MovedBy(x)
              /\ payload = "not_ok" => x.ask.op \in Mutations
              /\ tasks' = [t \in Tasks |->
                    IF \E m \in moved : m.task = t THEN (CHOOSE m \in moved : m.task = t).status
                    ELSE tasks[t]]
              /\ links' = IF payload = "not_ok" THEN links ELSE LinksAfter(x.ask)
              /\ kanban' = [kanban EXCEPT ![q].open = FALSE, ![q].payload = payload,
                    ![q].moved = @ \cup moved, ![q].handled = IF payload = "not_ok" THEN @ ELSE @ + 1]
        /\ UNCHANGED moves

(* The host refuses: normalizeKanbanBridgeError makes one of a few answers *)
(* of its status.                                                          *)
HostErrors == {"kanban_host_rejected", "kanban_host_denied", "kanban_not_found", "kanban_conflict"}

KanbanHostRefuses(q) ==
    /\ kanban[q].open
    /\ \E code \in HostErrors : kanban' = [kanban EXCEPT ![q].open = FALSE, ![q].payload = code]
    /\ UNCHANGED <<tasks, links, moves>>

(* normalizeTaskEnvelope, normalizeColumns, boards: without what they look *)
(* for the answer is an error of the upstream; normalizeMutationResult     *)
(* tells what the host said; a dispatch counts what is there               *)
Projection(op, payload) ==
    CASE payload \in HostErrors -> payload
      [] payload = "broken" -> "invalid_upstream_response"
      [] payload = "lacking" ->
           IF op \in Readings \cup TaskOps THEN "invalid_upstream_response" ELSE "ok"
      [] payload = "not_ok" -> "not_ok"
      [] payload = "whole" -> "ok"

(* Mutant: a call whose answer cannot be read is made again. *)
AnswersAgain(q) ==
    LET x == kanban[q]
        answer == Projection(x.ask.op, x.payload)
    IN  /\ x.step = "waits" /\ x.payload # "none"
        /\ kanban' = [kanban EXCEPT ![q] =
             IF answer = "invalid_upstream_response" /\ x.handled = 1
             THEN [x EXCEPT !.open = TRUE, !.payload = "none"]
             ELSE [x EXCEPT !.step = "done", !.answer = answer]]
        /\ UNCHANGED <<tasks, links, moves>>

KanbanAnswers(q) ==
    LET x == kanban[q]
    IN  /\ x.step = "waits" /\ x.payload # "none"
        /\ kanban' = [kanban EXCEPT ![q].step = "done",
                                    ![q].answer = Projection(x.ask.op, x.payload)]
        /\ UNCHANGED <<tasks, links, moves>>

(* The Gateway or the host cannot be reached, or answers too late: the     *)
(* call is not made again, and may or may not be handled later.            *)
KanbanCallFails(q) ==
    /\ kanban[q].step = "waits"
    /\ \E open \in {FALSE, kanban[q].open} :
          kanban' = [kanban EXCEPT ![q].step = "done", ![q].answer = "kanban_host_failed", ![q].open = open]
    /\ UNCHANGED <<tasks, links, moves>>

(* The host's dispatcher takes up a task, a worker ends one. *)
HostMoves(t) ==
    /\ moves < MaxMoves /\ tasks[t] \in {"ready", "running"}
    /\ tasks' = [tasks EXCEPT ![t] = IF @ = "ready" THEN "running" ELSE "done"]
    /\ moves' = moves + 1
    /\ UNCHANGED <<links, kanban>>

KanbanGoesOn(q) == KanbanAnswers(q) \/ KanbanCallFails(q)

KanbanNext ==
    \/ \E q \in KanbanRequests :
          \/ \E ask \in Asks, holds \in Grants : AskKanban(q, ask, holds)
          \/ KanbanHostHandles(q) \/ KanbanHostRefuses(q) \/ KanbanGoesOn(q)
    \/ \E t \in Tasks : HostMoves(t)

KanbanSpec ==
    /\ KanbanInit /\ [][KanbanNext]_kanbanVars
    /\ \A q \in KanbanRequests : WF_kanbanVars(KanbanGoesOn(q))

-----------------------------------------------------------------------------
KanbanTypeOK ==
    /\ tasks \in [Tasks -> Statuses \cup {"none"}]
    /\ links \subseteq Tasks \X Tasks
    /\ \A q \in KanbanRequests :
        /\ kanban[q].step \in {"new", "waits", "done"}
        /\ kanban[q].handled \in Nat
        /\ kanban[q].open => kanban[q].payload = "none"
    /\ moves \in 0..MaxMoves

(* A task is running only because the host's dispatcher took it up or a    *)
(* run was asked for, confirmed, by someone who may; an update ends none.  *)
OnlyMeantMoves ==
    \A q \in KanbanRequests : LET x == kanban[q] IN \A m \in x.moved :
        /\ m.status = "running" =>
              x.ask.op = "dispatch.run" /\ x.ask.confirmed /\ "execute" \in x.holds
        /\ m.status \in {"done", "archived"} => x.ask.op \in {"complete", "archive"}
        /\ x.ask.op # "dispatch.run" => "write" \in x.holds

(* A request is handled at most once, one that was refused not at all, and *)
(* a success is told only of what the host did; no task waits for itself.  *)
AtMostOneCall ==
    /\ \A q \in KanbanRequests :
        /\ kanban[q].handled <= 1
        /\ kanban[q].answer = "ok" => kanban[q].handled = 1
        /\ kanban[q].answer \notin {"none", "ok", "kanban_host_failed", "invalid_upstream_response"} =>
              kanban[q].handled = 0 /\ ~kanban[q].open
    /\ \A t \in Tasks : <<t, t>> \notin links

KanbanIsSound == OnlyMeantMoves /\ AtMostOneCall
===============================================================================
