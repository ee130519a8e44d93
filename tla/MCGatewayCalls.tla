---------------------------- MODULE MCGatewayCalls ----------------------------
(***************************************************************************)
(* The heartbeats of a route and the calls that are made over it: the      *)
(* registry with two connections whose Gateways may hang, the calls to a   *)
(* Gateway, the Cron and Kanban requests that are made with them, what is  *)
(* told of the features of an Agent, and the writer of a stream of         *)
(* answers.  `part' says which of them moves, the others stay as they are. *)
(* The calls come in two parts: with a native request, and with a runtime  *)
(* snapshot, beside two RPC calls.                                         *)
(***************************************************************************)
EXTENDS MCGatewayRegistry, GatewayRequests, CronBridge, StreamWriter, KanbanBridge, FeatureProbe

CONSTANTS r1, r2, n1, p1, u1, j1, j2, f1, f2, q1, t1, t2, x1, x2

VARIABLE part

MCTokens == {{"read", "write"}, {"read", "write", "execute"}}
MCGrants == {{"read", "write"}, {"read", "execute"}}

CallParts == {"registry", "native", "snapshot", "cron", "kanban", "probe", "writer"}

(* Ledger, Gateway and jobs are one state while another part moves. *)
GatewayCallsInit ==
    /\ part \in CallParts
    /\ Init /\ (part # "registry" => \A k \in Credentials : status[k] = "unknown")
    /\ WriterInit
    /\ RequestsInit /\ (part \notin {"native", "snapshot"} => link.cancel)
    /\ CronInit /\ (part # "cron" => \A j \in Jobs : jobs[j] = NoJob)
    /\ KanbanInit /\ (part # "kanban" => \A t \in Tasks : tasks[t] = "none")
    /\ ProbeInit /\ (part # "probe" => offered = {})

RegistryMoves == part = "registry" /\ Next
RequestsMove ==
    /\ part \in {"native", "snapshot"}
    /\ RequestsNext
    /\ \A c \in IF part = "native" THEN SnapshotCalls ELSE NativeCalls : calls'[c].state = "new"
CronMoves == part = "cron" /\ CronNext
KanbanMoves == part = "kanban" /\ KanbanNext
ProbeMoves == part = "probe" /\ ProbeNext
WriterMoves == part = "writer" /\ WriterNext

GatewayCallsNext ==
    /\ UNCHANGED part
    /\ \/ RegistryMoves /\ UNCHANGED <<requestVars, cronVars, kanbanVars, probeVars, writerVars>>
       \/ RequestsMove /\ UNCHANGED <<vars, cronVars, kanbanVars, probeVars, writerVars>>
       \/ CronMoves /\ UNCHANGED <<vars, requestVars, kanbanVars, probeVars, writerVars>>
       \/ KanbanMoves /\ UNCHANGED <<vars, requestVars, cronVars, probeVars, writerVars>>
       \/ ProbeMoves /\ UNCHANGED <<vars, requestVars, cronVars, kanbanVars, writerVars>>
       \/ WriterMoves /\ UNCHANGED <<vars, requestVars, cronVars, kanbanVars, probeVars>>

gatewayCallsVars == <<part, vars, requestVars, cronVars, kanbanVars, probeVars, writerVars>>

(* The fairness of the modules: timers fire, a closing socket is closed.   *)
GatewayCallsSpec ==
    /\ GatewayCallsInit /\ [][GatewayCallsNext]_gatewayCallsVars
    /\ \A c \in Connections :
        /\ WF_vars(Probe(c))
        /\ WF_vars(Miss(c))
        /\ WF_vars(HelloTimeout(c))
        /\ WF_vars(c \in Used /\ conn[c].sock \in {"closing", "terminated"} /\ Detach(c))
    /\ RequestsFairness
    /\ \A r \in CronRequests : WF_cronVars(CronGoesOn(r))
    /\ \A q \in KanbanRequests : WF_kanbanVars(KanbanGoesOn(q))
    /\ WF_writerVars(DrainDeadline)

(* What clients are answered is true: a Cron or Kanban request for what    *)
(* was done, once, and was allowed; what an Agent offers for what it did   *)
(* seconds ago; a stream for what was written, in order and bounded.       *)
AnswersAreTrue ==
    /\ CronTypeOK /\ CronIsSound
    /\ KanbanTypeOK /\ KanbanIsSound
    /\ ProbeTypeOK /\ ToldOfTheRecent
    /\ WriterTypeOK /\ StreamIsSound

(* Every call, request and flush ends, and each is made once: in the  *)
(* end nothing waits.                                                      *)
CallsProgress ==
    <>[](/\ PendingSet(calls) = {} /\ Waiting = {}
         /\ \A r \in CronRequests : asked[r].step \in {"new", "done"}
         /\ \A q \in KanbanRequests : kanban[q].step \in {"new", "done"})
===============================================================================
