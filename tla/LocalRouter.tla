------------------------------ MODULE LocalRouter ------------------------------
(***************************************************************************)
(* The launcher of a local Router (router-local-env.mjs): the approval     *)
(* token, in a private file and formerly in a line of the environment      *)
(* file; and the Router process, started by `run' in a terminal, recorded  *)
(* beside the environment file and ended by `stop'.                        *)
(*                                                                         *)
(* init, rotate-approval-token, clear-approval-token and the beginning of  *)
(* run are given one after the other, and may be killed between two        *)
(* writes; launchers, Routers and one stop go on at the same time.         *)
(* Assumed: the start of a process can be read, its pid is not given to    *)
(* another between two looks of a stop at it (50 ms), and no other program *)
(* listens at the Router's port.                                           *)
(***************************************************************************)
EXTENDS Naturals, FiniteSets

CONSTANTS
    Terminals,    \* where run is given
    Pids,
    NoPid,
    MaxToken,     \* bound on the tokens made
    MaxBorn       \* bound on the processes started

VARIABLES
    tokens,    \* the token in pairing.json and in the environment file; 0: none
    order,     \* the token command under way: its name, its step, the token it chose
    made,      \* tokens made
    retired,   \* tokens that a clear or a rotation that ended has put out of use
    launcher,  \* terminal -> the launcher there: step, its child
    procs,     \* pid -> the process that has it
    born,      \* processes started
    record,    \* the recorded Router: pid and start of the process
    port,      \* the pid that listens
    stop       \* the stop under way: step, pid; and what the last one did

localVars == <<tokens, order, made, retired, launcher, procs, born, record, port, stop>>
tokenVars == <<tokens, order, made, retired>>
processVars == <<launcher, procs, born, record, port, stop>>

ASSUME LocalConstantsAssumption ==
    MaxToken \in Nat \ {0} /\ MaxBorn \in Nat /\ NoPid \notin Pids

Commands == {"init", "rotate", "clear", "run"}
NoOrder == [name |-> "none", step |-> 0, token |-> 0, old |-> 0]
Free == [kind |-> "free", born |-> 0]
NoRecord == [pid |-> NoPid, born |-> 0]
NoStop == [step |-> "idle", pid |-> NoPid, born |-> 0, result |-> "none"]
NoLauncher == [step |-> "idle", pid |-> NoPid]

(* With a token from before there was a pairing.json, or with none. *)
LocalInit ==
    /\ tokens \in {[pairing |-> 0, env |-> 0], [pairing |-> 0, env |-> 1], [pairing |-> 1, env |-> 0]}
    /\ made = 1
    /\ order = NoOrder
    /\ retired = {}
    /\ launcher = [t \in Terminals |-> NoLauncher]
    /\ procs = [p \in Pids |-> Free]
    /\ born = 0
    /\ record = NoRecord
    /\ port = NoPid
    /\ stop = NoStop

(* The token that counts, once init has put it into pairing.json. *)
InForce(ts) == IF ts.pairing # 0 THEN ts.pairing ELSE ts.env
Disagree(ts) == ts.pairing # 0 /\ ts.env # 0 /\ ts.pairing # ts.env

-----------------------------------------------------------------------------
(* ensureRouterEnvFile reads both files and chooses the token ... *)
Ensure(name) ==
    /\ name \in {"init", "rotate", "run"} /\ order = NoOrder
    /\ ~Disagree(tokens)
    /\ LET anew == name = "rotate" \/ InForce(tokens) = 0
       IN  /\ anew => made < MaxToken
           /\ made' = IF anew THEN made + 1 ELSE made
           /\ order' = [name |-> name, step |-> 1, old |-> InForce(tokens),
                        token |-> IF anew THEN made + 1 ELSE InForce(tokens)]
    /\ UNCHANGED <<tokens, retired>>

(* Mutant: the environment file loses its line first. *)
EnvFirst(ts, step, token) ==
    IF step = 1 THEN [ts EXCEPT !.env = 0] ELSE [ts EXCEPT !.pairing = token]

(* ... writes pairing.json if it has another, then drops the old line      *)
Written(ts, step, token) ==
    IF step = 1 THEN [ts EXCEPT !.pairing = token] ELSE [ts EXCEPT !.env = 0]

(* Mutant: clear leaves the environment file as it is. *)
ClearedKeepingLine(ts, step) == [ts EXCEPT !.pairing = 0]

(* clearRouterApprovalToken: pairing.json, then the line *)
Cleared(ts, step) == IF step = 1 THEN [ts EXCEPT !.pairing = 0] ELSE [ts EXCEPT !.env = 0]

Clear ==
    /\ order = NoOrder
    /\ order' = [NoOrder EXCEPT !.name = "clear", !.step = 1, !.old = InForce(tokens)]
    /\ UNCHANGED <<tokens, made, retired>>

WriteToken ==
    /\ order.step \in {1, 2}
    /\ tokens' = IF order.name = "clear" THEN Cleared(tokens, order.step)
                 ELSE Written(tokens, order.step, order.token)
    /\ order' = IF order.step = 1 THEN [order EXCEPT !.step = 2]
                ELSE IF order.name = "run" THEN [order EXCEPT !.step = 3] ELSE NoOrder
    /\ retired' = IF order.step = 2 /\ order.name \in {"rotate", "clear"}
                  THEN retired \cup ({order.old} \ {0}) ELSE retired
    /\ UNCHANGED made

(* The command is killed, or a write fails, between two writes. *)
OrderKilled ==
    /\ order.step \in {1, 2}
    /\ order' = NoOrder
    /\ UNCHANGED <<tokens, made, retired>>

TokenSteps ==
    /\ \/ \E name \in Commands : Ensure(name)
       \/ Clear \/ WriteToken \/ OrderKilled
    /\ UNCHANGED processVars

-----------------------------------------------------------------------------
(* A pid that may be given to a process: not to be had between two looks   *)
(* of a stop, or before the launcher has reaped its child *)
Available(p) ==
    /\ procs[p] = Free /\ born < MaxBorn /\ stop.pid # p
    /\ \A t \in Terminals : launcher[t].pid # p

Spawned(p, kind) == [procs EXCEPT ![p] = [kind |-> kind, born |-> born + 1]]

(* runRouter: the environment is loaded and preflightRouterStart asks for  *)
(* the health of a Router and finds the port free                          *)
Preflight(t) ==
    /\ order.name = "run" /\ order.step = 3 /\ launcher[t].step = "idle"
    /\ order' = NoOrder
    /\ launcher' = IF port = NoPid THEN [launcher EXCEPT ![t].step = "checked"] ELSE launcher
    /\ UNCHANGED <<tokens, made, retired, procs, born, record, port, stop>>

(* spawn, writeRouterProcessState *)
SpawnRouter(t, p) ==
    /\ launcher[t].step = "checked" /\ Available(p)
    /\ procs' = Spawned(p, "router")
    /\ born' = born + 1
    /\ launcher' = [launcher EXCEPT ![t] = [step |-> "waits", pid |-> p]]
    /\ record' = [pid |-> p, born |-> born + 1]
    /\ UNCHANGED <<port, stop, tokenVars>>

Ended(p) ==
    /\ procs' = [procs EXCEPT ![p] = Free]
    /\ port' = IF port = p THEN NoPid ELSE port

(* The child listens; it ends if another does. *)
RouterListens(p) ==
    /\ procs[p].kind = "router" /\ port # p
    /\ IF port = NoPid THEN port' = p /\ UNCHANGED procs ELSE Ended(p)
    /\ UNCHANGED <<launcher, born, record, stop, tokenVars>>

(* A Router ends: by itself, or as its launcher forwards a signal. *)
RouterEnds(p) ==
    /\ procs[p].kind = "router"
    /\ Ended(p)
    /\ UNCHANGED <<launcher, born, record, stop, tokenVars>>

(* removeRouterProcessState *)
RecordWithout(pid) == IF record.pid = pid THEN NoRecord ELSE record

(* runRouter: the child's exit is seen *)
ChildExitSeen(t) ==
    /\ launcher[t].step = "waits" /\ procs[launcher[t].pid].kind # "router"
    /\ record' = RecordWithout(launcher[t].pid)
    /\ launcher' = [launcher EXCEPT ![t] = NoLauncher]
    /\ UNCHANGED <<procs, born, port, stop, tokenVars>>

(* The launcher is killed; its child goes on and stays recorded. *)
LauncherKilled(t) ==
    /\ launcher[t].step # "idle"
    /\ launcher' = [launcher EXCEPT ![t] = NoLauncher]
    /\ UNCHANGED <<procs, born, record, port, stop, tokenVars>>

(* Another program gets a pid that may have been a Router's. *)
OtherStarts(p) ==
    /\ Available(p)
    /\ procs' = Spawned(p, "other")
    /\ born' = born + 1
    /\ UNCHANGED <<launcher, record, port, stop, tokenVars>>

OtherEnds(p) ==
    /\ procs[p].kind = "other"
    /\ Ended(p)
    /\ UNCHANGED <<launcher, born, record, stop, tokenVars>>

-----------------------------------------------------------------------------
(* Mutant: a process that has the recorded pid is the Router. *)
RunsAtAll(r) == procs[r.pid] # Free

(* the pid is running and its start is the one recorded *)
IsRecorded(r) == procs[r.pid] # Free /\ procs[r.pid].born = r.born

Refused == record # NoRecord /\ procs[record.pid] # Free /\ procs[record.pid].born # record.born

Signalled(pid) == [NoStop EXCEPT !.step = "waits", !.pid = pid, !.born = procs[pid].born,
                                 !.result = procs[pid].kind]

(* stopRouterProcess: by the record, or by the health of the Router at the *)
(* port and the pid that listens there                                     *)
StopRecorded ==
    /\ stop.step = "idle" /\ record # NoRecord
    /\ IF procs[record.pid] = Free
       THEN record' = NoRecord /\ stop' = [NoStop EXCEPT !.result = "stale"]
       ELSE /\ UNCHANGED record
            /\ stop' = IF IsRecorded(record) THEN Signalled(record.pid)
                       ELSE [NoStop EXCEPT !.result = "refused"]
    /\ UNCHANGED <<launcher, procs, born, port, tokenVars>>

StopDiscovered ==
    /\ stop.step = "idle" /\ record = NoRecord
    /\ stop' = IF port = NoPid THEN [NoStop EXCEPT !.result = "nothing"] ELSE Signalled(port)
    /\ UNCHANGED <<launcher, procs, born, record, port, tokenVars>>

(* terminateRouterProcess: SIGTERM, and SIGKILL if it is still there after *)
(* 1.5 s; either way it ends, and then its record goes                     *)
StopKills ==
    /\ stop.step = "waits" /\ procs[stop.pid].born = stop.born
    /\ Ended(stop.pid)
    /\ UNCHANGED <<launcher, born, record, stop, tokenVars>>

StopEnds ==
    /\ stop.step = "waits" /\ procs[stop.pid] = Free
    /\ record' = RecordWithout(stop.pid)
    /\ stop' = [NoStop EXCEPT !.result = stop.result]
    /\ UNCHANGED <<launcher, procs, born, port, tokenVars>>

StopSteps == StopRecorded \/ StopDiscovered \/ StopKills \/ StopEnds

LocalNext ==
    \/ TokenSteps
    \/ \E t \in Terminals :
          \/ Preflight(t) \/ ChildExitSeen(t) \/ LauncherKilled(t)
          \/ \E p \in Pids : SpawnRouter(t, p)
    \/ \E p \in Pids : RouterListens(p) \/ RouterEnds(p) \/ OtherStarts(p) \/ OtherEnds(p)
    \/ StopSteps

(* The user gives stop again and again, and a stop that was given goes on. *)
LocalSpec == LocalInit /\ [][LocalNext]_localVars /\ WF_localVars(StopSteps)

-----------------------------------------------------------------------------
LocalTypeOK ==
    /\ tokens \in [pairing : 0..MaxToken, env : 0..MaxToken]
    /\ order.name \in Commands \cup {"none"} /\ order.step \in 0..3
    /\ made \in 0..MaxToken /\ retired \subseteq 1..MaxToken
    /\ launcher \in [Terminals -> [step : {"idle", "checked", "waits"}, pid : Pids \cup {NoPid}]]
    /\ procs \in [Pids -> [kind : {"free", "router", "other"}, born : 0..MaxBorn]]
    /\ record \in [pid : Pids \cup {NoPid}, born : 0..MaxBorn]
    /\ port \in Pids \cup {NoPid}
    /\ stop.result \in {"none", "stale", "refused", "nothing", "router", "other"}

(* A token that a clear or a rotation has put out of use does not come     *)
(* back: a line of the old file is not taken for the token again.          *)
RetiredStayGone == order = NoOrder => InForce(tokens) \notin retired

(* A stop signals Routers only, whoever has the recorded pid by now; and   *)
(* the one that listens is unrecorded, is recorded, or hidden by a later   *)
(* launch.                                                                 *)
OnlyRoutersStopped == stop.result # "other"

(* The approval token changes by rotate and clear alone, also when init or *)
(* run moves it from one file to the other and is killed on the way.       *)
TokenKept ==
    [][InForce(tokens') # InForce(tokens) =>
         InForce(tokens) = 0 \/ order.name \in {"rotate", "clear"}]_localVars

(* What stops that are given again and again come to, after launchers were *)
(* killed, two were started at once and records went stale: no Router      *)
(* listens, unless the recorded pid has become another program's.          *)
RouterStopped == port = NoPid \/ Refused
===============================================================================
