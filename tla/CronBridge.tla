------------------------------ MODULE CronBridge ------------------------------
(***************************************************************************)
(* Clients manage the Cron jobs of a Hermes host through the Router        *)
(* (cronBridge.ts, handleCronBridge).  A change is two or more calls to    *)
(* the host: the job is read and must be one that may be managed from      *)
(* afar, then it is changed; a job that is created disabled is created and *)
(* then paused.  The host and other clients change jobs in between, and an *)
(* answer may be lost after the change was made.                           *)
(***************************************************************************)
EXTENDS Naturals, FiniteSets

CONSTANTS
    CronRequests,  \* requests of clients
    Jobs,          \* job ids
    Tokens,        \* what the clients' tokens permit: sets of permissions
    MaxEdits       \* bound on the changes made at the host itself

VARIABLES
    jobs,     \* job id -> the job at the host
    asked,    \* request -> what it asks, where it is, what was answered
    edits     \* changes made at the host itself

cronVars == <<jobs, asked, edits>>

Permissions == {"read", "write", "execute"}

ASSUME CronConstantsAssumption == MaxEdits \in Nat /\ Tokens \subseteq SUBSET Permissions

(* A job runs a prompt and delivers locally ("prompt"), runs a script, or  *)
(* delivers elsewhere.                                                     *)
Kinds == {"prompt", "script", "elsewhere"}
NoJob == [kind |-> "none", paused |-> FALSE, touched |-> FALSE]
JobOf(kind) == [NoJob EXCEPT !.kind = kind]

Reading == {"list", "get"}
Checked == {"update", "delete", "pause", "resume", "run"}
CronOps == Reading \cup Checked \cup {"create", "createPaused"}

(* Mutant: running a job needs no more than changing it. *)
PermissionToWrite(op) == IF op \in Reading THEN "read" ELSE "write"

(* cronBridgePermission *)
PermissionFor(op) ==
    IF op \in Reading THEN "read" ELSE IF op = "run" THEN "execute" ELSE "write"

(* call: the last call to the host; open: it may still be handled there;   *)
(* done: the changes of the request that were made                         *)
NotAsked == [op |-> "none", job |-> "none", holds |-> {}, step |-> "new", saw |-> "none",
             call |-> "none", open |-> FALSE, upstream |-> "none", done |-> {}, answer |-> "none"]

CronInit ==
    /\ jobs \in [Jobs -> {NoJob} \cup {JobOf(kind) : kind \in Kinds}]
    /\ asked = [r \in CronRequests |-> NotAsked]
    /\ edits = 0

Answered(r, code) == asked' = [asked EXCEPT ![r].step = "done", ![r].answer = code]

(* the next call to the host is made *)
CallsHost(r, call) ==
    asked' = [asked EXCEPT ![r].step = "waits", ![r].call = call, ![r].open = TRUE,
                           ![r].upstream = "none"]

(* handleCronBridge: the token must hold the permission *)
AskCron(r, op, j, holds) ==
    /\ asked[r] = NotAsked
    /\ LET q == [NotAsked EXCEPT !.op = op, !.job = j, !.holds = holds]
       IN  asked' = [asked EXCEPT ![r] =
             IF PermissionFor(op) \notin holds
             THEN [q EXCEPT !.step = "done", !.answer = "forbidden"]
             ELSE [q EXCEPT !.step = "valid"]]
    /\ UNCHANGED <<jobs, edits>>

(* Mutant: the job is not looked at before it is changed. *)
FirstCallChanges(op) == IF op = "createPaused" THEN "create" ELSE op

(* The first call: the job is read before it is changed *)
FirstCall(op) ==
    CASE op = "createPaused" -> "create"
      [] op \in Checked -> "check"
      [] OTHER -> op

(* dispatch: the path, the query and the body are in order, or not *)
Dispatches(r) ==
    /\ asked[r].step = "valid"
    /\ Answered(r, "invalid") \/ CallsHost(r, FirstCall(asked[r].op))
    /\ UNCHANGED <<jobs, edits>>

(* What a call does to the job at the host. *)
Changed(job, call) ==
    CASE call = "create" -> JobOf("prompt")
      [] call = "delete" -> NoJob
      [] call \in {"pause", "resume"} -> [job EXCEPT !.paused = call = "pause", !.touched = TRUE]
      [] OTHER -> [job EXCEPT !.touched = TRUE]

NoChange == Reading \cup {"check"}

(* The host handles a call, perhaps after the Router has given up on it.   *)
(* A new job gets an id that is free.                                      *)
HostHandles(r, j) ==
    LET q == asked[r]
    IN  /\ q.open
        /\ IF q.call = "create" THEN jobs[j] = NoJob
           ELSE j = q.job /\ (q.call = "list" \/ jobs[j] # NoJob)
        /\ jobs' = IF q.call \in NoChange THEN jobs ELSE [jobs EXCEPT ![j] = Changed(@, q.call)]
        /\ asked' = [asked EXCEPT ![r] =
             [q EXCEPT !.open = FALSE, !.upstream = "ok", !.saw = jobs[j].kind, !.job = j,
                       !.done = IF q.call \in NoChange THEN @ ELSE @ \cup {q.call}]]
        /\ UNCHANGED edits

(* The host refuses a call: the job is gone, or it finds a conflict. *)
HostRefuses(r) ==
    /\ asked[r].open
    /\ \E code \in {"not_found", "conflict"} :
          asked' = [asked EXCEPT ![r].open = FALSE, ![r].upstream = code]
    /\ UNCHANGED <<jobs, edits>>

(* Mutant: once the job is there, a refusal is not a failure. *)
SucceededOrCreated(q) == q.upstream = "ok" \/ "create" \in q.done

(* requireSuccessPayload *)
Succeeded(q) == q.upstream = "ok"

(* requireManageableJob *)
Manageable(kind) == kind = "prompt"

(* The host's answer: the request ends with it, or goes on. *)
HostAnswers(r) ==
    LET q == asked[r]
    IN  /\ q.step = "waits" /\ q.upstream # "none"
        /\ CASE ~Succeeded(q) -> Answered(r, q.upstream)
             [] Succeeded(q) /\ q.call = "check" ->
                  IF Manageable(q.saw) THEN CallsHost(r, q.op) ELSE Answered(r, "unsupported")
             [] Succeeded(q) /\ q.call = "create" /\ q.op = "createPaused" -> CallsHost(r, "pause")
             [] OTHER -> Answered(r, "ok")
        /\ UNCHANGED <<jobs, edits>>

(* The Gateway or the host cannot be reached or answers too late, or what  *)
(* it answers is no job.                                                   *)
CronCallFails(r) ==
    /\ asked[r].step = "waits"
    /\ \/ Answered(r, "upstream_error")
       \/ asked' = [asked EXCEPT ![r].step = "done", ![r].answer = "upstream_error", ![r].open = FALSE]
    /\ UNCHANGED <<jobs, edits>>

(* Someone at the host makes, changes or removes a job. *)
HostEdits(j, job) ==
    /\ edits < MaxEdits /\ job # jobs[j]
    /\ jobs' = [jobs EXCEPT ![j] = job]
    /\ edits' = edits + 1
    /\ UNCHANGED asked

CronGoesOn(r) ==
    \/ Dispatches(r) \/ HostAnswers(r) \/ CronCallFails(r)

CronNext ==
    \/ \E r \in CronRequests :
          \/ \E op \in CronOps, j \in Jobs, holds \in Tokens : AskCron(r, op, j, holds)
          \/ CronGoesOn(r) \/ HostRefuses(r)
          \/ \E j \in Jobs : HostHandles(r, j)
    \/ \E j \in Jobs, job \in {NoJob} \cup {JobOf(kind) : kind \in Kinds} : HostEdits(j, job)

CronSpec ==
    /\ CronInit /\ [][CronNext]_cronVars
    /\ \A r \in CronRequests : WF_cronVars(CronGoesOn(r))

-----------------------------------------------------------------------------
CronTypeOK ==
    /\ jobs \in [Jobs -> [kind : Kinds \cup {"none"}, paused : BOOLEAN, touched : BOOLEAN]]
    /\ \A r \in CronRequests :
        /\ asked[r].op \in CronOps \cup {"none"}
        /\ asked[r].step \in {"new", "valid", "waits", "done"}
        /\ asked[r].done \subseteq CronOps
        /\ asked[r].answer \in {"none", "ok", "forbidden", "invalid", "unsupported", "not_found",
                                "conflict", "upstream_error"}
    /\ edits \in 0..MaxEdits

(* A success is told only of what was done: for a job that was to be       *)
(* created disabled, that it is there and was paused.                      *)
SuccessIsDone ==
    \A r \in CronRequests :
        asked[r].answer = "ok" /\ asked[r].op \notin Reading =>
            IF asked[r].op = "createPaused" THEN asked[r].done = {"create", "pause"}
            ELSE asked[r].done = {asked[r].op}

(* Who may not, changes nothing and runs nothing, and a script or a job    *)
(* that delivers elsewhere stays as it is unless it became so at the host  *)
(* between the look at it and the change.                                  *)
OnlyWhatIsAllowed ==
    /\ \A r \in CronRequests : \A call \in asked[r].done :
          (IF call = "run" THEN "execute" ELSE "write") \in asked[r].holds
    /\ edits = 0 => \A j \in Jobs : jobs[j].touched => jobs[j].kind = "prompt"

(* What was refused was not done; only a creation may be there although    *)
(* its pause was refused.                                                  *)
RefusedIsNotDone ==
    \A r \in CronRequests :
        asked[r].answer \in {"forbidden", "invalid", "unsupported", "not_found", "conflict"} =>
            asked[r].done \subseteq (IF asked[r].op = "createPaused" THEN {"create"} ELSE {})

CronIsSound == SuccessIsDone /\ OnlyWhatIsAllowed /\ RefusedIsNotDone
===============================================================================
