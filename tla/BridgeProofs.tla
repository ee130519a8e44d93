------------------------------ MODULE BridgeProofs ------------------------------
(***************************************************************************)
(* Proofs about what clients are answered of a host: the Cron and Kanban   *)
(* requests, what an Agent is said to offer, and the stream of answers,    *)
(* each for any number of requests, jobs, tasks, features and values.      *)
(***************************************************************************)
EXTENDS MCGatewayCalls, NaturalsInduction, WellFoundedInduction, SequenceTheorems, TLAPS

-----------------------------------------------------------------------------
(* Cron.  What a request has changed is told by its last call: all of the  *)
(* calls before it, and that one if the host said so.                      *)

JobType == [kind : Kinds \cup {"none"}, paused : BOOLEAN, touched : BOOLEAN]

CronAnswers == {"none", "ok", "forbidden", "invalid", "unsupported", "not_found", "conflict",
                "upstream_error"}

RequestType ==
    [op : CronOps \cup {"none"}, job : Jobs \cup {"none"}, holds : SUBSET Permissions,
     step : {"new", "valid", "waits", "done"}, saw : Kinds \cup {"none"},
     call : CronOps \cup {"check", "none"}, open : BOOLEAN,
     upstream : {"none", "ok", "not_found", "conflict"}, done : SUBSET CronOps, answer : CronAnswers]

CronTyped ==
    /\ jobs \in [Jobs -> JobType]
    /\ asked \in [CronRequests -> RequestType]
    /\ edits \in 0..MaxEdits
    /\ \A j \in Jobs : jobs[j].kind = "none" => jobs[j] = NoJob

(* What was changed before the present call. *)
ChangedBefore(q) == IF q.op = "createPaused" /\ q.call = "pause" THEN {"create"} ELSE {}

ChangedByNow(q) ==
    IF q.upstream = "ok" /\ q.call \notin NoChange \cup {"none"}
    THEN ChangedBefore(q) \cup {q.call} ELSE ChangedBefore(q)

(* The calls a request comes to make. *)
CallsOf(op) ==
    {"none", FirstCall(op)} \cup (IF op \in Checked THEN {op} ELSE {})
    \cup (IF op = "createPaused" THEN {"pause"} ELSE {})

RequestInOrder(q) ==
    /\ q.op = "none" => q = NotAsked
    /\ q.step # "new" => q.op \in CronOps /\ q.job \in Jobs
    /\ q.call \in CallsOf(q.op)
    /\ q.step \in {"new", "valid"} => q.call = "none"
    /\ q.call = "none" => ~q.open /\ q.upstream = "none"
    /\ q.step # "done" => q.answer = "none"
    /\ q.op # "none" /\ q.answer # "forbidden" => PermissionFor(q.op) \in q.holds
    /\ q.answer = "forbidden" => q.call = "none"
    /\ q.open => q.upstream = "none"
    /\ q.done = ChangedByNow(q)

(* A request that ended was answered what it came to. *)
RequestAnswered(q) ==
    /\ q.answer \notin {"none", "upstream_error"} => ~q.open
    /\ q.answer = "ok" /\ q.op \notin Reading =>
          q.done = IF q.op = "createPaused" THEN {"create", "pause"} ELSE {q.op}
    /\ q.answer \in {"forbidden", "invalid", "unsupported", "not_found", "conflict"} =>
          q.done \subseteq IF q.op = "createPaused" THEN {"create"} ELSE {}

(* The job a request is about to change, or has found manageable. *)
HasInHand(q) ==
    \/ q.open /\ q.call \in CronOps \ (Reading \cup {"create"})
    \/ q.upstream = "ok" /\ q.call = "check" /\ q.saw = "prompt"
    \/ q.upstream = "ok" /\ q.call = "create"

JobsInHand ==
    edits = 0 => /\ \A j \in Jobs : jobs[j].touched => jobs[j].kind = "prompt"
                 /\ \A r \in CronRequests : HasInHand(asked[r]) =>
                       jobs[asked[r].job].kind \in {"prompt", "none"}

CronInv ==
    /\ CronTyped
    /\ \A r \in CronRequests : RequestInOrder(asked[r]) /\ RequestAnswered(asked[r])
    /\ JobsInHand

LEMMA OpsAre ==
  /\ CronOps = {"list", "get", "update", "delete", "pause", "resume", "run", "create", "createPaused"}
  /\ Reading = {"list", "get"} /\ Checked = {"update", "delete", "pause", "resume", "run"}
  /\ NoChange = {"list", "get", "check"}
BY DEF CronOps, Reading, Checked, NoChange

LEMMA CallsAre ==
  ASSUME NEW op \in CronOps
  PROVE  /\ FirstCall(op) \in CallsOf(op) /\ FirstCall(op) \in CronOps \cup {"check"}
         /\ FirstCall(op) # "none" /\ FirstCall(op) # "pause"
         /\ FirstCall(op) = "run" => op = "run"
         /\ op \in Checked => FirstCall(op) = "check"
         /\ op = "createPaused" => FirstCall(op) = "create"
         /\ op \in {"create", "list", "get"} => FirstCall(op) = op
BY OpsAre DEF CallsOf, FirstCall

LEMMA CronInvImplies == CronInv => CronTypeOK /\ CronIsSound
<1> SUFFICES ASSUME CronInv PROVE CronTypeOK /\ CronIsSound
  OBVIOUS
<1> USE DEF CronInv
<1>1. CronTypeOK
  BY DEF CronTyped, CronTypeOK, JobType, RequestType, CronAnswers
<1>2. SuccessIsDone /\ RefusedIsNotDone
  BY DEF SuccessIsDone, RefusedIsNotDone, RequestAnswered
<1>3. ASSUME NEW r \in CronRequests, NEW call \in asked[r].done
      PROVE  (IF call = "run" THEN "execute" ELSE "write") \in asked[r].holds
  <2> DEFINE q == asked[r]
  <2>1. RequestInOrder(q) /\ q \in RequestType
    BY DEF CronTyped
  <2> HIDE DEF q
  <2>2. call \in q.done
    BY <1>3 DEF q
  <2>3. q.op # "none" /\ q.op \in CronOps
    BY <2>1, <2>2 DEF RequestInOrder, NotAsked, RequestType
  <2>4. call \in {"create"} \cup {q.call} /\ (call = q.call => q.call \notin NoChange \cup {"none"})
        /\ (call # q.call => q.op = "createPaused") /\ q.call # "none"
    BY <2>1, <2>2, OpsAre DEF RequestInOrder, ChangedByNow, ChangedBefore
  <2>5. PermissionFor(q.op) \in q.holds
    BY <2>1, <2>3, <2>4 DEF RequestInOrder
  <2>6. q.call \in CallsOf(q.op)
    BY <2>1 DEF RequestInOrder
  <2>7. (IF call = "run" THEN "execute" ELSE "write") = PermissionFor(q.op)
    BY <2>3, <2>4, <2>6, OpsAre DEF CallsOf, FirstCall, PermissionFor
  <2> QED
    BY <2>5, <2>7 DEF q
<1>4. OnlyWhatIsAllowed
  BY <1>3 DEF JobsInHand, OnlyWhatIsAllowed
<1> QED
  BY <1>1, <1>2, <1>4 DEF CronIsSound

LEMMA CronStart == CronInit => CronInv
<1> SUFFICES ASSUME CronInit PROVE CronInv
  OBVIOUS
<1> USE CronConstantsAssumption DEF CronInit
<1>1. NotAsked \in RequestType
  BY DEF NotAsked, RequestType, CronAnswers
<1>2. RequestInOrder(NotAsked) /\ RequestAnswered(NotAsked) /\ ~HasInHand(NotAsked)
  BY DEF NotAsked, RequestInOrder, RequestAnswered, HasInHand, CallsOf, ChangedByNow, ChangedBefore
<1>3. NoJob \in JobType /\ ~NoJob.touched /\ NoJob.kind = "none"
      /\ \A kind \in Kinds : JobOf(kind) \in JobType /\ ~JobOf(kind).touched /\ JobOf(kind).kind = kind
  BY DEF NoJob, JobOf, JobType
<1>4. \A j \in Jobs : jobs[j] \in JobType /\ ~jobs[j].touched /\ (jobs[j].kind = "none" => jobs[j] = NoJob)
  BY <1>3 DEF Kinds
<1>5. CronTyped
  BY <1>1, <1>4 DEF CronTyped
<1> QED
  BY <1>2, <1>4, <1>5 DEF CronInv, JobsInHand

(* A step of one request keeps the invariant if the request stays in order *)
(* and the job that it comes to have in hand is one it may have.           *)
LEMMA OneRequestMoves ==
  ASSUME CronInv, NEW r \in CronRequests, NEW req \in RequestType, RequestInOrder(req),
         RequestAnswered(req), asked' = [asked EXCEPT ![r] = req], UNCHANGED <<jobs, edits>>,
         edits = 0 /\ HasInHand(req) => jobs[req.job].kind \in {"prompt", "none"}
  PROVE  CronInv'
<1>1. \A s \in CronRequests : asked'[s] = IF s = r THEN req ELSE asked[s]
  BY DEF CronInv, CronTyped
<1>2. CronTyped'
  BY DEF CronInv, CronTyped
<1>3. \A s \in CronRequests : RequestInOrder(asked'[s]) /\ RequestAnswered(asked'[s])
  BY <1>1 DEF CronInv
<1>4. JobsInHand'
  BY <1>1 DEF CronInv, JobsInHand
<1> QED
  BY <1>2, <1>3, <1>4 DEF CronInv

LEMMA EndsKeep ==
  ASSUME CronInv, NEW r \in CronRequests, NEW code \in CronAnswers, NEW open \in BOOLEAN,
         asked' = [asked EXCEPT ![r] = [asked[r] EXCEPT !.step = "done", !.answer = code, !.open = open]],
         UNCHANGED <<jobs, edits>>, asked[r].step \in {"valid", "waits"},
         code \notin {"none", "forbidden"}, open => asked[r].open,
         code # "upstream_error" => ~open,
         code = "ok" /\ asked[r].op \notin Reading =>
            asked[r].done = IF asked[r].op = "createPaused" THEN {"create", "pause"} ELSE {asked[r].op},
         code \in {"invalid", "unsupported", "not_found", "conflict"} =>
            asked[r].done \subseteq IF asked[r].op = "createPaused" THEN {"create"} ELSE {}
  PROVE  CronInv'
<1> DEFINE old == asked[r]
           req == [old EXCEPT !.step = "done", !.answer = code, !.open = open]
<1>1. old \in RequestType /\ RequestInOrder(old)
  BY DEF CronInv, CronTyped
<1>2. req \in RequestType /\ req.op = old.op /\ req.job = old.job /\ req.holds = old.holds
      /\ req.step = "done" /\ req.saw = old.saw /\ req.call = old.call /\ req.open = open
      /\ req.upstream = old.upstream /\ req.done = old.done /\ req.answer = code
  BY <1>1 DEF RequestType
<1>3. asked' = [asked EXCEPT ![r] = req]
  OBVIOUS
<1>4. edits = 0 /\ HasInHand(old) => jobs[old.job].kind \in {"prompt", "none"}
  BY DEF CronInv, JobsInHand
<1>5. /\ old.step \in {"valid", "waits"} /\ (open => old.open)
      /\ (code = "ok" /\ old.op \notin Reading =>
             old.done = IF old.op = "createPaused" THEN {"create", "pause"} ELSE {old.op})
      /\ (code \in {"invalid", "unsupported", "not_found", "conflict"} =>
             old.done \subseteq IF old.op = "createPaused" THEN {"create"} ELSE {})
  OBVIOUS
<1> HIDE DEF old, req
<1>6. old.op \in CronOps /\ old.op # "none"
  BY <1>1, <1>5, OpsAre DEF RequestInOrder
<1>7. PermissionFor(old.op) \in old.holds
  BY <1>1, <1>5, <1>6 DEF RequestInOrder
<1>8. RequestInOrder(req)
  <2>1. ChangedByNow(req) = ChangedByNow(old)
    BY <1>2 DEF ChangedByNow, ChangedBefore
  <2> QED
    BY <1>1, <1>2, <1>5, <1>6, <1>7, <2>1 DEF RequestInOrder
<1>9. RequestAnswered(req)
  BY <1>2, <1>5 DEF RequestAnswered
<1>10. HasInHand(req) => HasInHand(old)
  BY <1>2, <1>5 DEF HasInHand
<1> QED
  BY <1>2, <1>3, <1>4, <1>8, <1>9, <1>10, OneRequestMoves

(* The same for a call that is made: nothing was changed since the call    *)
(* before it but what is now called ChangedBefore.                         *)
LEMMA CallsKeep ==
  ASSUME CronInv, NEW r \in CronRequests, NEW call \in CallsOf(asked[r].op) \ {"none"}, CallsHost(r, call),
         UNCHANGED <<jobs, edits>>, asked[r].step \in {"valid", "waits"},
         asked[r].done = IF asked[r].op = "createPaused" /\ call = "pause" THEN {"create"} ELSE {},
         edits = 0 /\ call \notin {"list", "get", "check", "create"} =>
            jobs[asked[r].job].kind \in {"prompt", "none"}
  PROVE  CronInv'
<1> DEFINE old == asked[r]
           req == [old EXCEPT !.step = "waits", !.call = call, !.open = TRUE, !.upstream = "none"]
<1>1. old \in RequestType /\ RequestInOrder(old) /\ RequestAnswered(old)
  BY DEF CronInv, CronTyped
<1>2. old.op \in CronOps /\ old.op # "none" /\ call \in CallsOf(old.op) /\ call # "none"
  BY <1>1, OpsAre DEF RequestInOrder
<1>3. call \in CronOps \cup {"check"}
  BY <1>2, OpsAre, CallsAre DEF CallsOf
<1>4. req \in RequestType /\ req.op = old.op /\ req.job = old.job /\ req.holds = old.holds
      /\ req.step = "waits" /\ req.saw = old.saw /\ req.call = call /\ req.open = TRUE
      /\ req.upstream = "none" /\ req.done = old.done /\ req.answer = old.answer
  BY <1>1, <1>3 DEF RequestType
<1>5. asked' = [asked EXCEPT ![r] = req]
  BY DEF CallsHost, CronInv, CronTyped
<1>6. /\ old.step \in {"valid", "waits"}
      /\ old.done = IF old.op = "createPaused" /\ call = "pause" THEN {"create"} ELSE {}
      /\ edits = 0 /\ call \notin {"list", "get", "check", "create"} => jobs[old.job].kind \in {"prompt", "none"}
  OBVIOUS
<1> HIDE DEF old, req
<1>7. old.answer = "none" /\ PermissionFor(old.op) \in old.holds /\ old.job \in Jobs
  BY <1>1, <1>2, <1>6 DEF RequestInOrder
<1>8. RequestInOrder(req)
  <2>1. ChangedByNow(req) = old.done
    BY <1>4, <1>6 DEF ChangedByNow, ChangedBefore
  <2> QED
    BY <1>2, <1>4, <1>6, <1>7, <2>1 DEF RequestInOrder
<1>9. RequestAnswered(req)
  BY <1>4, <1>7 DEF RequestAnswered
<1>10. HasInHand(req) => call \notin {"list", "get", "check", "create"}
  BY <1>4, OpsAre DEF HasInHand
<1>11. edits = 0 /\ HasInHand(req) => jobs[req.job].kind \in {"prompt", "none"}
  BY <1>4, <1>6, <1>10
<1> QED
  BY <1>4, <1>5, <1>8, <1>9, <1>11, OneRequestMoves

LEMMA CronAsk ==
  ASSUME CronInv, NEW r \in CronRequests, NEW op \in CronOps, NEW j \in Jobs, NEW holds \in Tokens,
         AskCron(r, op, j, holds)
  PROVE  CronInv'
<1> DEFINE new == [NotAsked EXCEPT !.op = op, !.job = j, !.holds = holds]
           refused == [new EXCEPT !.step = "done", !.answer = "forbidden"]
           taken == [new EXCEPT !.step = "valid"]
           req == IF PermissionFor(op) \notin holds THEN refused ELSE taken
<1>1. asked' = [asked EXCEPT ![r] = req] /\ UNCHANGED <<jobs, edits>>
  BY DEF AskCron
<1>2. NotAsked \in RequestType /\ NotAsked.step = "new" /\ NotAsked.saw = "none"
      /\ NotAsked.call = "none" /\ NotAsked.open = FALSE /\ NotAsked.upstream = "none"
      /\ NotAsked.done = {} /\ NotAsked.answer = "none"
  BY DEF NotAsked, RequestType, CronAnswers
<1>3. new \in RequestType /\ new.op = op /\ new.job = j /\ new.holds = holds /\ new.saw = "none"
      /\ new.call = "none" /\ new.open = FALSE /\ new.upstream = "none"
      /\ new.done = {} /\ new.answer = "none"
  BY <1>2, CronConstantsAssumption DEF RequestType
<1> HIDE DEF new
<1>4. req \in RequestType /\ req.op = op /\ req.job = j /\ req.holds = holds /\ req.saw = "none"
      /\ req.call = "none" /\ req.open = FALSE /\ req.upstream = "none" /\ req.done = {}
      /\ IF PermissionFor(op) \notin holds THEN req.step = "done" /\ req.answer = "forbidden"
         ELSE req.step = "valid" /\ req.answer = "none"
  BY <1>3 DEF RequestType, CronAnswers
<1> HIDE DEF req
<1>5. RequestInOrder(req)
  BY <1>4, OpsAre DEF RequestInOrder, CallsOf, ChangedByNow, ChangedBefore
<1>6. RequestAnswered(req) /\ ~HasInHand(req)
  BY <1>4 DEF RequestAnswered, HasInHand
<1> QED
  BY <1>1, <1>4, <1>5, <1>6, OneRequestMoves

LEMMA AnsweredIs ==
  ASSUME CronInv, NEW r \in CronRequests, NEW code, Answered(r, code), ~asked[r].open
  PROVE  asked' = [asked EXCEPT ![r] = [asked[r] EXCEPT !.step = "done", !.answer = code, !.open = FALSE]]
<1>1. asked[r] \in RequestType
  BY DEF CronInv, CronTyped
<1>2. [asked[r] EXCEPT !.step = "done", !.answer = code, !.open = FALSE]
      = [asked[r] EXCEPT !.step = "done", !.answer = code]
  BY <1>1 DEF RequestType
<1> QED
  BY <1>2 DEF Answered, CronInv, CronTyped

LEMMA CronDispatch ==
  ASSUME CronInv, NEW r \in CronRequests, Dispatches(r)
  PROVE  CronInv'
<1> USE DEF Dispatches
<1>1. asked[r].step = "valid" /\ RequestInOrder(asked[r]) /\ asked[r] \in RequestType
  BY DEF CronInv, CronTyped
<1>2. asked[r].op \in CronOps /\ asked[r].call = "none" /\ ~asked[r].open /\ asked[r].done = {}
  BY <1>1, OpsAre DEF RequestInOrder, ChangedByNow, ChangedBefore
<1>3. CASE Answered(r, "invalid")
  BY <1>1, <1>2, <1>3, AnsweredIs, EndsKeep DEF CronAnswers
<1>4. CASE CallsHost(r, FirstCall(asked[r].op))
  <2>1. FirstCall(asked[r].op) \in CallsOf(asked[r].op) \ {"none"} /\ FirstCall(asked[r].op) # "pause"
        /\ FirstCall(asked[r].op) \in {"list", "get", "check", "create"}
    BY <1>2, CallsAre, OpsAre DEF FirstCall
  <2> QED
    BY <1>1, <1>2, <1>4, <2>1, CallsKeep
<1> QED
  BY <1>3, <1>4

LEMMA CronRefuses ==
  ASSUME CronInv, NEW r \in CronRequests, HostRefuses(r)
  PROVE  CronInv'
<1> PICK code \in {"not_found", "conflict"} :
        asked' = [asked EXCEPT ![r].open = FALSE, ![r].upstream = code]
  BY DEF HostRefuses
<1> DEFINE old == asked[r]
           req == [old EXCEPT !.open = FALSE, !.upstream = code]
<1>1. old \in RequestType /\ RequestInOrder(old) /\ RequestAnswered(old)
  BY DEF CronInv, CronTyped
<1>2. req \in RequestType /\ req.op = old.op /\ req.job = old.job /\ req.holds = old.holds
      /\ req.step = old.step /\ req.saw = old.saw /\ req.call = old.call /\ req.open = FALSE
      /\ req.upstream = code /\ req.done = old.done /\ req.answer = old.answer
  BY <1>1 DEF RequestType
<1>3. asked' = [asked EXCEPT ![r] = req]
  BY DEF CronInv, CronTyped
<1>4. old.open /\ UNCHANGED <<jobs, edits>>
  BY DEF HostRefuses
<1> HIDE DEF old, req
<1>5. old.upstream = "none" /\ old.call # "none"
  BY <1>1, <1>4 DEF RequestInOrder
<1>6. old.step \notin {"new", "valid"} /\ old.op # "none"
  BY <1>1, <1>5 DEF RequestInOrder, NotAsked
<1>7. RequestInOrder(req)
  <2>1. ChangedByNow(req) = ChangedByNow(old)
    BY <1>2, <1>5 DEF ChangedByNow, ChangedBefore
  <2> QED
    BY <1>1, <1>2, <1>5, <1>6, <2>1 DEF RequestInOrder
<1>8. RequestAnswered(req) /\ ~HasInHand(req)
  BY <1>1, <1>2 DEF RequestAnswered, HasInHand
<1> QED
  BY <1>2, <1>3, <1>4, <1>7, <1>8, OneRequestMoves

LEMMA CronFails ==
  ASSUME CronInv, NEW r \in CronRequests, CronCallFails(r)
  PROVE  CronInv'
<1> DEFINE old == asked[r]
<1>1. old \in RequestType
  BY DEF CronInv, CronTyped
<1>2. old.step = "waits" /\ UNCHANGED <<jobs, edits>> /\ old.open \in BOOLEAN
  BY <1>1 DEF CronCallFails, RequestType
<1>3. CASE Answered(r, "upstream_error")
  <2>1. [old EXCEPT !.step = "done", !.answer = "upstream_error", !.open = old.open]
        = [old EXCEPT !.step = "done", !.answer = "upstream_error"]
    BY <1>1 DEF RequestType
  <2>2. asked' = [asked EXCEPT ![r] = [old EXCEPT !.step = "done", !.answer = "upstream_error", !.open = old.open]]
    BY <1>3, <2>1 DEF Answered, CronInv, CronTyped
  <2> QED
    BY <1>2, <2>2, EndsKeep DEF CronAnswers
<1>4. CASE asked' = [asked EXCEPT ![r].step = "done", ![r].answer = "upstream_error", ![r].open = FALSE]
  <2>1. asked' = [asked EXCEPT ![r] = [old EXCEPT !.step = "done", !.answer = "upstream_error", !.open = FALSE]]
    BY <1>4 DEF CronInv, CronTyped
  <2> QED
    BY <1>2, <2>1, EndsKeep DEF CronAnswers
<1> QED
  BY <1>3, <1>4 DEF CronCallFails

LEMMA CronHostAnswers ==
  ASSUME CronInv, NEW r \in CronRequests, HostAnswers(r)
  PROVE  CronInv'
<1> DEFINE q == asked[r]
<1>1. q \in RequestType /\ RequestInOrder(q) /\ RequestAnswered(q)
  BY DEF CronInv, CronTyped
<1>2. /\ q.step = "waits" /\ q.upstream # "none" /\ UNCHANGED <<jobs, edits>>
      /\ \/ ~Succeeded(q) /\ Answered(r, q.upstream)
         \/ Succeeded(q) /\ q.call = "check" /\ Manageable(q.saw) /\ CallsHost(r, q.op)
         \/ Succeeded(q) /\ q.call = "check" /\ ~Manageable(q.saw) /\ Answered(r, "unsupported")
         \/ Succeeded(q) /\ q.call = "create" /\ q.op = "createPaused" /\ CallsHost(r, "pause")
         \/ Succeeded(q) /\ q.call # "check" /\ ~(q.call = "create" /\ q.op = "createPaused")
               /\ Answered(r, "ok")
  BY DEF HostAnswers
<1>3. edits = 0 /\ HasInHand(q) => jobs[q.job].kind \in {"prompt", "none"}
  BY DEF CronInv, JobsInHand
<1>4. \A code : Answered(r, code) /\ ~q.open =>
         asked' = [asked EXCEPT ![r] = [q EXCEPT !.step = "done", !.answer = code, !.open = FALSE]]
  BY AnsweredIs
<1>5. ~q.open /\ q.call # "none" /\ q.op \in CronOps /\ q.op # "none"
      /\ q.call \in CallsOf(q.op) /\ q.done = ChangedByNow(q)
  BY <1>1, <1>2, OpsAre DEF RequestInOrder
<1>6. CASE ~Succeeded(q) /\ Answered(r, q.upstream)
  <2>1. q.upstream \in {"not_found", "conflict"}
    BY <1>1, <1>2, <1>6 DEF RequestType, Succeeded
  <2>2. q.done \subseteq IF q.op = "createPaused" THEN {"create"} ELSE {}
    BY <1>5, <2>1 DEF ChangedByNow, ChangedBefore
  <2> HIDE DEF q
  <2>3. asked' = [asked EXCEPT ![r] = [q EXCEPT !.step = "done", !.answer = q.upstream, !.open = FALSE]]
    BY <1>4, <1>5, <1>6
  <2> QED
    BY <1>2, <2>1, <2>2, <2>3, EndsKeep DEF CronAnswers, q
<1>7. CASE Succeeded(q) /\ q.call = "check" /\ Manageable(q.saw) /\ CallsHost(r, q.op)
  <2>1. q.op \in Checked /\ q.op \in CallsOf(q.op) \ {"none"}
    BY <1>5, <1>7, OpsAre DEF CallsOf, FirstCall
  <2>2. q.done = {} /\ q.op # "createPaused"
    BY <1>5, <1>7, <2>1, OpsAre DEF ChangedByNow, ChangedBefore
  <2>3. edits = 0 => jobs[q.job].kind \in {"prompt", "none"}
    BY <1>3, <1>7 DEF HasInHand, Succeeded, Manageable
  <2> QED
    BY <1>2, <1>7, <2>1, <2>2, <2>3, CallsKeep
<1>8. CASE Succeeded(q) /\ q.call = "check" /\ ~Manageable(q.saw) /\ Answered(r, "unsupported")
  <2>1. q.done = {}
    BY <1>5, <1>8, OpsAre DEF ChangedByNow, ChangedBefore
  <2>2. asked' = [asked EXCEPT ![r] = [q EXCEPT !.step = "done", !.answer = "unsupported", !.open = FALSE]]
    BY <1>4, <1>5, <1>8
  <2> QED
    BY <1>2, <2>1, <2>2, EndsKeep DEF CronAnswers
<1>9. CASE Succeeded(q) /\ q.call = "create" /\ q.op = "createPaused" /\ CallsHost(r, "pause")
  <2>1. "pause" \in CallsOf(q.op) \ {"none"}
    BY <1>9 DEF CallsOf
  <2>2. q.done = {"create"}
    BY <1>5, <1>9, OpsAre DEF ChangedByNow, ChangedBefore, Succeeded
  <2>3. edits = 0 => jobs[q.job].kind \in {"prompt", "none"}
    BY <1>3, <1>9 DEF HasInHand, Succeeded
  <2> QED
    BY <1>2, <1>9, <2>1, <2>2, <2>3, CallsKeep
<1>10. CASE Succeeded(q) /\ q.call # "check" /\ ~(q.call = "create" /\ q.op = "createPaused")
              /\ Answered(r, "ok")
  <2>1. q.op \notin Reading =>
           q.done = IF q.op = "createPaused" THEN {"create", "pause"} ELSE {q.op}
    BY <1>5, <1>10, OpsAre DEF CallsOf, FirstCall, ChangedByNow, ChangedBefore, Succeeded
  <2>2. asked' = [asked EXCEPT ![r] = [q EXCEPT !.step = "done", !.answer = "ok", !.open = FALSE]]
    BY <1>4, <1>5, <1>10
  <2> QED
    BY <1>2, <2>1, <2>2, EndsKeep DEF CronAnswers
<1> QED
  BY <1>2, <1>6, <1>7, <1>8, <1>9, <1>10

(* The host changes a job only to a prompt that delivers locally, or       *)
(* removes it, unless someone at the host has edited the jobs.             *)
LEMMA CronHandles ==
  ASSUME CronInv, NEW r \in CronRequests, NEW j \in Jobs, HostHandles(r, j)
  PROVE  CronInv'
<1> DEFINE q == asked[r]
           req == [q EXCEPT !.open = FALSE, !.upstream = "ok", !.saw = jobs[j].kind, !.job = j,
                            !.done = IF q.call \in NoChange THEN @ ELSE @ \cup {q.call}]
<1>1. q \in RequestType /\ RequestInOrder(q) /\ RequestAnswered(q)
  BY DEF CronInv, CronTyped
<1>2. /\ q.open /\ edits' = edits
      /\ IF q.call = "create" THEN jobs[j] = NoJob
         ELSE j = q.job /\ (q.call = "list" \/ jobs[j] # NoJob)
      /\ jobs' = IF q.call \in NoChange THEN jobs ELSE [jobs EXCEPT ![j] = Changed(jobs[j], q.call)]
      /\ asked' = [asked EXCEPT ![r] = req]
  BY DEF HostHandles
<1>3. jobs[j] \in JobType /\ (jobs[j].kind = "none" => jobs[j] = NoJob) /\ jobs \in [Jobs -> JobType]
  BY DEF CronInv, CronTyped
<1>4. q.call # "none" /\ q.upstream = "none" /\ q.op \in CronOps /\ q.op # "none"
      /\ q.step \notin {"new", "valid"} /\ q.call \in CallsOf(q.op)
  BY <1>1, <1>2, OpsAre DEF RequestInOrder, NotAsked
<1>5. q.call \in CronOps \cup {"check"} /\ q.call # "createPaused"
  BY <1>4, OpsAre, CallsAre DEF CallsOf
<1>6. q.answer \in {"none", "upstream_error"}
  BY <1>1, <1>2 DEF RequestAnswered
<1>7. /\ req.op = q.op /\ req.job = j /\ req.holds = q.holds /\ req.step = q.step
      /\ req.saw = jobs[j].kind /\ req.call = q.call /\ req.open = FALSE
      /\ req.upstream = "ok" /\ req.answer = q.answer
      /\ req.done = IF q.call \in NoChange THEN q.done ELSE q.done \cup {q.call}
  BY <1>1 DEF RequestType
<1>8. req \in RequestType
  <2>1. (IF q.call \in NoChange THEN q.done ELSE q.done \cup {q.call}) \in SUBSET CronOps
    BY <1>1, <1>5, OpsAre DEF RequestType
  <2>2. jobs[j].kind \in Kinds \cup {"none"}
    BY <1>3 DEF JobType
  <2> QED
    BY <1>1, <2>1, <2>2, ZenonT(40) DEF RequestType
<1>9. edits = 0 => \A s \in CronRequests : HasInHand(asked[s]) => jobs[asked[s].job].kind \in {"prompt", "none"}
  BY DEF CronInv, JobsInHand
<1>10. edits = 0 /\ HasInHand(q) => jobs[q.job].kind \in {"prompt", "none"}
  BY <1>9
<1> HIDE DEF q, req
<1>11. RequestInOrder(req)
  <2>1. ChangedByNow(q) = ChangedBefore(q) /\ ChangedBefore(req) = ChangedBefore(q)
    BY <1>4, <1>7 DEF ChangedByNow, ChangedBefore
  <2>2. q.done = ChangedBefore(q)
    BY <1>1, <2>1 DEF RequestInOrder
  <2>3. req.done = ChangedByNow(req)
    BY <1>4, <1>7, <2>1, <2>2 DEF ChangedByNow
  <2> QED
    BY <1>1, <1>4, <1>7, <2>3 DEF RequestInOrder
<1>12. RequestAnswered(req)
  BY <1>6, <1>7 DEF RequestAnswered
<1>13. Changed(jobs[j], q.call) \in JobType
       /\ (q.call \notin NoChange /\ Changed(jobs[j], q.call).kind = "none" => Changed(jobs[j], q.call) = NoJob)
       /\ (q.call \notin NoChange /\ edits = 0 => Changed(jobs[j], q.call).kind \in {"prompt", "none"}
                                    /\ (Changed(jobs[j], q.call).touched => Changed(jobs[j], q.call).kind = "prompt"))
  <2>1. CASE q.call = "create"
    BY <2>1 DEF Changed, JobOf, NoJob, JobType, Kinds
  <2>2. CASE q.call = "delete"
    BY <2>2 DEF Changed, NoJob, JobType
  <2>3. CASE q.call \notin {"create", "delete"}
    <3>1. Changed(jobs[j], q.call) \in JobType /\ Changed(jobs[j], q.call).kind = jobs[j].kind
      BY <1>3, <2>3 DEF Changed, JobType
    <3>2. q.call \notin NoChange => jobs[j].kind # "none"
      BY <1>2, <1>3, <2>3, OpsAre
    <3>3. q.call \notin NoChange /\ edits = 0 => jobs[j].kind \in {"prompt", "none"}
      BY <1>2, <1>5, <1>10, <2>3, OpsAre DEF HasInHand
    <3> QED
      BY <3>1, <3>2, <3>3
  <2> QED
    BY <2>1, <2>2, <2>3
<1>14. jobs' \in [Jobs -> JobType]
       /\ \A i \in Jobs : \/ jobs'[i] = jobs[i]
                          \/ i = j /\ q.call \notin NoChange /\ jobs'[i] = Changed(jobs[j], q.call)
  BY <1>2, <1>3, <1>13
<1>15. \A s \in CronRequests : asked'[s] = IF s = r THEN req ELSE asked[s]
  BY <1>2 DEF CronInv, CronTyped
<1>16. CronTyped'
  <2>1. asked' \in [CronRequests -> RequestType]
    BY <1>2, <1>8 DEF CronInv, CronTyped
  <2>2. \A i \in Jobs : jobs'[i].kind = "none" => jobs'[i] = NoJob
    BY <1>13, <1>14 DEF CronInv, CronTyped
  <2> QED
    BY <1>2, <1>14, <2>1, <2>2 DEF CronInv, CronTyped
<1>17. \A s \in CronRequests : RequestInOrder(asked'[s]) /\ RequestAnswered(asked'[s])
  BY <1>11, <1>12, <1>15 DEF CronInv
<1>18. JobsInHand'
  <2> SUFFICES ASSUME edits = 0 PROVE JobsInHand'
    BY <1>2 DEF JobsInHand
  <2>1. \A i \in Jobs : jobs'[i].touched => jobs'[i].kind = "prompt"
    BY <1>13, <1>14 DEF CronInv, JobsInHand
  <2>2. \A i \in Jobs : jobs[i].kind \in {"prompt", "none"} => jobs'[i].kind \in {"prompt", "none"}
    BY <1>13, <1>14
  <2>3. HasInHand(req) => jobs'[j].kind \in {"prompt", "none"}
    <3>1. CASE q.call = "create"
      BY <1>13, <1>2, <1>3, <3>1, OpsAre DEF Changed, JobOf, NoJob
    <3>2. CASE q.call # "create" /\ HasInHand(req)
      <4>1. jobs[j].kind = "prompt"
        BY <1>7, <3>2 DEF HasInHand
      <4> QED
        BY <4>1, <2>2
    <3> QED
      BY <3>1, <3>2
  <2>4. ASSUME NEW s \in CronRequests, HasInHand(asked'[s])
        PROVE  jobs'[asked'[s].job].kind \in {"prompt", "none"}
    <3>1. CASE s = r
      BY <1>7, <1>15, <2>3, <2>4, <3>1
    <3>2. CASE s # r
      <4>1. asked'[s] = asked[s] /\ jobs[asked[s].job].kind \in {"prompt", "none"}
        BY <1>9, <1>15, <2>4, <3>2
      <4>2. asked[s].job \in Jobs
        <5>1. RequestInOrder(asked[s]) /\ asked[s] \in RequestType
          BY DEF CronInv, CronTyped
        <5>2. asked[s].call # "none"
          BY <2>4, <4>1, <5>1, OpsAre DEF HasInHand, RequestInOrder
        <5> QED
          BY <5>1, <5>2 DEF RequestInOrder, RequestType
      <4> QED
        BY <2>2, <4>1, <4>2
    <3> QED
      BY <3>1, <3>2
  <2> QED
    BY <2>1, <2>4 DEF JobsInHand
<1> QED
  BY <1>16, <1>17, <1>18 DEF CronInv

LEMMA CronEdit ==
  ASSUME CronInv, NEW j \in Jobs, NEW job \in {NoJob} \cup {JobOf(kind) : kind \in Kinds}, HostEdits(j, job)
  PROVE  CronInv'
<1>1. job \in JobType /\ (job.kind = "none" => job = NoJob)
  <2>1. NoJob \in JobType /\ \A kind \in Kinds : JobOf(kind) \in JobType /\ JobOf(kind).kind = kind
    BY DEF NoJob, JobOf, JobType
  <2> QED
    BY <2>1 DEF Kinds
<1>2. edits \in Nat /\ edits' = edits + 1 /\ edits < MaxEdits /\ asked' = asked
      /\ jobs' = [jobs EXCEPT ![j] = job]
  BY CronConstantsAssumption DEF CronInv, CronTyped, HostEdits
<1>3. edits' \in 0..MaxEdits /\ edits' # 0
  BY <1>2, CronConstantsAssumption
<1>4. CronTyped'
  BY <1>1, <1>2, <1>3 DEF CronInv, CronTyped
<1> QED
  BY <1>2, <1>3, <1>4 DEF CronInv, JobsInHand

LEMMA CronKeeps == CronInv /\ [CronNext]_cronVars => CronInv'
<1> SUFFICES ASSUME CronInv, [CronNext]_cronVars PROVE CronInv'
  OBVIOUS
<1>1. CASE UNCHANGED cronVars
  BY <1>1 DEF cronVars, CronInv, CronTyped, JobsInHand
<1>2. ASSUME NEW r \in CronRequests, NEW op \in CronOps, NEW j \in Jobs, NEW holds \in Tokens,
             AskCron(r, op, j, holds)
      PROVE  CronInv'
  BY <1>2, CronAsk
<1>3. ASSUME NEW r \in CronRequests, CronGoesOn(r) \/ HostRefuses(r) PROVE CronInv'
  BY <1>3, CronDispatch, CronHostAnswers, CronFails, CronRefuses DEF CronGoesOn
<1>4. ASSUME NEW r \in CronRequests, NEW j \in Jobs, HostHandles(r, j) PROVE CronInv'
  BY <1>4, CronHandles
<1>5. ASSUME NEW j \in Jobs, NEW job \in {NoJob} \cup {JobOf(kind) : kind \in Kinds}, HostEdits(j, job)
      PROVE  CronInv'
  BY <1>5, CronEdit
<1> QED
  BY <1>1, <1>2, <1>3, <1>4, <1>5 DEF CronNext

LEMMA CronAlways == CronSpec => [](CronTypeOK /\ CronIsSound)
<1>1. CronInit => CronInv
  BY CronStart
<1>2. CronInv /\ [CronNext]_cronVars => CronInv'
  BY CronKeeps
<1>3. CronInv => CronTypeOK /\ CronIsSound
  BY CronInvImplies
<1> QED
  BY <1>1, <1>2, <1>3, PTL DEF CronSpec

-----------------------------------------------------------------------------
(* Kanban.  What a request may move follows from its plan, and how often   *)
(* it was handled from what the host answered it.                          *)

PlanType ==
    [answer : {"none", "invalid", "invalid_status", "running_requires_dispatch",
               "status_requires_action", "self_link", "confirmation_required"},
     permission : {"none", "read", "write", "execute"},
     call : {"none", "read", "create", "patch", "dry_run", "run"} \cup Actions \cup Mutations,
     status : Statuses \cup {"none"}]

(* What a plan may do that was not refused. *)
PlanIsMeant(ask, plan) ==
    /\ plan.call = "run" =>
          ask.op = "dispatch.run" /\ ask.confirmed /\ plan.permission = "execute"
    /\ plan.call \in {"create", "patch", "block", "unblock"} => plan.permission = "write"
    /\ plan.status \notin {"running", "blocked"}
    /\ plan.status \in {"done", "archived"} => ask.op \in {"complete", "archive"}
    /\ ask.op = "link.create" => ask.task # ask.other

MoveType == [task : Tasks, status : Statuses]

Payloads == {"none", "whole", "lacking", "not_ok", "broken"} \cup HostErrors

Told ==
    {"none", "ok", "not_ok", "forbidden", "invalid", "invalid_status", "running_requires_dispatch",
     "status_requires_action", "self_link", "confirmation_required", "invalid_upstream_response",
     "kanban_host_failed", "kanban_host_rejected", "kanban_host_denied", "kanban_not_found",
     "kanban_conflict"}

KanbanRequestType ==
    [ask : Asks \cup {"none"}, holds : SUBSET {"read", "write", "execute"},
     plan : PlanType \cup {Refused("none")},
     step : {"new", "waits", "done"}, open : BOOLEAN, payload : Payloads, handled : {0, 1},
     moved : SUBSET MoveType, answer : Told]

KanbanInOrder(x) ==
    /\ x.step = "new" => x = KanbanNotAsked
    /\ x.step # "new" => x.ask \in Asks /\ x.plan = Plan(x.ask)
    /\ x.open => /\ x.step # "new" /\ x.payload = "none" /\ x.moved = {}
                 /\ x.plan.answer = "none" /\ x.plan.permission \in x.holds
                 /\ x.answer \in {"none", "kanban_host_failed"}
    /\ x.handled = IF x.payload \in {"whole", "lacking", "broken"} THEN 1 ELSE 0
    /\ x.answer = "ok" => x.handled = 1
    /\ x.answer \notin {"none", "ok", "kanban_host_failed", "invalid_upstream_response"} =>
          x.handled = 0 /\ ~x.open

MeantMove(x, m) ==
    /\ m.status = "running" => x.ask.op = "dispatch.run" /\ x.ask.confirmed /\ "execute" \in x.holds
    /\ m.status \in {"done", "archived"} => x.ask.op \in {"complete", "archive"}
    /\ x.ask.op # "dispatch.run" => "write" \in x.holds

KanbanInv ==
    /\ tasks \in [Tasks -> Statuses \cup {"none"}]
    /\ links \subseteq Tasks \X Tasks /\ \A t \in Tasks : <<t, t>> \notin links
    /\ kanban \in [KanbanRequests -> KanbanRequestType]
    /\ moves \in 0..MaxMoves
    /\ \A q \in KanbanRequests :
        KanbanInOrder(kanban[q]) /\ \A m \in kanban[q].moved : MeantMove(kanban[q], m)

LEMMA KanbanInvImplies == KanbanInv => KanbanTypeOK /\ KanbanIsSound
<1> SUFFICES ASSUME KanbanInv PROVE KanbanTypeOK /\ KanbanIsSound
  OBVIOUS
<1> USE DEF KanbanInv
<1>1. ASSUME NEW q \in KanbanRequests
      PROVE  /\ kanban[q].step \in {"new", "waits", "done"} /\ kanban[q].handled \in {0, 1}
             /\ kanban[q].open => kanban[q].payload = "none"
             /\ kanban[q].answer = "ok" => kanban[q].handled = 1
             /\ kanban[q].answer \notin {"none", "ok", "kanban_host_failed", "invalid_upstream_response"} =>
                  kanban[q].handled = 0 /\ ~kanban[q].open
  BY DEF KanbanRequestType, KanbanInOrder
<1>2. KanbanTypeOK
  BY <1>1 DEF KanbanTypeOK
<1>3. AtMostOneCall
  BY <1>1 DEF AtMostOneCall
<1>4. OnlyMeantMoves
  BY DEF OnlyMeantMoves, MeantMove
<1> QED
  BY <1>2, <1>3, <1>4 DEF KanbanIsSound

LEMMA KanbanStart == KanbanInit => KanbanInv
<1> SUFFICES ASSUME KanbanInit PROVE KanbanInv
  OBVIOUS
<1> USE KanbanConstantsAssumption DEF KanbanInit
<1>1. KanbanNotAsked \in KanbanRequestType
  BY DEF KanbanNotAsked, KanbanRequestType, Refused, Payloads, Told
<1>2. KanbanInOrder(KanbanNotAsked) /\ KanbanNotAsked.moved = {}
  BY DEF KanbanNotAsked, KanbanInOrder
<1>3. tasks \in [Tasks -> Statuses \cup {"none"}]
  BY DEF Statuses, Movable
<1> QED
  BY <1>1, <1>2, <1>3 DEF KanbanInv

LEMMA PlansAreMeant ==
  ASSUME NEW ask \in Asks
  PROVE  Plan(ask) \in PlanType /\ (Plan(ask).answer = "none" => PlanIsMeant(ask, Plan(ask)))
<1>1. /\ ask.op \in KanbanOps /\ ask.status \in Statuses \cup {"none"} /\ ask.wellFormed \in BOOLEAN
      /\ ask.confirmed \in BOOLEAN
  BY DEF Asks
<1>2. \A code \in {"invalid", "invalid_status", "running_requires_dispatch",
                   "status_requires_action", "self_link", "confirmation_required"} :
         Refused(code) \in PlanType /\ Refused(code).answer # "none"
  BY DEF Refused, PlanType
<1>3. \A permission \in {"read", "write", "execute"},
         call \in {"read", "create", "patch", "dry_run", "run"} \cup Actions \cup Mutations,
         to \in Statuses \cup {"none"} :
         /\ Planned(permission, call, to) \in PlanType
         /\ Planned(permission, call, to).permission = permission
         /\ Planned(permission, call, to).call = call
         /\ Planned(permission, call, to).status = to
  BY DEF Planned, PlanType
<1> DEFINE Meant(plan) == plan \in PlanType /\ (plan.answer = "none" => PlanIsMeant(ask, plan))
<1>4. \A code \in {"invalid", "invalid_status", "running_requires_dispatch",
                   "status_requires_action", "self_link", "confirmation_required"} : Meant(Refused(code))
  BY <1>2
<1>5. \A permission \in {"read", "write", "execute"},
         call \in {"read", "create", "patch", "dry_run", "run"} \cup Actions \cup Mutations,
         to \in Statuses \cup {"none"} :
         (/\ call = "run" => ask.op = "dispatch.run" /\ ask.confirmed /\ permission = "execute"
          /\ call \in {"create", "patch", "block", "unblock"} => permission = "write"
          /\ to \notin {"running", "blocked"}
          /\ to \in {"done", "archived"} => ask.op \in {"complete", "archive"}
          /\ ask.op = "link.create" => ask.task # ask.other)
         => Meant(Planned(permission, call, to))
  BY <1>3 DEF PlanIsMeant
<1> HIDE DEF Meant
<1> USE DEF Readings, TaskOps, Actions, Mutations, DispatchOps, Statuses, Movable
<1>6. CASE ~ask.wellFormed
  BY <1>4, <1>6 DEF Plan, Meant
<1>7. CASE ask.wellFormed /\ ask.op \in Readings
  <2>1. Plan(ask) = Planned("read", "read", "none")
    BY <1>7 DEF Plan
  <2> QED
    BY <1>5, <1>7, <2>1 DEF Meant
<1>8. CASE ask.wellFormed /\ ask.op = "task.create"
  <2>1. Plan(ask) = PlanCreate(ask)
    BY <1>8 DEF Plan
  <2>2. CASE ask.status \in Movable \cup {"none"}
    BY <1>5, <1>8, <2>1, <2>2 DEF Meant, PlanCreate
  <2>3. CASE ask.status \notin Movable \cup {"none"}
    BY <1>4, <2>1, <2>3 DEF Meant, PlanCreate
  <2> QED
    BY <2>2, <2>3
<1>9. CASE ask.wellFormed /\ ask.op = "task.update"
  <2>1. Plan(ask) = PlanUpdate(ask)
    BY <1>9 DEF Plan
  <2>2. CASE ask.status \in Movable \cup {"none"}
    BY <1>5, <1>9, <2>1, <2>2 DEF Meant, PlanUpdate
  <2>3. CASE ask.status \notin Movable \cup {"none"}
    BY <1>4, <2>1, <2>3 DEF Meant, PlanUpdate
  <2> QED
    BY <2>2, <2>3
<1>10. CASE ask.wellFormed /\ ask.op \in Actions
  <2>1. Plan(ask) = PlanAction(ask)
    BY <1>10 DEF Plan
  <2>2. CASE ask.op \in {"block", "unblock"}
    <3>1. Plan(ask) = Planned("write", ask.op, "none")
      BY <2>1, <2>2 DEF PlanAction
    <3> QED
      BY <1>5, <2>2, <3>1 DEF Meant
  <2>3. CASE ask.op = "complete"
    <3>1. Plan(ask) = Planned("write", "patch", "done")
      BY <2>1, <2>3 DEF PlanAction
    <3> QED
      BY <1>5, <2>3, <3>1 DEF Meant
  <2>4. CASE ask.op = "archive"
    <3>1. Plan(ask) = Planned("write", "patch", "archived")
      BY <2>1, <2>4 DEF PlanAction
    <3> QED
      BY <1>5, <2>4, <3>1 DEF Meant
  <2> QED
    BY <1>10, <2>2, <2>3, <2>4
<1>11. CASE ask.wellFormed /\ ask.op = "comment.create"
  <2>1. Plan(ask) = Planned("write", ask.op, "none")
    BY <1>11 DEF Plan
  <2> QED
    BY <1>5, <1>11, <2>1 DEF Meant
<1>12. CASE ask.wellFormed /\ ask.op \in {"link.create", "link.delete"}
  <2>1. Plan(ask) = PlanLink(ask)
    BY <1>12 DEF Plan
  <2>2. CASE ask.task = ask.other
    BY <1>4, <2>1, <2>2 DEF Meant, PlanLink
  <2>3. CASE ask.task # ask.other
    <3>1. Plan(ask) = Planned("write", ask.op, "none")
      BY <2>1, <2>3 DEF PlanLink
    <3> QED
      BY <1>5, <1>12, <2>3, <3>1 DEF Meant
  <2> QED
    BY <2>2, <2>3
<1>13. CASE ask.wellFormed /\ ask.op \in DispatchOps
  <2>1. Plan(ask) = PlanDispatch(ask)
    BY <1>13 DEF Plan
  <2>2. CASE ask.op = "dispatch.preview"
    <3>1. Plan(ask) = Planned("execute", "dry_run", "none")
      BY <2>1, <2>2 DEF PlanDispatch
    <3> QED
      BY <1>5, <2>2, <3>1 DEF Meant
  <2>3. CASE ask.op = "dispatch.run" /\ ask.confirmed
    <3>1. Plan(ask) = Planned("execute", "run", "none")
      BY <2>1, <2>3 DEF PlanDispatch
    <3> QED
      BY <1>5, <2>3, <3>1 DEF Meant
  <2>4. CASE ask.op = "dispatch.run" /\ ~ask.confirmed
    BY <1>4, <2>1, <2>4 DEF Meant, PlanDispatch
  <2> QED
    BY <1>13, <2>2, <2>3, <2>4
<1> QED
  BY <1>1, <1>6, <1>7, <1>8, <1>9, <1>10, <1>11, <1>12, <1>13 DEF KanbanOps

LEMMA MovesAreMeant ==
  ASSUME KanbanInv, NEW q \in KanbanRequests, kanban[q].open, NEW m \in MovedBy(kanban[q])
  PROVE  m \in MoveType /\ MeantMove(kanban[q], m)
<1> DEFINE x == kanban[q]
<1>1. x \in KanbanRequestType /\ KanbanInOrder(x)
  BY DEF KanbanInv
<1>2. x.ask \in Asks /\ x.plan = Plan(x.ask) /\ x.plan.answer = "none" /\ x.plan.permission \in x.holds
  BY <1>1 DEF KanbanInOrder
<1>3. x.plan \in PlanType /\ PlanIsMeant(x.ask, x.plan) /\ x.ask.task \in Tasks
  BY <1>2, PlansAreMeant DEF Asks
<1>4. m \in MovedBy(x)
  OBVIOUS
<1> HIDE DEF x
<1>5. CASE x.plan.call = "run"
  <2>1. PICK r \in {r \in Tasks : tasks[r] = "ready"} : m = [task |-> r, status |-> "running"]
    BY <1>4, <1>5 DEF MovedBy
  <2> QED
    BY <1>2, <1>3, <1>5, <2>1 DEF MoveType, MeantMove, PlanIsMeant, Statuses, x
<1>6. CASE x.plan.call \in {"create", "patch", "block", "unblock"}
  <2>1. /\ m.task = x.ask.task /\ m = [task |-> m.task, status |-> m.status]
        /\ \/ m.status = "todo" \/ m.status = "blocked" \/ m.status = "ready"
           \/ m.status = x.plan.status /\ x.plan.status # "none"
    <3>1. CASE x.plan.call = "create"
      BY <1>4, <3>1 DEF MovedBy
    <3>2. CASE x.plan.call = "patch"
      BY <1>4, <3>2 DEF MovedBy
    <3>3. CASE x.plan.call = "block"
      BY <1>4, <3>3 DEF MovedBy
    <3>4. CASE x.plan.call = "unblock"
      BY <1>4, <3>4 DEF MovedBy
    <3> QED
      BY <1>6, <3>1, <3>2, <3>3, <3>4
  <2>2. m.status \in Statuses
    BY <1>3, <2>1 DEF PlanType, Statuses, Movable
  <2>3. "write" \in x.holds /\ m.status # "running"
    BY <1>2, <1>3, <1>6, <2>1 DEF PlanIsMeant
  <2>4. m.status \in {"done", "archived"} => x.ask.op \in {"complete", "archive"}
    BY <1>3, <2>1 DEF PlanIsMeant
  <2>5. m \in MoveType
    BY <1>3, <2>1, <2>2 DEF MoveType
  <2> QED
    BY <2>3, <2>4, <2>5 DEF MeantMove, x
<1>7. CASE x.plan.call \notin {"run", "create", "patch", "block", "unblock"}
  BY <1>4, <1>7 DEF MovedBy
<1> QED
  BY <1>5, <1>6, <1>7

(* A step of one request at the Router keeps the invariant. *)
LEMMA OneKanbanMoves ==
  ASSUME KanbanInv, NEW q \in KanbanRequests, NEW req \in KanbanRequestType, KanbanInOrder(req),
         \A m \in req.moved : MeantMove(req, m),
         kanban' = [kanban EXCEPT ![q] = req], UNCHANGED <<tasks, links, moves>>
  PROVE  KanbanInv'
<1>1. \A s \in KanbanRequests : kanban'[s] = IF s = q THEN req ELSE kanban[s]
  BY DEF KanbanInv
<1>2. kanban' \in [KanbanRequests -> KanbanRequestType]
  BY DEF KanbanInv
<1> QED
  BY <1>1, <1>2 DEF KanbanInv

LEMMA KanbanAsk ==
  ASSUME KanbanInv, NEW q \in KanbanRequests, NEW ask \in Asks, NEW holds \in Grants,
         AskKanban(q, ask, holds)
  PROVE  KanbanInv'
<1> DEFINE plan == Plan(ask)
           asking == [KanbanNotAsked EXCEPT !.ask = ask, !.holds = holds, !.plan = plan]
           req == IF plan.answer # "none" THEN [asking EXCEPT !.step = "done", !.answer = plan.answer]
                  ELSE IF plan.permission \notin holds
                  THEN [asking EXCEPT !.step = "done", !.answer = "forbidden"]
                  ELSE [asking EXCEPT !.step = "waits", !.open = TRUE]
<1>1. kanban' = [kanban EXCEPT ![q] = req] /\ UNCHANGED <<tasks, links, moves>>
  BY DEF AskKanban
<1>2. KanbanNotAsked \in KanbanRequestType /\ KanbanNotAsked.open = FALSE /\ KanbanNotAsked.payload = "none"
      /\ KanbanNotAsked.handled = 0 /\ KanbanNotAsked.moved = {} /\ KanbanNotAsked.answer = "none"
  BY DEF KanbanNotAsked, KanbanRequestType, Refused, Payloads, Told
<1>3. plan \in PlanType /\ plan = Plan(ask)
  BY PlansAreMeant
<1> HIDE DEF plan
<1>4. asking \in KanbanRequestType /\ asking.ask = ask /\ asking.holds = holds /\ asking.plan = plan
      /\ asking.open = FALSE /\ asking.payload = "none" /\ asking.handled = 0 /\ asking.moved = {}
      /\ asking.answer = "none"
  BY <1>2, <1>3, KanbanConstantsAssumption DEF KanbanRequestType
<1> HIDE DEF asking
<1>5. req \in KanbanRequestType /\ req.ask = ask /\ req.holds = holds /\ req.plan = plan
      /\ req.payload = "none" /\ req.handled = 0 /\ req.moved = {} /\ req.step # "new"
      /\ IF plan.answer # "none" THEN req.open = FALSE /\ req.answer = plan.answer
         ELSE IF plan.permission \notin holds THEN req.open = FALSE /\ req.answer = "forbidden"
         ELSE req.open = TRUE /\ req.answer = "none"
  <2>1. CASE plan.answer # "none"
    <3>1. plan.answer \in Told
      BY <1>3 DEF PlanType, Told
    <3> QED
      BY <1>4, <2>1, <3>1 DEF KanbanRequestType
  <2>2. CASE plan.answer = "none" /\ plan.permission \notin holds
    BY <1>4, <2>2 DEF KanbanRequestType, Told
  <2>3. CASE plan.answer = "none" /\ plan.permission \in holds
    BY <1>4, <2>3 DEF KanbanRequestType
  <2> QED
    BY <2>1, <2>2, <2>3
<1> HIDE DEF req
<1>6. plan.answer # "ok"
  BY <1>3 DEF PlanType
<1>7. KanbanInOrder(req)
  BY <1>3, <1>5, <1>6 DEF KanbanInOrder
<1> QED
  BY <1>1, <1>5, <1>7, OneKanbanMoves

LEMMA KanbanRefusal ==
  ASSUME KanbanInv, NEW q \in KanbanRequests, KanbanHostRefuses(q)
  PROVE  KanbanInv'
<1> PICK code \in HostErrors : kanban' = [kanban EXCEPT ![q].open = FALSE, ![q].payload = code]
  BY DEF KanbanHostRefuses
<1> DEFINE x == kanban[q]
           req == [x EXCEPT !.open = FALSE, !.payload = code]
<1>1. x \in KanbanRequestType /\ KanbanInOrder(x) /\ x.open
  BY DEF KanbanInv, KanbanHostRefuses
<1>2. kanban' = [kanban EXCEPT ![q] = req] /\ UNCHANGED <<tasks, links, moves>>
  BY DEF KanbanInv, KanbanHostRefuses
<1> HIDE DEF x
<1>3. req \in KanbanRequestType /\ req.ask = x.ask /\ req.holds = x.holds /\ req.plan = x.plan
      /\ req.step = x.step /\ req.open = FALSE /\ req.payload = code /\ req.handled = x.handled
      /\ req.moved = x.moved /\ req.answer = x.answer
  BY <1>1 DEF KanbanRequestType, Payloads
<1> HIDE DEF req
<1>4. KanbanInOrder(req) /\ req.moved = {}
  BY <1>1, <1>3 DEF KanbanInOrder, HostErrors
<1> QED
  BY <1>2, <1>3, <1>4, OneKanbanMoves

LEMMA KanbanAnswer ==
  ASSUME KanbanInv, NEW q \in KanbanRequests, KanbanAnswers(q)
  PROVE  KanbanInv'
<1> DEFINE x == kanban[q]
           answer == Projection(x.ask.op, x.payload)
           req == [x EXCEPT !.step = "done", !.answer = answer]
<1>1. x \in KanbanRequestType /\ KanbanInOrder(x) /\ x.step = "waits" /\ x.payload # "none"
      /\ \A m \in x.moved : MeantMove(x, m)
  BY DEF KanbanInv, KanbanAnswers
<1>2. kanban' = [kanban EXCEPT ![q] = req] /\ UNCHANGED <<tasks, links, moves>>
  BY DEF KanbanInv, KanbanAnswers
<1> HIDE DEF x
<1>3. /\ answer \in Told
      /\ answer = "ok" => x.payload \in {"whole", "lacking"}
      /\ answer \notin {"ok", "invalid_upstream_response"} => x.payload \in HostErrors \cup {"not_ok"}
  <2>1. x.payload \in Payloads
    BY <1>1 DEF KanbanRequestType
  <2>2. CASE x.payload \in HostErrors
    BY <2>2 DEF Projection, HostErrors, Told
  <2>3. CASE x.payload \in {"whole", "lacking", "not_ok", "broken"}
    BY <2>3 DEF Projection, HostErrors, Told
  <2> QED
    BY <1>1, <2>1, <2>2, <2>3 DEF Payloads
<1> HIDE DEF answer
<1>4. req \in KanbanRequestType /\ req.ask = x.ask /\ req.holds = x.holds /\ req.plan = x.plan
      /\ req.step = "done" /\ req.open = x.open /\ req.payload = x.payload /\ req.handled = x.handled
      /\ req.moved = x.moved /\ req.answer = answer
  BY <1>1, <1>3 DEF KanbanRequestType
<1> HIDE DEF req
<1>5. ~x.open
  BY <1>1 DEF KanbanInOrder
<1>6. KanbanInOrder(req)
  BY <1>1, <1>3, <1>4, <1>5 DEF KanbanInOrder, HostErrors
<1>7. \A m \in req.moved : MeantMove(req, m)
  BY <1>1, <1>4 DEF MeantMove
<1> QED
  BY <1>2, <1>4, <1>6, <1>7, OneKanbanMoves

LEMMA KanbanFail ==
  ASSUME KanbanInv, NEW q \in KanbanRequests, KanbanCallFails(q)
  PROVE  KanbanInv'
<1> PICK open \in {FALSE, kanban[q].open} :
        kanban' = [kanban EXCEPT ![q].step = "done", ![q].answer = "kanban_host_failed", ![q].open = open]
  BY DEF KanbanCallFails
<1> DEFINE x == kanban[q]
           req == [x EXCEPT !.step = "done", !.answer = "kanban_host_failed", !.open = open]
<1>1. x \in KanbanRequestType /\ KanbanInOrder(x) /\ x.step = "waits" /\ (open => x.open) /\ open \in BOOLEAN
      /\ \A m \in x.moved : MeantMove(x, m)
  BY DEF KanbanInv, KanbanCallFails, KanbanRequestType
<1>2. kanban' = [kanban EXCEPT ![q] = req] /\ UNCHANGED <<tasks, links, moves>>
  BY DEF KanbanInv, KanbanCallFails
<1> HIDE DEF x
<1>3. req \in KanbanRequestType /\ req.ask = x.ask /\ req.holds = x.holds /\ req.plan = x.plan
      /\ req.step = "done" /\ req.open = open /\ req.payload = x.payload /\ req.handled = x.handled
      /\ req.moved = x.moved /\ req.answer = "kanban_host_failed"
  BY <1>1 DEF KanbanRequestType, Told
<1> HIDE DEF req
<1>4. KanbanInOrder(req)
  BY <1>1, <1>3 DEF KanbanInOrder
<1>5. \A m \in req.moved : MeantMove(req, m)
  BY <1>1, <1>3 DEF MeantMove
<1> QED
  BY <1>2, <1>3, <1>4, <1>5, OneKanbanMoves

(* What the host does for a call is what the call's plan was for. *)
LEMMA KanbanHandled ==
  ASSUME KanbanInv, NEW q \in KanbanRequests, KanbanHostHandles(q)
  PROVE  KanbanInv'
<1> DEFINE x == kanban[q]
<1>1. x \in KanbanRequestType /\ KanbanInOrder(x) /\ x.open
  BY DEF KanbanInv, KanbanHostHandles
<1> PICK moved \in SUBSET MovedBy(x), payload \in {"whole", "lacking", "not_ok", "broken"} :
        /\ tasks' = [t \in Tasks |->
              IF \E m \in moved : m.task = t THEN (CHOOSE m \in moved : m.task = t).status
              ELSE tasks[t]]
        /\ links' = IF payload = "not_ok" THEN links ELSE LinksAfter(x.ask)
        /\ kanban' = [kanban EXCEPT ![q].open = FALSE, ![q].payload = payload,
              ![q].moved = @ \cup moved, ![q].handled = IF payload = "not_ok" THEN @ ELSE @ + 1]
  BY DEF KanbanHostHandles
<1>2. \A m \in moved : m \in MoveType /\ MeantMove(x, m)
  BY <1>1, MovesAreMeant
<1>3. x.ask \in Asks /\ x.plan = Plan(x.ask) /\ x.plan.answer = "none" /\ x.payload = "none"
      /\ x.moved = {} /\ x.step # "new" /\ x.handled = 0 /\ x.answer \in {"none", "kanban_host_failed"}
  BY <1>1 DEF KanbanInOrder
<1> DEFINE handled == IF payload = "not_ok" THEN x.handled ELSE x.handled + 1
           req == [x EXCEPT !.open = FALSE, !.payload = payload, !.moved = x.moved \cup moved,
                            !.handled = handled]
<1>4. kanban' = [kanban EXCEPT ![q] = req]
  BY DEF KanbanInv
<1>5. handled = IF payload = "not_ok" THEN 0 ELSE 1
  BY <1>3
<1>6. x.moved \cup moved = moved /\ moved \in SUBSET MoveType
  BY <1>2, <1>3
<1>7. moves' = moves
  BY DEF KanbanHostHandles
<1> HIDE DEF x, handled
<1>8. req \in KanbanRequestType /\ req.ask = x.ask /\ req.holds = x.holds /\ req.plan = x.plan
      /\ req.step = x.step /\ req.open = FALSE /\ req.payload = payload /\ req.handled = handled
      /\ req.moved = moved /\ req.answer = x.answer
  BY <1>1, <1>5, <1>6 DEF KanbanRequestType, Payloads
<1> HIDE DEF req
<1>9. KanbanInOrder(req)
  BY <1>1, <1>3, <1>5, <1>8 DEF KanbanInOrder
<1>10. \A m \in req.moved : MeantMove(req, m)
  BY <1>2, <1>8 DEF MeantMove
<1>11. tasks' \in [Tasks -> Statuses \cup {"none"}]
  <2>1. ASSUME NEW t \in Tasks
        PROVE  tasks'[t] \in Statuses \cup {"none"}
    <3>1. CASE \E m \in moved : m.task = t
      BY <1>2, <3>1 DEF MoveType
    <3>2. CASE ~\E m \in moved : m.task = t
      BY <3>2 DEF KanbanInv
    <3> QED
      BY <3>1, <3>2
  <2> QED
    BY <2>1
<1>12. links' \subseteq Tasks \X Tasks /\ \A t \in Tasks : <<t, t>> \notin links'
  <2>1. x.ask.task \in Tasks /\ x.ask.other \in Tasks
    BY <1>3 DEF Asks
  <2>2. x.ask.op = "link.create" => x.ask.task # x.ask.other
    BY <1>3, PlansAreMeant DEF PlanIsMeant
  <2>3. LinksAfter(x.ask) \subseteq Tasks \X Tasks /\ \A t \in Tasks : <<t, t>> \notin LinksAfter(x.ask)
    BY <2>1, <2>2 DEF LinksAfter, KanbanInv
  <2> QED
    BY <2>3 DEF KanbanInv
<1>13. \A s \in KanbanRequests : kanban'[s] = IF s = q THEN req ELSE kanban[s]
  BY <1>4 DEF KanbanInv
<1>14. kanban' \in [KanbanRequests -> KanbanRequestType]
  BY <1>4, <1>8 DEF KanbanInv
<1>15. \A s \in KanbanRequests :
          KanbanInOrder(kanban'[s]) /\ \A m \in kanban'[s].moved : MeantMove(kanban'[s], m)
  BY <1>9, <1>10, <1>13, ZenonT(40) DEF KanbanInv
<1>16. moves' \in 0..MaxMoves
  BY <1>7 DEF KanbanInv
<1> QED
  BY <1>11, <1>12, <1>14, <1>15, <1>16 DEF KanbanInv

LEMMA KanbanKeeps == KanbanInv /\ [KanbanNext]_kanbanVars => KanbanInv'
<1> SUFFICES ASSUME KanbanInv, [KanbanNext]_kanbanVars PROVE KanbanInv'
  OBVIOUS
<1>1. CASE UNCHANGED kanbanVars
  BY <1>1 DEF kanbanVars, KanbanInv
<1>2. ASSUME NEW q \in KanbanRequests, NEW ask \in Asks, NEW holds \in Grants, AskKanban(q, ask, holds)
      PROVE  KanbanInv'
  BY <1>2, KanbanAsk
<1>3. ASSUME NEW q \in KanbanRequests, KanbanHostHandles(q) \/ KanbanHostRefuses(q) \/ KanbanGoesOn(q)
      PROVE  KanbanInv'
  BY <1>3, KanbanHandled, KanbanRefusal, KanbanAnswer, KanbanFail DEF KanbanGoesOn
<1>4. ASSUME NEW t \in Tasks, HostMoves(t) PROVE KanbanInv'
  <2>1. moves' \in 0..MaxMoves
    BY <1>4, KanbanConstantsAssumption DEF HostMoves, KanbanInv
  <2>2. tasks' \in [Tasks -> Statuses \cup {"none"}]
    BY <1>4 DEF HostMoves, KanbanInv, Statuses
  <2> QED
    BY <1>4, <2>1, <2>2 DEF HostMoves, KanbanInv
<1> QED
  BY <1>1, <1>2, <1>3, <1>4 DEF KanbanNext

LEMMA KanbanAlways == KanbanSpec => [](KanbanTypeOK /\ KanbanIsSound)
<1>1. KanbanInit => KanbanInv
  BY KanbanStart
<1>2. KanbanInv /\ [KanbanNext]_kanbanVars => KanbanInv'
  BY KanbanKeeps
<1>3. KanbanInv => KanbanTypeOK /\ KanbanIsSound
  BY KanbanInvImplies
<1> QED
  BY <1>1, <1>2, <1>3, PTL DEF KanbanSpec

-----------------------------------------------------------------------------
(* The features of an Agent.  A feature that is there now was there at     *)
(* this moment, one that is not was missing at it.                         *)

ProbeTyped ==
    /\ offered \subseteq Features
    /\ probed \in [Features -> [available : BOOLEAN, expiresAt : Nat]]
    /\ since \in [Features -> [there : Nat, gone : Nat]]
    /\ told \in [Features -> [available : BOOLEAN, at : Nat]]
    /\ now \in 0..MaxTime

SinceIsRecent ==
    \A f \in Features :
        /\ since[f].there <= now /\ since[f].gone <= now
        /\ IF f \in offered THEN since[f].there = now ELSE since[f].gone = now
        /\ probed[f].expiresAt <= now + AvailableFor + UnavailableFor

ProbeInv == ProbeTyped /\ SinceIsRecent /\ ToldOfTheRecent

(* What is told is what was found just now, or what still counts. *)
LEMMA FoundIsRecent ==
  ASSUME ProbeInv, NEW f \in Features
  PROVE  /\ Found(f) \in [available : BOOLEAN, expiresAt : Nat]
         /\ Found(f).expiresAt <= now + AvailableFor + UnavailableFor
         /\ Found(f).available => now <= since[f].there + AvailableFor
         /\ Found(f).expiresAt > now =>
              IF Found(f).available THEN Found(f).expiresAt <= since[f].there + AvailableFor
              ELSE Found(f).expiresAt <= since[f].gone + UnavailableFor
<1> USE ProbeConstantsAssumption DEF ProbeInv, ProbeTyped, SinceIsRecent
<1>1. now \in Nat /\ probed[f] \in [available : BOOLEAN, expiresAt : Nat]
      /\ since[f].there \in Nat /\ since[f].gone \in Nat
  OBVIOUS
<1>2. CASE probed[f].expiresAt > now
  <2>1. Found(f) = probed[f]
    BY <1>2 DEF Found
  <2> QED
    BY <1>1, <1>2, <2>1 DEF ToldOfTheRecent
<1>3. CASE ~(probed[f].expiresAt > now)
  <2>1. CASE f \in offered
    <3>1. Found(f) = [available |-> TRUE, expiresAt |-> now + AvailableFor]
      BY <1>3, <2>1 DEF Found
    <3>2. since[f].there = now
      BY <2>1
    <3> QED
      BY <1>1, <3>1, <3>2
  <2>2. CASE f \notin offered
    <3>1. Found(f) = [available |-> FALSE, expiresAt |-> now + UnavailableFor]
      <4>1. (f \in offered) = FALSE
        BY <2>2
      <4>2. (IF f \in offered THEN AvailableFor ELSE UnavailableFor) = UnavailableFor
        BY <2>2
      <4>3. Found(f) = [available |-> f \in offered,
                        expiresAt |-> now + IF f \in offered THEN AvailableFor ELSE UnavailableFor]
        BY <1>3 DEF Found
      <4> QED
        BY <4>1, <4>2, <4>3, Zenon
    <3>2. since[f].gone = now
      BY <2>2
    <3> QED
      BY <1>1, <3>1, <3>2
  <2> QED
    BY <2>1, <2>2
<1> QED
  BY <1>2, <1>3

LEMMA ProbeStart == ProbeInit => ProbeInv
BY ProbeConstantsAssumption DEF ProbeInit, ProbeInv, ProbeTyped, SinceIsRecent, ToldOfTheRecent, Never

LEMMA ProbeKeeps == ProbeInv /\ [ProbeNext]_probeVars => ProbeInv'
<1> SUFFICES ASSUME ProbeInv, [ProbeNext]_probeVars PROVE ProbeInv'
  OBVIOUS
<1> USE ProbeConstantsAssumption
<1>0. now \in Nat /\ \A f \in Features :
        /\ probed[f] \in [available : BOOLEAN, expiresAt : Nat] /\ told[f] \in [available : BOOLEAN, at : Nat]
        /\ since[f] \in [there : Nat, gone : Nat]
        /\ since[f].there \in Nat /\ since[f].gone \in Nat /\ probed[f].expiresAt \in Nat /\ told[f].at \in Nat
  BY DEF ProbeInv, ProbeTyped
<1>1. CASE Tick
  <2>1. now' = now + 1 /\ now' \in 0..MaxTime /\ offered' = offered /\ probed' = probed /\ told' = told
    BY <1>1 DEF Tick, ProbeInv, ProbeTyped
  <2>3. \A f \in Features :
          /\ since'[f].there \in Nat /\ since'[f].gone \in Nat
          /\ since'[f].there = IF f \in offered THEN now + 1 ELSE since[f].there
          /\ since'[f].gone = IF f \in offered THEN since[f].gone ELSE now + 1
    BY <1>0, <1>1 DEF Tick
  <2>4. since' \in [Features -> [there : Nat, gone : Nat]]
    BY <1>0, <1>1 DEF Tick
  <2>5. ProbeTyped'
    BY <2>1, <2>4 DEF ProbeInv, ProbeTyped
  <2>6. \A f \in Features : since[f].there <= since'[f].there /\ since[f].gone <= since'[f].gone
    BY <1>0, <2>3 DEF ProbeInv, SinceIsRecent
  <2>7. SinceIsRecent'
    BY <1>0, <2>1, <2>3 DEF ProbeInv, SinceIsRecent
  <2>8. ToldOfTheRecent'
    BY <1>0, <2>1, <2>3, <2>6 DEF ProbeInv, ToldOfTheRecent
  <2> QED
    BY <2>5, <2>7, <2>8 DEF ProbeInv
<1>2. ASSUME NEW features \in SUBSET Features, Announce(features) PROVE ProbeInv'
  <2>1. now' = now /\ offered' = features /\ probed' = probed /\ told' = told
    BY <1>2 DEF Announce
  <2>3. \A f \in Features :
          /\ since'[f].there \in Nat /\ since'[f].gone \in Nat
          /\ since'[f].there = IF f \in features THEN now ELSE since[f].there
          /\ since'[f].gone = IF f \in features THEN since[f].gone ELSE now
    BY <1>0, <1>2 DEF Announce
  <2>4. since' \in [Features -> [there : Nat, gone : Nat]]
    BY <1>0, <1>2 DEF Announce
  <2>5. ProbeTyped'
    BY <2>1, <2>4 DEF ProbeInv, ProbeTyped
  <2>6. \A f \in Features : since[f].there <= since'[f].there /\ since[f].gone <= since'[f].gone
    BY <1>0, <2>3 DEF ProbeInv, SinceIsRecent
  <2>7. SinceIsRecent'
    BY <1>0, <2>1, <2>3 DEF ProbeInv, SinceIsRecent
  <2>8. ToldOfTheRecent'
    BY <1>0, <2>1, <2>3, <2>6 DEF ProbeInv, ToldOfTheRecent
  <2> QED
    BY <2>5, <2>7, <2>8 DEF ProbeInv
<1>3. ASSUME NEW granted \in SUBSET Features, Capabilities(granted) PROVE ProbeInv'
  <2>1. now' = now /\ offered' = offered /\ since' = since
    BY <1>3 DEF Capabilities
  <2>2. \A f \in Features : probed'[f] = IF f \in granted THEN Found(f) ELSE probed[f]
    BY <1>3 DEF Capabilities
  <2>3. probed' \in [Features -> [available : BOOLEAN, expiresAt : Nat]]
    <3>1. probed' = [f \in Features |-> IF f \in granted THEN Found(f) ELSE probed[f]]
      BY <1>3 DEF Capabilities
    <3> QED
      BY <1>0, <3>1, FoundIsRecent
  <2>4. told' = [f \in Features |-> [available |-> f \in granted /\ Found(f).available, at |-> now]]
    BY <1>3 DEF Capabilities
  <2>5. \A f \in Features : [available |-> f \in granted /\ Found(f).available, at |-> now]
                            \in [available : BOOLEAN, at : Nat]
    BY <1>0, FoundIsRecent
  <2>6. \A f \in Features : told'[f].at = now /\ (told'[f].available => Found(f).available)
    BY <2>4
  <2>7. told' \in [Features -> [available : BOOLEAN, at : Nat]]
    BY <2>4, <2>5
  <2>8. ProbeTyped'
    BY <2>1, <2>3, <2>7 DEF ProbeInv, ProbeTyped
  <2>9. SinceIsRecent'
    BY <2>1, <2>2, FoundIsRecent DEF ProbeInv, SinceIsRecent
  <2>10. ToldOfTheRecent'
    BY <2>1, <2>2, <2>6, FoundIsRecent DEF ProbeInv, ToldOfTheRecent
  <2> QED
    BY <2>8, <2>9, <2>10 DEF ProbeInv
<1>4. CASE UNCHANGED probeVars
  BY <1>4 DEF probeVars, ProbeInv, ProbeTyped, SinceIsRecent, ToldOfTheRecent
<1> QED
  BY <1>1, <1>2, <1>3, <1>4 DEF ProbeNext

LEMMA ProbeAlways == ProbeSpec => [](ProbeTypeOK /\ ToldOfTheRecent)
<1>1. ProbeInit => ProbeInv
  BY ProbeStart
<1>2. ProbeInv /\ [ProbeNext]_probeVars => ProbeInv'
  BY ProbeKeeps
<1>3. ProbeInv => ProbeTypeOK /\ ToldOfTheRecent
  BY DEF ProbeInv, ProbeTyped, SinceIsRecent, ProbeTypeOK
<1> QED
  BY <1>1, <1>2, <1>3, PTL DEF ProbeSpec

-----------------------------------------------------------------------------
(* The writer of a stream.  First the sums of the bytes that wait: what is *)
(* appended is added, and what is taken from the front is what the rest    *)
(* lacks.                                                                  *)

LEMMA LeastNat ==
  ASSUME NEW T \in SUBSET Nat, T # {}
  PROVE  \E n \in T : \A m \in T : n <= m
<1>1. PICK x \in T : \A y \in T : ~ (<<y, x>> \in OpToRel(<, Nat))
  BY NatLessThanWellFounded, WFMin
<1>2. \A y \in T : ~(y < x)
  BY <1>1 DEF OpToRel
<1> QED
  BY <1>2

(* g[i]: the bytes of the first i values of s *)
Sums(g, s) ==
    /\ g \in [0..Len(s) -> Nat]
    /\ g[0] = 0
    /\ \A i \in 1..Len(s) : g[i] = g[i - 1] + s[i]

LEMMA SumsExist ==
  ASSUME NEW s \in Seq(Nat)
  PROVE  \E g : Sums(g, s)
<1> DEFINE Partial(k) == \E g \in [0..k -> Nat] : g[0] = 0 /\ \A i \in 1..k : g[i] = g[i - 1] + s[i]
           T == {k \in 0..Len(s) : ~Partial(k)}
<1>1. Len(s) \in Nat /\ \A i \in 1..Len(s) : s[i] \in Nat
  OBVIOUS
<1>2. T = {}
  <2> SUFFICES ASSUME T # {} PROVE FALSE
    OBVIOUS
  <2>1. PICK k \in T : \A m \in T : k <= m
    <3>1. T \in SUBSET Nat
      BY <1>1
    <3> HIDE DEF T
    <3> QED
      BY <3>1, LeastNat
  <2>2. k \in 0..Len(s) /\ ~Partial(k)
    BY <2>1
  <2>3. k # 0
    <3>1. Partial(0)
      <4> DEFINE g == [i \in 0..0 |-> 0]
      <4>1. g \in [0..0 -> Nat] /\ g[0] = 0
        OBVIOUS
      <4>2. \A i \in 1..0 : g[i] = g[i - 1] + s[i]
        OBVIOUS
      <4> HIDE DEF g
      <4> QED
        BY <4>1, <4>2
    <3> QED
      BY <2>2, <3>1
  <2>4. k - 1 \in 0..Len(s) /\ k \in Nat /\ k - 1 \in Nat /\ ~(k <= k - 1)
    BY <1>1, <2>2, <2>3
  <2>5. Partial(k - 1)
    BY <2>1, <2>4
  <2>6. PICK g \in [0..(k - 1) -> Nat] : g[0] = 0 /\ \A i \in 1..(k - 1) : g[i] = g[i - 1] + s[i]
    BY <2>5
  <2> DEFINE h == [i \in 0..k |-> IF i = k THEN g[k - 1] + s[k] ELSE g[i]]
  <2>7. h \in [0..k -> Nat] /\ h[0] = 0
    BY <1>1, <2>2, <2>3, <2>4, <2>6
  <2>8. \A i \in 1..k : h[i] = h[i - 1] + s[i]
    <3> SUFFICES ASSUME NEW i \in 1..k PROVE h[i] = h[i - 1] + s[i]
      OBVIOUS
    <3>1. CASE i = k
      <4>1. h[k] = g[k - 1] + s[k] /\ h[k - 1] = g[k - 1]
        BY <2>4
      <4> QED
        BY <3>1, <4>1
    <3>2. CASE i # k
      <4>1. i \in 1..(k - 1) /\ i \in 0..k /\ i - 1 \in 0..k /\ i - 1 # k
        BY <2>4, <3>2
      <4>2. h[i] = g[i] /\ h[i - 1] = g[i - 1]
        BY <3>2, <4>1
      <4> QED
        BY <2>6, <4>1, <4>2
    <3> QED
      BY <3>1, <3>2
  <2> HIDE DEF h
  <2>9. Partial(k)
    BY <2>7, <2>8
  <2> QED
    BY <2>2, <2>9
<1>3. Partial(Len(s))
  <2>1. Len(s) \in 0..Len(s)
    BY <1>1
  <2> HIDE DEF Partial
  <2> QED
    BY <1>2, <2>1
<1> QED
  BY <1>3 DEF Sums

LEMMA SumsAre ==
  ASSUME NEW s \in Seq(Nat), NEW g, Sums(g, s)
  PROVE  WriterBytes(s) = g[Len(s)]
<1> DEFINE h == CHOOSE h : h = [n \in 0..Len(s) |-> IF n = 0 THEN 0 ELSE h[n - 1] + s[n]]
           T == {k \in 0..Len(s) : h[k] # g[k]}
<1>1. Len(s) \in Nat
  OBVIOUS
<1>2. g = [n \in 0..Len(s) |-> IF n = 0 THEN 0 ELSE g[n - 1] + s[n]]
  <2>1. \A n \in 0..Len(s) : g[n] = IF n = 0 THEN 0 ELSE g[n - 1] + s[n]
    BY <1>1 DEF Sums
  <2> QED
    BY <2>1 DEF Sums
<1>3. h = [n \in 0..Len(s) |-> IF n = 0 THEN 0 ELSE h[n - 1] + s[n]]
  BY <1>2
<1>4. WriterBytes(s) = h[Len(s)]
  BY DEF WriterBytes
<1> HIDE DEF h
<1>5. T = {}
  <2> SUFFICES ASSUME T # {} PROVE FALSE
    OBVIOUS
  <2>1. PICK k \in T : \A m \in T : k <= m
    <3>1. T \in SUBSET Nat
      BY <1>1
    <3> HIDE DEF T
    <3> QED
      BY <3>1, LeastNat
  <2>2. k \in 0..Len(s) /\ h[k] # g[k]
    BY <2>1
  <2>3. k # 0
    BY <1>1, <1>3, <2>2 DEF Sums
  <2>4. k - 1 \in 0..Len(s) /\ ~(k <= k - 1)
    BY <1>1, <2>2, <2>3
  <2>5. h[k - 1] = g[k - 1]
    BY <2>1, <2>4
  <2>6. h[k] = h[k - 1] + s[k] /\ g[k] = g[k - 1] + s[k]
    BY <1>2, <1>3, <2>2, <2>3
  <2> QED
    BY <2>2, <2>5, <2>6
<1>6. h[Len(s)] = g[Len(s)]
  BY <1>1, <1>5
<1> QED
  BY <1>4, <1>6

LEMMA BytesAppended ==
  /\ WriterBytes(<<>>) = 0
  /\ \A s \in Seq(Nat) : WriterBytes(s) \in Nat
  /\ \A s \in Seq(Nat), x \in Nat : WriterBytes(Append(s, x)) = WriterBytes(s) + x
<1>1. WriterBytes(<<>>) = 0
  <2> DEFINE g == [i \in 0..0 |-> 0]
  <2>1. Sums(g, <<>>) /\ g[0] = 0
    BY DEF Sums
  <2> HIDE DEF g
  <2>2. <<>> \in Seq(Nat) /\ Len(<<>>) = 0
    OBVIOUS
  <2> QED
    BY <2>1, <2>2, SumsAre
<1>2. ASSUME NEW s \in Seq(Nat)
      PROVE  WriterBytes(s) \in Nat
  <2>1. PICK g : Sums(g, s)
    BY SumsExist
  <2> QED
    BY <2>1, SumsAre DEF Sums
<1>3. ASSUME NEW s \in Seq(Nat), NEW x \in Nat
      PROVE  WriterBytes(Append(s, x)) = WriterBytes(s) + x
  <2>1. PICK g : Sums(g, s)
    BY SumsExist
  <2> DEFINE t == Append(s, x)
             h == [i \in 0..Len(t) |-> IF i = Len(t) THEN g[Len(s)] + x ELSE g[i]]
  <2>2. /\ t \in Seq(Nat) /\ Len(t) = Len(s) + 1 /\ Len(s) \in Nat /\ t[Len(t)] = x
        /\ \A i \in 1..Len(s) : t[i] = s[i]
    OBVIOUS
  <2> HIDE DEF t
  <2>3. Sums(h, t)
    <3>3. \A i \in 0..Len(t) : i # Len(t) => i \in 0..Len(s)
      BY <2>2
    <3>4. \A i \in 0..Len(s) : g[i] \in Nat
      BY <2>1 DEF Sums
    <3>5. 0 \in 0..Len(t) /\ 0 # Len(t) /\ g[Len(s)] + x \in Nat
      BY <2>2, <3>4, SMTT(40)
    <3>6. \A i \in 0..Len(t) : (IF i = Len(t) THEN g[Len(s)] + x ELSE g[i]) \in Nat
      BY <3>3, <3>4, <3>5
    <3>1. h \in [0..Len(t) -> Nat] /\ h[0] = 0
      BY <2>1, <3>5, <3>6 DEF Sums
    <3>2. ASSUME NEW i \in 1..Len(t) PROVE h[i] = h[i - 1] + t[i]
      <4>1. CASE i = Len(t)
        <5>1. h[Len(t)] = g[Len(s)] + x /\ h[Len(t) - 1] = g[Len(s)]
          BY <2>2
        <5> QED
          BY <2>2, <4>1, <5>1
      <4>2. CASE i # Len(t)
        <5>1. i \in 1..Len(s) /\ i \in 0..Len(t) /\ i - 1 \in 0..Len(t) /\ i - 1 # Len(t)
          BY <2>2, <4>2
        <5>2. h[i] = g[i] /\ h[i - 1] = g[i - 1] /\ t[i] = s[i]
          BY <2>2, <4>2, <5>1
        <5> QED
          BY <2>1, <5>1, <5>2 DEF Sums
      <4> QED
        BY <4>1, <4>2
    <3> HIDE DEF h
    <3> QED
      BY <3>1, <3>2 DEF Sums
  <2>4. h[Len(t)] = g[Len(s)] + x
    BY <2>2
  <2> HIDE DEF h
  <2>5. WriterBytes(t) = g[Len(s)] + x /\ WriterBytes(s) = g[Len(s)]
    BY <2>1, <2>2, <2>3, <2>4, SumsAre
  <2> QED
    BY <2>5 DEF t
<1> QED
  BY <1>1, <1>2, <1>3

LEMMA SumsGrow ==
  ASSUME NEW s \in Seq(Nat), NEW g, Sums(g, s), NEW n \in 0..Len(s), NEW m \in n..Len(s)
  PROVE  g[n] <= g[m]
<1> DEFINE T == {k \in n..Len(s) : ~(g[n] <= g[k])}
<1>1. Len(s) \in Nat /\ n \in Nat /\ m \in Nat /\ \A i \in 1..Len(s) : s[i] \in Nat
  OBVIOUS
<1> SUFFICES ASSUME T # {} PROVE FALSE
  OBVIOUS
<1>2. PICK k \in T : \A j \in T : k <= j
  <2>1. T \in SUBSET Nat
    BY <1>1
  <2> HIDE DEF T
  <2> QED
    BY <2>1, LeastNat
<1>3. k \in n..Len(s) /\ ~(g[n] <= g[k])
  BY <1>2
<1>4. k \in 0..Len(s)
  BY <1>1, <1>3
<1>5. g[n] \in Nat /\ g[k] \in Nat
  BY <1>4 DEF Sums
<1>6. k # n
  BY <1>3, <1>5
<1>7. k - 1 \in n..Len(s) /\ k \in 1..Len(s) /\ ~(k <= k - 1) /\ k - 1 \in 0..Len(s)
  BY <1>1, <1>3, <1>6
<1>8. g[n] <= g[k - 1]
  BY <1>2, <1>7
<1>9. g[k] = g[k - 1] + s[k] /\ g[k - 1] \in Nat
  BY <1>7 DEF Sums
<1>10. s[k] \in Nat
  BY <1>1, <1>7
<1>11. k \in Nat
  BY <1>1, <1>4
<1> HIDE DEF T
<1> QED
  BY <1>3, <1>5, <1>8, <1>9, <1>10, <1>11, SMTT(40)

LEMMA BytesDivided ==
  ASSUME NEW s \in Seq(Nat), NEW n \in 0..Len(s)
  PROVE  WriterBytes(s) = WriterBytes(SubSeq(s, 1, n)) + WriterBytes(SubSeq(s, n + 1, Len(s)))
<1>1. PICK g : Sums(g, s)
  BY SumsExist
<1>2. Len(s) \in Nat /\ n \in Nat /\ \A i \in 1..Len(s) : s[i] \in Nat
  OBVIOUS
<1> DEFINE a == SubSeq(s, 1, n)
           b == SubSeq(s, n + 1, Len(s))
           ga == [i \in 0..n |-> g[i]]
           gb == [i \in 0..(Len(s) - n) |-> g[n + i] - g[n]]
<1>3. /\ a \in Seq(Nat) /\ Len(a) = n /\ \A i \in 1..n : a[i] = s[i]
      /\ b \in Seq(Nat) /\ Len(b) = Len(s) - n /\ \A i \in 1..(Len(s) - n) : b[i] = s[n + i]
  BY <1>2
<1> HIDE DEF a, b
<1>4. Sums(ga, a)
  <2>3. \A i \in 0..n : i \in 0..Len(s)
    BY <1>2
  <2>4. \A i \in 0..n : g[i] \in Nat
    BY <1>1, <2>3 DEF Sums
  <2>1. ga \in [0..n -> Nat] /\ ga[0] = 0
    BY <1>1, <1>2, <2>4 DEF Sums
  <2>2. ASSUME NEW i \in 1..n PROVE ga[i] = ga[i - 1] + a[i]
    <3>1. i \in 0..n /\ i - 1 \in 0..n /\ i \in 1..Len(s)
      BY <1>2
    <3>2. ga[i] = g[i] /\ ga[i - 1] = g[i - 1]
      BY <3>1
    <3> QED
      BY <1>1, <1>3, <3>1, <3>2 DEF Sums
  <2> HIDE DEF ga
  <2> QED
    BY <1>3, <2>1, <2>2 DEF Sums
<1>5. Sums(gb, b)
  <2>1. \A i \in 0..(Len(s) - n) : n + i \in n..Len(s) /\ n + i \in 0..Len(s)
    BY <1>2
  <2>2. \A i \in 0..(Len(s) - n) : g[n + i] \in Nat /\ g[n] \in Nat /\ g[n] <= g[n + i]
    BY <1>1, <1>2, <2>1, SumsGrow DEF Sums
  <2>8. \A p, q \in Nat : p <= q => q - p \in Nat /\ p - p = 0
    OBVIOUS
  <2>5. \A i \in 0..(Len(s) - n) : g[n + i] - g[n] \in Nat
    BY <2>2, <2>8
  <2>6. 0 \in 0..(Len(s) - n) /\ n + 0 = n
    BY <1>2
  <2>9. g[n] \in Nat
    BY <2>2, <2>6
  <2>7. g[n] - g[n] = 0
    BY <2>8, <2>9
  <2>3. gb \in [0..(Len(s) - n) -> Nat] /\ gb[0] = 0
    BY <2>5, <2>6, <2>7
  <2>4. ASSUME NEW i \in 1..(Len(s) - n) PROVE gb[i] = gb[i - 1] + b[i]
    <3>1. i \in 0..(Len(s) - n) /\ i - 1 \in 0..(Len(s) - n) /\ n + i \in 1..Len(s)
      BY <1>2
    <3>2. gb[i] = g[n + i] - g[n] /\ gb[i - 1] = g[n + (i - 1)] - g[n]
      BY <3>1
    <3>3. g[n + i] = g[(n + i) - 1] + s[n + i]
      BY <1>1, <3>1 DEF Sums
    <3>4. (n + i) - 1 = n + (i - 1)
      BY <1>2
    <3>5. g[n + (i - 1)] \in Nat /\ g[n] \in Nat /\ s[n + i] \in Nat
      BY <1>2, <2>2, <3>1
    <3>6. b[i] = s[n + i] /\ g[n + i] = g[n + (i - 1)] + s[n + i]
      BY <1>3, <3>3, <3>4
    <3> HIDE DEF gb
    <3> QED
      BY <3>2, <3>5, <3>6
  <2> HIDE DEF gb
  <2> QED
    BY <1>3, <2>3, <2>4 DEF Sums
<1>6. ga[n] = g[n] /\ gb[Len(s) - n] = g[Len(s)] - g[n]
  BY <1>2
<1> HIDE DEF ga, gb
<1>7. WriterBytes(a) = g[n] /\ WriterBytes(b) = g[Len(s)] - g[n] /\ WriterBytes(s) = g[Len(s)]
  BY <1>1, <1>3, <1>4, <1>5, <1>6, SumsAre
<1>8. g[n] \in Nat /\ g[Len(s)] \in Nat
  BY <1>1, <1>2 DEF Sums
<1> QED
  BY <1>7, <1>8 DEF a, b

Alive == ~writer.failed /\ ~writer.closed

WriterTyped == WriterTypeOK /\ queuedBytes \in Nat /\ response \in {"open", "ended"}

(* The drain listener and its timer are there only while the writer works, *)
(* and nothing waits in a writer that has stopped.                         *)
StoppedIsEmpty ==
    /\ writer.armed => Alive
    /\ ~Alive => queue = <<>>

(* What was given to the response begins what was accepted, and as long as *)
(* the writer works, what waits is the rest.                               *)
WireThenQueue ==
    /\ Len(onWire) <= Len(accepted)
    /\ \A i \in 1..Len(onWire) : onWire[i] = accepted[i]
    /\ Alive => /\ Len(accepted) = Len(onWire) + Len(queue)
                /\ \A i \in 1..Len(queue) : queue[i] = accepted[Len(onWire) + i]

FlushesAfter ==
    \A f \in Flushes :
        /\ flushes[f].after <= Len(accepted)
        /\ flushes[f].state = "resolved" => flushes[f].after <= Len(onWire)

WriterInv == WriterTyped /\ StoppedIsEmpty /\ WireThenQueue /\ QueueBounded /\ FlushesAfter

LEMMA WriterInvImplies == WriterInv => WriterTypeOK /\ StreamIsSound
<1> SUFFICES ASSUME WriterInv PROVE WriterTypeOK /\ StreamIsSound
  OBVIOUS
<1> USE DEF WriterInv
<1>1. WriterTypeOK /\ QueueBounded /\ FlushedIsWritten
  BY DEF WriterTyped, FlushesAfter, FlushedIsWritten
<1>2. /\ queue \in Seq(ValueSizes) /\ onWire \in Seq(ValueSizes) /\ accepted \in Seq(ValueSizes)
      /\ Len(queue) \in Nat /\ Len(onWire) \in Nat /\ Len(accepted) \in Nat
  BY DEF WriterTyped, WriterTypeOK
<1>3. IsPrefix(onWire, accepted)
  <2> DEFINE a == SubSeq(onWire, 1, Len(onWire))
             b == SubSeq(accepted, 1, Len(onWire))
  <2>1. Len(onWire) <= Len(accepted) /\ \A i \in 1..Len(onWire) : onWire[i] = accepted[i]
    BY DEF WireThenQueue
  <2>2. /\ a \in Seq(ValueSizes) /\ Len(a) = Len(onWire) /\ \A i \in 1..Len(onWire) : a[i] = onWire[i]
        /\ b \in Seq(ValueSizes) /\ Len(b) = Len(onWire) /\ \A i \in 1..Len(onWire) : b[i] = accepted[i]
    BY <1>2, <2>1
  <2>3. a = b
    <3> HIDE DEF a, b
    <3> QED
      BY <2>1, <2>2, SeqEqual
  <2> QED
    BY <2>1, <2>3 DEF IsPrefix
<1>4. Alive => onWire \o queue = accepted
  <2> SUFFICES ASSUME Alive PROVE onWire \o queue = accepted
    OBVIOUS
  <2> DEFINE all == onWire \o queue
  <2>1. /\ all \in Seq(ValueSizes) /\ Len(all) = Len(onWire) + Len(queue)
        /\ \A i \in 1..(Len(onWire) + Len(queue)) :
              all[i] = IF i <= Len(onWire) THEN onWire[i] ELSE queue[i - Len(onWire)]
    BY <1>2, ConcatProperties
  <2>2. \A i \in 1..Len(accepted) : all[i] = accepted[i]
    <3> SUFFICES ASSUME NEW i \in 1..Len(accepted) PROVE all[i] = accepted[i]
      OBVIOUS
    <3>1. Len(accepted) = Len(onWire) + Len(queue) /\ \A j \in 1..Len(queue) : queue[j] = accepted[Len(onWire) + j]
      BY DEF WireThenQueue
    <3>2. CASE i <= Len(onWire)
      <4>1. i \in 1..Len(onWire) /\ all[i] = onWire[i]
        BY <1>2, <2>1, <3>1, <3>2
      <4> QED
        BY <4>1 DEF WireThenQueue
    <3>3. CASE ~(i <= Len(onWire))
      <4>1. i - Len(onWire) \in 1..Len(queue) /\ Len(onWire) + (i - Len(onWire)) = i
        BY <1>2, <3>1, <3>3
      <4>2. all[i] = queue[i - Len(onWire)]
        BY <1>2, <2>1, <3>1, <3>3
      <4> QED
        BY <3>1, <4>1, <4>2
    <3> QED
      BY <3>2, <3>3
  <2>3. Len(all) = Len(accepted)
    BY <2>1 DEF WireThenQueue
  <2> HIDE DEF all
  <2>4. all = accepted
    BY <1>2, <2>1, <2>2, <2>3, SeqEqual
  <2> QED
    BY <2>4 DEF all
<1> QED
  BY <1>1, <1>3, <1>4 DEF StreamIsSound, StreamHasNoGap, Alive

LEMMA WriterStart == WriterInit => WriterInv
<1> SUFFICES ASSUME WriterInit PROVE WriterInv
  OBVIOUS
<1> USE WriterConstantsAssumption DEF WriterInit
<1>1. WriterTyped
  BY DEF WriterTyped, WriterTypeOK
<1>2. StoppedIsEmpty /\ WireThenQueue
  BY DEF StoppedIsEmpty, WireThenQueue, Alive
<1>3. QueueBounded
  BY BytesAppended DEF QueueBounded
<1>4. FlushesAfter
  BY DEF FlushesAfter
<1> QED
  BY <1>1, <1>2, <1>3, <1>4 DEF WriterInv

LEMMA SettledAre ==
  ASSUME WriterInv, NEW outcome \in {"resolved", "rejected"}, SettleFlushes(outcome)
  PROVE  /\ flushes' \in [Flushes -> [state : {"idle", "waits", "resolved", "rejected"}, after : Nat]]
         /\ \A f \in Flushes :
               /\ flushes'[f].after = flushes[f].after
               /\ flushes'[f].state = "resolved" =>
                     flushes[f].state = "resolved" \/ outcome = "resolved"
<1>1. flushes \in [Flushes -> [state : {"idle", "waits", "resolved", "rejected"}, after : Nat]]
  BY DEF WriterInv, WriterTyped, WriterTypeOK
<1>2. \A f \in Flushes : LET x == IF f \in Waiting THEN [flushes[f] EXCEPT !.state = outcome] ELSE flushes[f]
                         IN  /\ x \in [state : {"idle", "waits", "resolved", "rejected"}, after : Nat]
                             /\ x.after = flushes[f].after
                             /\ x.state = "resolved" => flushes[f].state = "resolved" \/ outcome = "resolved"
  BY <1>1
<1>3. flushes' = [f \in Flushes |-> IF f \in Waiting THEN [flushes[f] EXCEPT !.state = outcome] ELSE flushes[f]]
  BY DEF SettleFlushes
<1> QED
  BY <1>2, <1>3

(* A failure, a close or a disposal empties the queue and takes nothing    *)
(* back; what a drain had given to the response by then, it keeps.         *)
LEMMA StoppedKeeps ==
  ASSUME WriterInv, SettleFlushes("rejected"), queue' = <<>>, queuedBytes' = 0,
         writer' \in [blocked : BOOLEAN, closed : BOOLEAN, failed : BOOLEAN, armed : BOOLEAN],
         ~writer'.armed, ~Alive', accepted' = accepted, response' \in {"open", "ended"},
         onWire' \in Seq(ValueSizes), Len(onWire) <= Len(onWire'), Len(onWire') <= Len(accepted),
         \A i \in 1..Len(onWire') : onWire'[i] = accepted[i]
  PROVE  WriterInv'
<1> USE WriterConstantsAssumption
<1>1. WriterTyped'
  BY SettledAre DEF WriterInv, WriterTyped, WriterTypeOK
<1>2. StoppedIsEmpty' /\ WireThenQueue'
  BY DEF StoppedIsEmpty, WireThenQueue
<1>3. QueueBounded'
  <2>1. WriterBytes(queue') = 0 /\ Len(queue') = 0
    BY BytesAppended
  <2> QED
    BY <2>1 DEF QueueBounded
<1>4. FlushesAfter'
  <2>1. \A f \in Flushes : flushes[f].after \in Nat /\ flushes'[f].after = flushes[f].after
                           /\ (flushes'[f].state = "resolved" => flushes[f].state = "resolved")
    BY SettledAre DEF WriterInv, WriterTyped, WriterTypeOK
  <2>2. Len(onWire) \in Nat /\ Len(onWire') \in Nat
    BY DEF WriterInv, WriterTyped, WriterTypeOK
  <2> QED
    BY <2>1, <2>2 DEF WriterInv, FlushesAfter
<1> QED
  BY <1>1, <1>2, <1>3, <1>4 DEF WriterInv

LEMMA WriterStutters ==
  ASSUME WriterInv, UNCHANGED <<queue, queuedBytes, onWire, accepted, writer, flushes>>,
         response' \in {"open", "ended"}
  PROVE  WriterInv'
BY DEF WriterInv, WriterTyped, WriterTypeOK, StoppedIsEmpty, WireThenQueue, QueueBounded, FlushesAfter, Alive

LEMMA FailKeeps ==
  ASSUME WriterInv, Fail, UNCHANGED <<accepted, response>>,
         ~Alive => onWire' = onWire,
         onWire' \in Seq(ValueSizes), Len(onWire) <= Len(onWire'), Len(onWire') <= Len(accepted),
         \A i \in 1..Len(onWire') : onWire'[i] = accepted[i]
  PROVE  WriterInv'
<1>1. response \in {"open", "ended"}
        /\ writer \in [blocked : BOOLEAN, closed : BOOLEAN, failed : BOOLEAN, armed : BOOLEAN]
  BY DEF WriterInv, WriterTyped, WriterTypeOK
<1>2. CASE Alive
  <2>1. /\ writer' = [writer EXCEPT !.failed = TRUE, !.blocked = FALSE, !.armed = FALSE]
        /\ queue' = <<>> /\ queuedBytes' = 0 /\ SettleFlushes("rejected")
    BY <1>2 DEF Fail, Alive
  <2>2. /\ writer' \in [blocked : BOOLEAN, closed : BOOLEAN, failed : BOOLEAN, armed : BOOLEAN]
        /\ ~writer'.armed /\ writer'.failed
    BY <1>1, <2>1
  <2>3. ~Alive'
    BY <2>2 DEF Alive
  <2> QED
    BY <1>1, <2>1, <2>2, <2>3, StoppedKeeps
<1>3. CASE ~Alive
  BY <1>1, <1>3, WriterStutters DEF Fail, Alive
<1> QED
  BY <1>2, <1>3

LEMMA WireAsItIs ==
  ASSUME WriterInv
  PROVE  /\ onWire \in Seq(ValueSizes) /\ Len(onWire) <= Len(onWire) /\ Len(onWire) <= Len(accepted)
         /\ \A i \in 1..Len(onWire) : onWire[i] = accepted[i]
         /\ queue \in Seq(ValueSizes) /\ accepted \in Seq(ValueSizes)
         /\ queue \in Seq(Nat) /\ ValueSizes \subseteq Nat
<1> USE WriterConstantsAssumption
<1>1. onWire \in Seq(ValueSizes) /\ queue \in Seq(ValueSizes) /\ accepted \in Seq(ValueSizes)
  BY DEF WriterInv, WriterTyped, WriterTypeOK
<1>3. ValueSizes \subseteq Nat
  OBVIOUS
<1>2. Len(onWire) \in Nat /\ queue \in Seq(Nat)
  <2>2. \A i \in 1..Len(queue) : queue[i] \in ValueSizes
    BY <1>1
  <2>1. \A i \in 1..Len(queue) : queue[i] \in Nat
    BY <1>3, <2>2
  <2> QED
    BY <1>1, <2>1
<1> QED
  BY <1>1, <1>2, <1>3 DEF WriterInv, WireThenQueue

LEMMA EndKeeps ==
  ASSUME WriterInv, ~writer.closed, EndWriter, UNCHANGED <<onWire, accepted>>,
         response' \in {"open", "ended"}
  PROVE  WriterInv'
<1>1. writer \in [blocked : BOOLEAN, closed : BOOLEAN, failed : BOOLEAN, armed : BOOLEAN]
  BY DEF WriterInv, WriterTyped, WriterTypeOK
<1>2. /\ writer' = [writer EXCEPT !.closed = TRUE, !.armed = FALSE]
      /\ queue' = <<>> /\ queuedBytes' = 0 /\ SettleFlushes("rejected")
  BY DEF EndWriter
<1>3. /\ writer' \in [blocked : BOOLEAN, closed : BOOLEAN, failed : BOOLEAN, armed : BOOLEAN]
      /\ ~writer'.armed /\ writer'.closed
  BY <1>1, <1>2
<1>4. ~Alive'
  BY <1>3 DEF Alive
<1> QED
  BY <1>2, <1>3, <1>4, WireAsItIs, StoppedKeeps

LEMMA WriteKeeps ==
  ASSUME WriterInv, NEW x \in ValueSizes, Write(x)
  PROVE  WriterInv'
<1> USE WriterConstantsAssumption
<1>1. /\ Alive /\ response' = response /\ response \in {"open", "ended"} /\ x \in Nat
      /\ writer \in [blocked : BOOLEAN, closed : BOOLEAN, failed : BOOLEAN, armed : BOOLEAN]
      /\ flushes \in [Flushes -> [state : {"idle", "waits", "resolved", "rejected"}, after : Nat]]
  BY DEF Write, Refuses, Alive, WriterInv, WriterTyped, WriterTypeOK
<1>2. /\ onWire \in Seq(ValueSizes) /\ accepted \in Seq(ValueSizes) /\ queue \in Seq(ValueSizes)
      /\ queue \in Seq(Nat)
      /\ Len(onWire) \in Nat /\ Len(accepted) \in Nat /\ Len(queue) \in Nat
  BY WireAsItIs
<1> DEFINE longer == Append(accepted, x)
<1>3. /\ longer \in Seq(ValueSizes) /\ Len(longer) = Len(accepted) + 1 /\ longer[Len(accepted) + 1] = x
      /\ \A i \in 1..Len(accepted) : longer[i] = accepted[i]
  BY <1>2
<1> HIDE DEF longer
<1>4. CASE Fail /\ UNCHANGED <<onWire, accepted>>
  BY <1>1, <1>4, WireAsItIs, FailKeeps
<1>5. CASE /\ ~writer.blocked /\ queue = <<>>
           /\ onWire' = Append(onWire, x) /\ accepted' = longer
           /\ \E full \in BOOLEAN :
                 writer' = IF full THEN [writer EXCEPT !.blocked = TRUE, !.armed = TRUE] ELSE writer
           /\ UNCHANGED <<queue, queuedBytes, flushes>>
  <2>1. /\ onWire' \in Seq(ValueSizes) /\ Len(onWire') = Len(onWire) + 1 /\ onWire'[Len(onWire) + 1] = x
        /\ \A i \in 1..Len(onWire) : onWire'[i] = onWire[i]
    BY <1>2, <1>5
  <2>2. /\ writer' \in [blocked : BOOLEAN, closed : BOOLEAN, failed : BOOLEAN, armed : BOOLEAN]
        /\ ~writer'.failed /\ ~writer'.closed
    BY <1>1, <1>5 DEF Alive
  <2>3. WriterTyped'
    BY <1>1, <1>3, <1>5, <2>1, <2>2 DEF WriterInv, WriterTyped, WriterTypeOK
  <2>4. StoppedIsEmpty'
    BY <2>2 DEF StoppedIsEmpty, Alive
  <2>5. Len(accepted) = Len(onWire)
    BY <1>1, <1>2, <1>5 DEF WriterInv, WireThenQueue
  <2>6. WireThenQueue'
    <3>1. Len(queue') = 0
      BY <1>5
    <3>2. Len(onWire') = Len(accepted')
      BY <1>3, <1>5, <2>1, <2>5
    <3>3. ASSUME NEW i \in 1..Len(onWire') PROVE onWire'[i] = accepted'[i]
      <4>1. CASE i = Len(onWire) + 1
        BY <1>3, <1>5, <2>1, <2>5, <4>1
      <4>2. CASE i # Len(onWire) + 1
        <5>1. i \in 1..Len(onWire)
          BY <1>2, <2>1, <4>2
        <5> QED
          BY <1>3, <1>5, <2>1, <2>5, <5>1 DEF WriterInv, WireThenQueue
      <4> QED
        BY <4>1, <4>2
    <3>4. Len(onWire') \in Nat /\ Len(accepted') \in Nat
      BY <1>2, <1>3, <1>5, <2>1
    <3> QED
      BY <3>1, <3>2, <3>3, <3>4 DEF WireThenQueue
  <2>7. QueueBounded'
    BY <1>5 DEF WriterInv, QueueBounded
  <2>8. FlushesAfter'
    <3>1. \A f \in Flushes : flushes'[f] = flushes[f] /\ flushes[f].after \in Nat
      BY <1>1, <1>5
    <3>2. Len(accepted') = Len(accepted) + 1 /\ Len(onWire') = Len(onWire) + 1
      BY <1>3, <1>5, <2>1
    <3>3. \A a, n \in Nat : a <= n => a <= n + 1
      OBVIOUS
    <3>5. ASSUME NEW f \in Flushes
          PROVE  /\ flushes[f].after <= Len(accepted')
                 /\ flushes[f].state = "resolved" => flushes[f].after <= Len(onWire')
      <4>1. flushes[f].after \in Nat /\ flushes[f].after <= Len(accepted)
            /\ (flushes[f].state = "resolved" => flushes[f].after <= Len(onWire))
        <5>1. flushes[f].after \in Nat
          BY <1>1
        <5>2. flushes[f].after <= Len(accepted)
          BY DEF WriterInv, FlushesAfter
        <5>3. flushes[f].state = "resolved" => flushes[f].after <= Len(onWire)
          BY DEF WriterInv, FlushesAfter
        <5> QED
          BY <5>1, <5>2, <5>3
      <4>2. flushes[f].after <= Len(accepted) + 1
        BY <1>2, <3>3, <4>1
      <4>3. flushes[f].state = "resolved" => flushes[f].after <= Len(onWire) + 1
        BY <1>2, <3>3, <4>1
      <4> QED
        BY <3>2, <4>2, <4>3
    <3> QED
      BY <3>1, <3>5 DEF FlushesAfter
  <2> QED
    BY <2>3, <2>4, <2>6, <2>7, <2>8 DEF WriterInv
<1>6. CASE /\ ~NoRoom(x)
           /\ queue' = Append(queue, x) /\ queuedBytes' = queuedBytes + x /\ accepted' = longer
           /\ UNCHANGED <<onWire, writer, flushes>>
  <2>1. /\ queue' \in Seq(ValueSizes) /\ Len(queue') = Len(queue) + 1 /\ queue'[Len(queue) + 1] = x
        /\ \A i \in 1..Len(queue) : queue'[i] = queue[i]
    BY <1>2, <1>6
  <2>2. queuedBytes \in Nat
    BY DEF WriterInv, WriterTyped
  <2>3. WriterTyped'
    BY <1>1, <1>2, <1>3, <1>6, <2>1, <2>2 DEF WriterInv, WriterTyped, WriterTypeOK
  <2>4. StoppedIsEmpty'
    BY <1>1, <1>6 DEF StoppedIsEmpty, Alive
  <2>5. /\ Len(accepted) = Len(onWire) + Len(queue)
        /\ \A i \in 1..Len(queue) : queue[i] = accepted[Len(onWire) + i]
        /\ \A i \in 1..Len(onWire) : onWire[i] = accepted[i]
    BY <1>1 DEF WriterInv, WireThenQueue
  <2>6. WireThenQueue'
    <3>1. Len(accepted') = Len(onWire) + Len(queue')
      BY <1>2, <1>3, <1>6, <2>1, <2>5
    <3>2. Len(onWire) <= Len(accepted') /\ \A i \in 1..Len(onWire) : i \in 1..Len(accepted)
      BY <1>2, <1>3, <1>6, <2>5
    <3>3. ASSUME NEW i \in 1..Len(queue') PROVE queue'[i] = accepted'[Len(onWire) + i]
      <4>1. CASE i = Len(queue) + 1
        <5>1. Len(onWire) + i = Len(accepted) + 1
          BY <1>2, <2>5, <4>1
        <5> QED
          BY <1>3, <1>6, <2>1, <4>1, <5>1
      <4>2. CASE i # Len(queue) + 1
        <5>1. i \in 1..Len(queue) /\ Len(onWire) + i \in 1..Len(accepted)
          BY <1>2, <2>1, <2>5, <4>2
        <5> QED
          BY <1>3, <1>6, <2>1, <2>5, <5>1
      <4> QED
        BY <4>1, <4>2
    <3> QED
      BY <1>3, <1>6, <2>5, <3>1, <3>2, <3>3 DEF WireThenQueue
  <2>7. QueueBounded'
    <3>1. ~(Len(queue) >= MaxQueuedItems) /\ ~(queuedBytes + x > MaxQueuedBytes)
      BY <1>6 DEF NoRoom
    <3>2. queuedBytes = WriterBytes(queue)
      BY DEF WriterInv, QueueBounded
    <3>3. WriterBytes(queue') = queuedBytes + x
      BY <1>1, <1>2, <1>6, <3>2, BytesAppended
    <3> QED
      BY <1>1, <1>2, <1>6, <2>1, <2>2, <3>1, <3>3 DEF QueueBounded
  <2>8. FlushesAfter'
    <3>1. \A f \in Flushes : flushes[f].after \in Nat
      BY <1>1
    <3> QED
      BY <1>2, <1>3, <1>6, <3>1 DEF WriterInv, FlushesAfter
  <2> QED
    BY <2>3, <2>4, <2>6, <2>7, <2>8 DEF WriterInv
<1> QED
  BY <1>4, <1>5, <1>6 DEF Write, WriteNow, longer

LEMMA FlushKeeps ==
  ASSUME WriterInv, NEW f \in Flushes, Flush(f)
  PROVE  WriterInv'
<1>1. UNCHANGED <<queue, queuedBytes, onWire, accepted, writer, response>>
  BY DEF Flush
<1> DEFINE state == IF Refuses THEN "rejected"
                    ELSE IF ~writer.blocked /\ queue = <<>> THEN "resolved" ELSE "waits"
           flush == [state |-> state, after |-> Len(accepted)]
<1>2. flushes' = [flushes EXCEPT ![f] = flush]
  BY DEF Flush
<1>3. Len(accepted) \in Nat /\ Len(onWire) \in Nat
  BY WireAsItIs
<1>4. state \in {"idle", "waits", "resolved", "rejected"}
  OBVIOUS
<1>5. state = "resolved" => Len(accepted) = Len(onWire)
  <2>1. state = "resolved" => Alive /\ queue = <<>>
    BY DEF Refuses, Alive
  <2>2. queue = <<>> => Len(queue) = 0
    OBVIOUS
  <2> HIDE DEF state
  <2> QED
    BY <1>3, <2>1, <2>2 DEF WriterInv, WireThenQueue
<1> HIDE DEF state
<1>6. /\ flush \in [state : {"idle", "waits", "resolved", "rejected"}, after : Nat]
      /\ flush.after = Len(accepted) /\ (flush.state = "resolved" => Len(accepted) <= Len(onWire))
  BY <1>3, <1>4, <1>5
<1> HIDE DEF flush
<1>7. /\ flushes' \in [Flushes -> [state : {"idle", "waits", "resolved", "rejected"}, after : Nat]]
      /\ \A g \in Flushes : flushes'[g] = IF g = f THEN flush ELSE flushes[g]
  BY <1>2, <1>6 DEF WriterInv, WriterTyped, WriterTypeOK
<1>8. WriterTyped'
  BY <1>1, <1>7 DEF WriterInv, WriterTyped, WriterTypeOK
<1>9. FlushesAfter'
  BY <1>1, <1>3, <1>6, <1>7 DEF WriterInv, FlushesAfter
<1> QED
  BY <1>1, <1>8, <1>9 DEF WriterInv, StoppedIsEmpty, WireThenQueue, QueueBounded, Alive

LEMMA DrainKeeps ==
  ASSUME WriterInv, Drain
  PROVE  WriterInv'
<1> USE WriterConstantsAssumption
<1>1. /\ Alive /\ writer.armed /\ accepted' = accepted /\ response' = response /\ response \in {"open", "ended"}
      /\ writer \in [blocked : BOOLEAN, closed : BOOLEAN, failed : BOOLEAN, armed : BOOLEAN]
      /\ flushes \in [Flushes -> [state : {"idle", "waits", "resolved", "rejected"}, after : Nat]]
      /\ queuedBytes \in Nat
  BY DEF Drain, WriterInv, WriterTyped, WriterTypeOK, StoppedIsEmpty
<1>2. /\ onWire \in Seq(ValueSizes) /\ accepted \in Seq(ValueSizes) /\ queue \in Seq(ValueSizes)
      /\ queue \in Seq(Nat)
      /\ Len(onWire) \in Nat /\ Len(accepted) \in Nat /\ Len(queue) \in Nat
  BY WireAsItIs
<1>3. /\ Len(accepted) = Len(onWire) + Len(queue)
      /\ \A i \in 1..Len(queue) : queue[i] = accepted[Len(onWire) + i]
      /\ \A i \in 1..Len(onWire) : onWire[i] = accepted[i]
  BY <1>1 DEF WriterInv, WireThenQueue
<1>4. PICK n \in 0..Len(queue) :
        /\ onWire' = onWire \o SubSeq(queue, 1, n)
        /\ \/ /\ n > 0
              /\ queue' = SubSeq(queue, n + 1, Len(queue))
              /\ queuedBytes' = queuedBytes - WriterBytes(SubSeq(queue, 1, n))
              /\ writer' = StillBlocked
              /\ UNCHANGED flushes
           \/ /\ n = Len(queue)
              /\ queue' = <<>>
              /\ queuedBytes' = queuedBytes - WriterBytes(queue)
              /\ writer' = [writer EXCEPT !.blocked = FALSE, !.armed = FALSE]
              /\ SettleFlushes("resolved")
           \/ n < Len(queue) /\ Fail
  BY DEF Drain
<1> DEFINE front == SubSeq(queue, 1, n)
           rest == SubSeq(queue, n + 1, Len(queue))
<1>5. /\ front \in Seq(ValueSizes) /\ Len(front) = n /\ \A i \in 1..n : front[i] = queue[i]
      /\ rest \in Seq(ValueSizes) /\ Len(rest) = Len(queue) - n
      /\ \A i \in 1..(Len(queue) - n) : rest[i] = queue[n + i]
  <2>1. \A i \in 1..Len(queue) : queue[i] \in ValueSizes
    BY <1>2, ElementOfSeq
  <2>2. /\ n \in Nat /\ n \in Int /\ n + 1 \in Int /\ Len(queue) \in Int /\ 1 \in Int /\ n <= Len(queue)
        /\ 1..n \subseteq 1..Len(queue) /\ (n + 1)..Len(queue) \subseteq 1..Len(queue)
    BY <1>2
  <2>3. /\ front \in Seq(ValueSizes) /\ Len(front) = (IF 1 <= n THEN n - 1 + 1 ELSE 0)
        /\ \A i \in 1..(n - 1 + 1) : front[i] = queue[1 + i - 1]
    BY <2>1, <2>2, SubSeqProperties
  <2>4. /\ rest \in Seq(ValueSizes)
        /\ Len(rest) = (IF n + 1 <= Len(queue) THEN Len(queue) - (n + 1) + 1 ELSE 0)
        /\ \A i \in 1..(Len(queue) - (n + 1) + 1) : rest[i] = queue[(n + 1) + i - 1]
    BY <2>1, <2>2, SubSeqProperties
  <2> HIDE DEF front, rest
  <2>5. Len(front) = n /\ \A i \in 1..n : front[i] = queue[i]
    BY <2>2, <2>3
  <2>6. Len(rest) = Len(queue) - n /\ \A i \in 1..(Len(queue) - n) : rest[i] = queue[n + i]
    <3>1. Len(queue) - (n + 1) + 1 = Len(queue) - n
      BY <2>2
    <3>2. ASSUME NEW i \in 1..(Len(queue) - n) PROVE rest[i] = queue[n + i]
      <4>1. (n + 1) + i - 1 = n + i
        BY <2>2
      <4>2. rest[i] = queue[(n + 1) + i - 1]
        BY <2>4, <3>1
      <4> QED
        BY <4>1, <4>2
    <3>3. Len(rest) = Len(queue) - n
      BY <2>2, <2>4
    <3> QED
      BY <3>2, <3>3
  <2> QED
    BY <2>3, <2>4, <2>5, <2>6
<1>6. WriterBytes(queue) = WriterBytes(front) + WriterBytes(rest)
  BY <1>2, BytesDivided
<1>7. WriterBytes(front) \in Nat /\ WriterBytes(rest) \in Nat
  <2>1. front \in Seq(Nat) /\ rest \in Seq(Nat)
    BY <1>2
  <2> HIDE DEF front, rest
  <2> QED
    BY <2>1, BytesAppended
<1>8. onWire' = onWire \o front
  BY <1>4
<1> HIDE DEF front, rest
<1>9. /\ onWire' \in Seq(ValueSizes) /\ Len(onWire') = Len(onWire) + n
      /\ \A i \in 1..(Len(onWire) + n) :
            onWire'[i] = IF i <= Len(onWire) THEN onWire[i] ELSE front[i - Len(onWire)]
  <2>1. onWire \in Seq(ValueSizes) /\ front \in Seq(ValueSizes) /\ Len(front) = n
    BY <1>2, <1>5
  <2> QED
    BY <2>1, <1>8, ConcatProperties
<1>10. Len(onWire) <= Len(onWire') /\ Len(onWire') <= Len(accepted)
  BY <1>2, <1>3, <1>9
<1>11. ASSUME NEW i \in 1..Len(onWire') PROVE onWire'[i] = accepted[i]
  <2>1. CASE i <= Len(onWire)
    <3>1. i \in 1..Len(onWire) /\ onWire'[i] = onWire[i]
      BY <1>2, <1>9, <2>1
    <3> QED
      BY <1>3, <3>1
  <2>2. CASE ~(i <= Len(onWire))
    <3>1. i - Len(onWire) \in 1..n /\ i - Len(onWire) \in 1..Len(queue) /\ Len(onWire) + (i - Len(onWire)) = i
      BY <1>2, <1>9, <2>2
    <3>2. onWire'[i] = front[i - Len(onWire)]
      BY <1>2, <1>9, <2>2
    <3>3. front[i - Len(onWire)] = queue[i - Len(onWire)]
      BY <1>5, <3>1
    <3>4. queue[i - Len(onWire)] = accepted[i]
      BY <1>3, <3>1
    <3> QED
      BY <3>2, <3>3, <3>4
  <2> QED
    BY <2>1, <2>2
<1>12. queuedBytes = WriterBytes(queue) /\ queuedBytes <= MaxQueuedBytes /\ Len(queue) <= MaxQueuedItems
  BY DEF WriterInv, QueueBounded
<1>13. CASE n < Len(queue) /\ Fail
  BY <1>1, <1>9, <1>10, <1>11, <1>13, FailKeeps
<1>14. ASSUME writer' \in [blocked : BOOLEAN, closed : BOOLEAN, failed : BOOLEAN, armed : BOOLEAN],
              Alive', queue' = rest, queuedBytes' = WriterBytes(rest),
              flushes' \in [Flushes -> [state : {"idle", "waits", "resolved", "rejected"}, after : Nat]],
              FlushesAfter'
       PROVE  WriterInv'
  <2>1. WriterTyped'
    BY <1>1, <1>2, <1>5, <1>7, <1>9, <1>14 DEF WriterTyped, WriterTypeOK
  <2>2. StoppedIsEmpty'
    BY <1>14 DEF StoppedIsEmpty
  <2>3. WireThenQueue'
    <3>1. Len(accepted') = Len(onWire') + Len(queue')
      <4>1. Len(queue') = Len(queue) - n /\ Len(onWire') = Len(onWire) + n
        BY <1>5, <1>9, <1>14
      <4>2. Len(accepted') = Len(onWire) + Len(queue)
        BY <1>1, <1>3
      <4> QED
        BY <1>2, <4>1, <4>2
    <3>2. ASSUME NEW i \in 1..Len(queue') PROVE queue'[i] = accepted'[Len(onWire') + i]
      <4>1. i \in 1..(Len(queue) - n) /\ n + i \in 1..Len(queue) /\ Len(onWire) + (n + i) = Len(onWire') + i
        <5>1. Len(queue') = Len(queue) - n /\ Len(onWire') = Len(onWire) + n
          BY <1>5, <1>9, <1>14
        <5>2. Len(onWire) \in Nat /\ Len(queue) \in Nat
          BY <1>2
        <5> QED
          BY <5>1, <5>2
      <4>2. queue'[i] = queue[n + i]
        BY <1>5, <1>14, <4>1
      <4> QED
        BY <1>1, <1>3, <4>1, <4>2
    <3> QED
      BY <1>1, <1>10, <1>11, <3>1, <3>2 DEF WireThenQueue
  <2>4. QueueBounded'
    <3>1. WriterBytes(rest) <= MaxQueuedBytes
      BY <1>6, <1>7, <1>12
    <3>2. Len(rest) <= MaxQueuedItems
      BY <1>2, <1>5, <1>12
    <3> QED
      BY <1>14, <3>1, <3>2 DEF QueueBounded
  <2> QED
    BY <1>14, <2>1, <2>2, <2>3, <2>4 DEF WriterInv
<1>15. \A f \in Flushes : flushes[f].after \in Nat /\ flushes[f].after <= Len(accepted)
                          /\ (flushes[f].state = "resolved" => flushes[f].after <= Len(onWire))
  BY <1>1 DEF WriterInv, FlushesAfter
<1>16. CASE /\ queue' = rest /\ queuedBytes' = queuedBytes - WriterBytes(front)
            /\ writer' = StillBlocked /\ UNCHANGED flushes
  <2>1. writer' \in [blocked : BOOLEAN, closed : BOOLEAN, failed : BOOLEAN, armed : BOOLEAN] /\ Alive'
    BY <1>1, <1>16 DEF StillBlocked, Alive
  <2>2. queuedBytes' = WriterBytes(rest)
    BY <1>6, <1>7, <1>12, <1>16
  <2>3. FlushesAfter'
    BY <1>1, <1>2, <1>9, <1>10, <1>15, <1>16 DEF FlushesAfter
  <2> QED
    BY <1>1, <1>14, <1>16, <2>1, <2>2, <2>3
<1>17. CASE /\ n = Len(queue) /\ queue' = <<>> /\ queuedBytes' = queuedBytes - WriterBytes(queue)
            /\ writer' = [writer EXCEPT !.blocked = FALSE, !.armed = FALSE] /\ SettleFlushes("resolved")
  <2>1. writer' \in [blocked : BOOLEAN, closed : BOOLEAN, failed : BOOLEAN, armed : BOOLEAN] /\ Alive'
    BY <1>1, <1>17 DEF Alive
  <2>2. rest = <<>>
    <3>1. Len(rest) = 0
      BY <1>2, <1>5, <1>17
    <3> QED
      BY <1>5, <3>1
  <2>3. WriterBytes(rest) = 0 /\ queuedBytes' = 0
    BY <1>1, <1>12, <1>17, <2>2, BytesAppended
  <2>4. /\ flushes' \in [Flushes -> [state : {"idle", "waits", "resolved", "rejected"}, after : Nat]]
        /\ \A f \in Flushes : flushes'[f].after = flushes[f].after
    BY <1>17, SettledAre
  <2>5. Len(onWire') = Len(accepted)
    BY <1>3, <1>9, <1>17
  <2>6. FlushesAfter'
    BY <1>1, <1>15, <2>4, <2>5 DEF FlushesAfter
  <2> QED
    BY <1>14, <1>17, <2>1, <2>2, <2>3, <2>4, <2>6
<1> QED
  BY <1>4, <1>13, <1>16, <1>17 DEF front, rest

LEMMA WriterStep ==
  ASSUME WriterInv, [WriterNext]_writerVars
  PROVE  WriterInv'
<1>1. response \in {"open", "ended"}
  BY DEF WriterInv, WriterTyped
<1>2. CASE DrainDeadline \/ ResponseError
  BY <1>2, WireAsItIs, FailKeeps DEF DrainDeadline, ResponseError
<1>3. CASE ResponseDestroyed
  BY <1>3, WriterStutters DEF ResponseDestroyed
<1>4. CASE ResponseCloses \/ Dispose
  BY <1>1, <1>4, EndKeeps DEF ResponseCloses, Dispose
<1>5. CASE UNCHANGED writerVars
  BY <1>1, <1>5, WriterStutters DEF writerVars
<1> QED
  BY <1>2, <1>3, <1>4, <1>5, WriteKeeps, FlushKeeps, DrainKeeps DEF WriterNext

LEMMA WriterAlways == WriterSpec => [](WriterTypeOK /\ StreamIsSound)
<1>1. WriterInit => WriterInv
  BY WriterStart
<1>2. WriterInv /\ [WriterNext]_writerVars => WriterInv'
  BY WriterStep
<1>3. WriterInv => WriterTypeOK /\ StreamIsSound
  BY WriterInvImplies
<1> QED
  BY <1>1, <1>2, <1>3, PTL DEF WriterSpec

-----------------------------------------------------------------------------
(* What clients are answered is true: a Cron or Kanban request was allowed *)
(* and done as its answer says, at most once; a feature is said to be      *)
(* there, or to be missing, only if it was a while ago; and a stream's     *)
(* client gets what was written, in order, from a queue that is bounded.   *)
THEOREM AnswersAlwaysTrue ==
  CronSpec /\ KanbanSpec /\ ProbeSpec /\ WriterSpec => []AnswersAreTrue
<1>1. (CronTypeOK /\ CronIsSound) /\ (KanbanTypeOK /\ KanbanIsSound) /\ (ProbeTypeOK /\ ToldOfTheRecent)
      /\ (WriterTypeOK /\ StreamIsSound) => AnswersAreTrue
  BY DEF AnswersAreTrue
<1> QED
  BY <1>1, CronAlways, KanbanAlways, ProbeAlways, WriterAlways, PTL
=============================================================================
