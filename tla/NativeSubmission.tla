-------------------------- MODULE NativeSubmission --------------------------
(***************************************************************************)
(* The way of a native message through the Router: the HTTP handlers of    *)
(* native and external submissions (bridgeServer.ts), the submissions and  *)
(* session bindings of the conversation store (nativeConversationStore.ts) *)
(* and the requests the Gateway registry has under way.                    *)
(*                                                                         *)
(* A handler stops at its await: one step begins and dispatches, one gets  *)
(* the outcome, and one settles the record and answers.  Frames handled    *)
(* between the outcome and the settling (a session event right behind the  *)
(* acknowledgement) see the record as still pending.                       *)
(*                                                                         *)
(* The sessions of a conversation are numbered in the order of their       *)
(* compressions; 0 is none yet.  The Gateway may send any of them at any   *)
(* time: late, twice, or with a predecessor the Router has not heard of.   *)
(***************************************************************************)
EXTENDS Naturals, FiniteSets

CONSTANTS
    Submissions,   \* submission ids, chosen by the clients
    External,      \* those that reply to an external channel
    Lanes,         \* conversations, each with its lane
    Adopted,       \* those adopted from Hermes sessions before any submission
    MaxSession,    \* bound on the compressions of a conversation
    Unusable,      \* submissions the Gateway may acknowledge in a form the Router refuses
    DiskFails      \* a save may throw

VARIABLES
    store,    \* conversations and submissions in memory
    file,     \* the same on disk
    flight,   \* submission -> where its request stands
    up,       \* the Agent has a route that is ready
    sent,     \* submission -> how often it was given to the Gateway
    gateway,  \* submission -> what the Gateway has decided
    told      \* submission -> the last answer to a client

vars == <<store, file, flight, up, sent, gateway, told>>

ASSUME ConstantsAssumption ==
    /\ External \subseteq Submissions
    /\ Adopted \subseteq Lanes
    /\ MaxSession \in Nat \ {0}
    /\ Unusable \subseteq Submissions
    /\ DiskFails \in BOOLEAN

Sessions == 1..MaxSession
Session0 == 0..MaxSession

Submission == [lane    : Lanes,
               session : Session0,
               state   : {"pending", "accepted", "ambiguous", "failed"}]

(* lanes: the known conversations and the session each is bound to *)
Stored(x) ==
    /\ x = [lanes |-> x.lanes, subs |-> x.subs]
    /\ DOMAIN x.lanes \subseteq Lanes
    /\ x.lanes \in [DOMAIN x.lanes -> Session0]
    /\ DOMAIN x.subs \subseteq Submissions
    /\ x.subs \in [DOMAIN x.subs -> Submission]

(* An acknowledgement without a session id has session 0. *)
Flight == [phase : {"none", "waiting", "unsent", "accepted", "refused", "invalid", "ambiguous"},
           session : Session0]

Idle == [phase |-> "none", session |-> 0]

Known == DOMAIN store.lanes
Begun == DOMAIN store.subs

With(f, x, v) == [y \in DOMAIN f \cup {x} |-> IF y = x THEN v ELSE f[y]]

(* A save that throws may have replaced the file before it did. *)
Save(before, after, ok) ==
    /\ ok \/ DiskFails
    /\ file' \in IF ok THEN {after} ELSE {before, after}

Answer(s, a) == told' = [told EXCEPT ![s] = a]

-----------------------------------------------------------------------------
(* beginSubmission and the dispatch of a new submission *)

WithLane(x, l) == [x EXCEPT !.lanes = With(@, l, 0)]

(* Mutant: the record is kept in memory until it is settled. *)
SaveNothing(before, after, ok) == ok /\ file' = file

BeginSave(before, after, ok) == Save(before, after, ok)

(* nativeRequestByAgentId: sent if the route is ready, else refused here *)
Dispatch(s) ==
    IF up
    THEN /\ flight' = [flight EXCEPT ![s].phase = "waiting"]
         /\ sent' = [sent EXCEPT ![s] = @ + 1]
    ELSE /\ flight' = [flight EXCEPT ![s].phase = "unsent"]
         /\ UNCHANGED sent

WithSubmission(x, s, l) ==
    [x EXCEPT !.subs = With(@, s, [lane |-> l, session |-> x.lanes[l], state |-> "pending"])]

(* base: the store after resolveConversation *)
BeginSubmission(s, l, base, ok) ==
    LET begun == WithSubmission(base, s, l)
    IN  /\ store' = begun
        /\ BeginSave(IF base = store THEN file ELSE base, begun, ok)
        /\ IF ok THEN Dispatch(s) /\ UNCHANGED told
                 ELSE Answer(s, "error") /\ UNCHANGED <<flight, sent>>

(* handleExternalSessionMessage: a reply is to a session of Hermes, which  *)
(* is adopted once the Gateway has said that it may be replied to          *)
MayReply(s, l) == s \in External => l \in Adopted

Submit(s, l) ==
    /\ s \notin Begun
    /\ l \in Known
    /\ MayReply(s, l)
    /\ \E ok \in BOOLEAN : BeginSubmission(s, l, store, ok)
    /\ UNCHANGED <<up, gateway>>

SubmitToNewConversation(s, l) ==
    /\ s \notin Begun \cup External
    /\ l \notin Known
    /\ \/ \E ok \in BOOLEAN : BeginSubmission(s, l, WithLane(store, l), ok)
       \/ /\ store' = WithLane(store, l)
          /\ Save(file, WithLane(store, l), FALSE)
          /\ Answer(s, "error")
          /\ UNCHANGED <<flight, sent>>
    /\ UNCHANGED <<up, gateway>>

(* Mutants: any prior outcome but a failure will do; a duplicate of a      *)
(* submission without an outcome is sent again.                            *)
PriorAcceptedLoosely(s) == store.subs[s].state # "failed"

ResubmitPending(s) ==
    /\ s \in Begun
    /\ flight[s].phase = "none"
    /\ Dispatch(s)
    /\ UNCHANGED told
    /\ UNCHANGED <<store, file, up, gateway>>

(* A native duplicate is answered as accepted only with its session. *)
PriorAccepted(s) ==
    LET x == store.subs[s]
    IN  x.state = "accepted" /\ (s \in External \/ x.session # 0)

(* The same submission id again.  One that names another conversation is   *)
(* refused as a conflict, which says nothing of the submission.            *)
Resubmit(s) ==
    /\ s \in Begun
    /\ Answer(s, IF PriorAccepted(s) THEN "accepted" ELSE "ambiguous")
    /\ UNCHANGED <<store, file, flight, up, sent, gateway>>

-----------------------------------------------------------------------------
(* The Gateway *)

Take(s) ==
    /\ sent[s] > 0
    /\ gateway[s] = "undecided"
    /\ gateway' = [gateway EXCEPT ![s] = "taken"]
    /\ UNCHANGED <<store, file, flight, up, sent, told>>

Outcome(s, phase, n) ==
    /\ flight[s].phase = "waiting"
    /\ flight' = [flight EXCEPT ![s] = [phase |-> phase, session |-> n]]
    /\ UNCHANGED <<store, file, sent, told>>

AckAccepted(s, n) ==
    /\ gateway[s] = "taken"
    /\ n = 0 => s \in Unusable \cup External
    /\ Outcome(s, "accepted", n)
    /\ UNCHANGED <<up, gateway>>

AckRefused(s) ==
    /\ gateway[s] = "undecided"
    /\ Outcome(s, "refused", 0)
    /\ gateway' = [gateway EXCEPT ![s] = "refused"]
    /\ UNCHANGED up

(* cleanNativeAck throws: the Router closes the socket as well. *)
AckInvalid(s) ==
    /\ s \in Unusable
    /\ Outcome(s, "invalid", 0)
    /\ up' = FALSE
    /\ UNCHANGED gateway

(* Mutant: a request waits for its connection to close. *)
LostWithRoute(s) ==
    /\ ~up
    /\ Outcome(s, "ambiguous", 0)
    /\ UNCHANGED <<up, gateway>>

(* rejectAmbiguous: the deadline has passed, the send has failed, or the   *)
(* connection the request was sent on has closed.                          *)
Lost(s) ==
    /\ Outcome(s, "ambiguous", 0)
    /\ UNCHANGED <<up, gateway>>

-----------------------------------------------------------------------------
(* updateSubmission and the answer *)

(* Mutant: an acknowledgement binds its lane whatever it is bound to. *)
BoundByLatest(x, l, n) == IF n # 0 THEN n ELSE x.lanes[l]

(* The session a lane has after an acknowledgement that names n *)
Bound(x, l, n) == IF n # 0 /\ x.lanes[l] \in {0, n} THEN n ELSE x.lanes[l]

(* Mutant: only the submission learns its session. *)
UpdatedAlone(x, s, state, n) ==
    LET l == x.subs[s].lane
    IN  [x EXCEPT !.subs[s].state = state, !.subs[s].session = Bound(x, l, n)]

Updated(x, s, state, n) ==
    LET l == x.subs[s].lane
        accepted == IF Bound(x, l, n) # 0 THEN Bound(x, l, n) ELSE x.subs[s].session
    IN  [lanes |-> [x.lanes EXCEPT ![l] = accepted],
         subs  |-> [x.subs EXCEPT ![s].state = state, ![s].session = accepted]]

(* Mutants: a deadline is a failure; an error leaves the record as it is;  *)
(* the outcome is stored as the state.                                     *)
SettlementOnTime(s) ==
    IF flight[s].phase = "accepted" THEN "accepted" ELSE "failed"

SettlementOrNone(s) ==
    CASE flight[s].phase = "accepted" -> "accepted"
      [] flight[s].phase = "ambiguous" -> "ambiguous"
      [] flight[s].phase = "refused" -> "failed"
      [] OTHER -> "pending"

SettlementVerbatim(s) == flight[s].phase

(* The state an outcome leads to.  A native acknowledgement without a      *)
(* session counts as a refusal.                                            *)
Settlement(s) ==
    LET o == flight[s]
    IN  CASE o.phase = "accepted" /\ (o.session # 0 \/ s \in External) -> "accepted"
          [] o.phase = "ambiguous" -> "ambiguous"
          [] OTHER -> "failed"

(* The catch block changes the record only if it is still pending, so a    *)
(* save that throws leaves the memory settled and answers with its error.  *)
Settle(s) ==
    LET state == Settlement(s)
        after == Updated(store, s, state, flight[s].session)
    IN  /\ flight[s].phase \notin {"none", "waiting"}
        /\ store' = after
        /\ \E ok \in BOOLEAN :
              /\ Save(file, after, ok)
              /\ Answer(s, IF ok \/ state = "failed" THEN state ELSE "error")
        /\ flight' = [flight EXCEPT ![s] = Idle]
        /\ UNCHANGED <<up, sent, gateway>>

-----------------------------------------------------------------------------
(* Session events *)

(* acceptSessionEvent: only a continuation of its own session moves a lane *)
(* that is bound.                                                          *)
Continued(x, l, n, previous) ==
    IF x.lanes[l] = 0 \/ (previous # 0 /\ previous = x.lanes[l]) THEN n ELSE x.lanes[l]

Moved(x, l, n, previous) == [x EXCEPT !.lanes[l] = Continued(x, l, n, previous)]

(* The predecessor an event of session n names: session.info, 0 or n - 1 *)
Predecessors(n) == {0, n - 1}

(* An event of no submission, or a runtime snapshot *)
SessionEvent(l, n, previous) ==
    LET after == Moved(store, l, n, previous)
    IN  /\ l \in Known
        /\ store' = after
        /\ \E ok \in BOOLEAN :
              /\ Save(file, after, ok)
              /\ up' = (up /\ ok)
        /\ UNCHANGED <<flight, sent, gateway, told>>

(* A session.info of a submission also brings its record up to the lane's  *)
(* session, unless the event is late.                                      *)
SessionInfo(s, n, previous) ==
    LET l     == store.subs[s].lane
        moved == Moved(store, l, n, previous)
        after == IF moved.lanes[l] = n
                 THEN Updated(moved, s, store.subs[s].state, n)
                 ELSE moved
    IN  /\ s \in Begun
        /\ \/ \E ok \in BOOLEAN :
                 /\ store' = after
                 /\ Save(moved, after, ok)
                 /\ up' = (up /\ ok)
           \/ /\ store' = moved
              /\ Save(file, moved, FALSE)
              /\ up' = FALSE
        /\ UNCHANGED <<flight, sent, gateway, told>>

-----------------------------------------------------------------------------
RouteUp ==
    /\ ~up
    /\ up' = TRUE
    /\ UNCHANGED <<store, file, flight, sent, gateway, told>>

RouteDown ==
    /\ up
    /\ up' = FALSE
    /\ UNCHANGED <<store, file, flight, sent, gateway, told>>

Restart ==
    /\ store' = file
    /\ flight' = [s \in Submissions |-> Idle]
    /\ up' = FALSE
    /\ UNCHANGED <<file, sent, gateway, told>>

(* Adopted conversations are known from the start; a native one is made by *)
(* its first submission.                                                   *)
Init ==
    /\ store = [lanes |-> [l \in Adopted |-> 1], subs |-> [s \in {} |-> 0]]
    /\ file = store
    /\ flight = [s \in Submissions |-> Idle]
    /\ up = FALSE
    /\ sent = [s \in Submissions |-> 0]
    /\ gateway = [s \in Submissions |-> "undecided"]
    /\ told = [s \in Submissions |-> "nothing"]

Next ==
    \/ \E s \in Submissions :
          \/ \E l \in Lanes : Submit(s, l) \/ SubmitToNewConversation(s, l)
          \/ Resubmit(s)
          \/ Take(s)
          \/ \E n \in Session0 : AckAccepted(s, n)
          \/ AckRefused(s)
          \/ AckInvalid(s)
          \/ Lost(s)
          \/ Settle(s)
          \/ \E n \in Sessions : \E p \in Predecessors(n) : SessionInfo(s, n, p)
    \/ \E l \in Lanes, n \in Sessions : \E p \in Predecessors(n) : SessionEvent(l, n, p)
    \/ RouteUp
    \/ RouteDown
    \/ Restart

Spec == Init /\ [][Next]_vars

(* Requests have a deadline, and a promise that is settled is continued. *)
Fairness == \A s \in Submissions : WF_vars(Lost(s)) /\ WF_vars(Settle(s))

FairSpec == Spec /\ Fairness

-----------------------------------------------------------------------------
(* Properties *)

TypeOK ==
    /\ Stored(store)
    /\ Stored(file)
    /\ flight \in [Submissions -> Flight]
    /\ up \in BOOLEAN
    /\ sent \in [Submissions -> Nat]
    /\ gateway \in [Submissions -> {"undecided", "taken", "refused"}]
    /\ told \in [Submissions -> {"nothing", "accepted", "ambiguous", "failed", "error"}]

(* A message is given to the Gateway at most once, whatever clients        *)
(* repeat, whenever the deadline passes, saves throw and the Router        *)
(* restarts between the dispatch and the answer.                           *)
AtMostOnce == \A s \in Submissions : sent[s] <= 1

(* A client is told 202 only of a message the Gateway has taken: no        *)
(* duplicate, restart or reload turns a doubtful submission into one.      *)
AcceptedWasTaken ==
    \A s \in Submissions : told[s] = "accepted" => gateway[s] = "taken"

(* A submission is called failed only if Hermes does not have the message, *)
(* so that a client may offer it again under a new id.  An acknowledgement *)
(* the Router refuses (another shape, or no session) is the exception.     *)
FailedWasNotTaken ==
    \A s \in Submissions \ Unusable :
        \/ told[s] = "failed"
        \/ s \in Begun /\ store.subs[s].state = "failed"
        => gateway[s] # "taken"

(* What clients are told of a message is true: a 202, or a failure after   *)
(* which it may be offered again.                                          *)
OutcomesAreTrue == AcceptedWasTaken /\ FailedWasNotTaken

(* Every request that ends leaves its record settled, also when the save   *)
(* of the outcome throws: only a restart or a save that failed before the  *)
(* dispatch leaves a record pending.                                       *)
RequestsSettle ==
    [][\/ Restart
       \/ \A s \in Submissions :
             flight[s].phase # "none" /\ flight'[s].phase = "none"
                => store'.subs[s].state # "pending"]_vars

(* A conversation moves on to the continuation of its session and never    *)
(* back: not by late events of the parent, nor by the acknowledgement of a *)
(* message that was sent to the parent.                                    *)
LaneNeverRollsBack ==
    [][\/ Restart
       \/ \A l \in Known : store'.lanes[l] >= store.lanes[l]]_vars

(* The session a submission names is one its conversation has, or has had: *)
(* the two records of a binding, in memory and in a file that a failed     *)
(* save may have left behind, never disagree.                              *)
SubmissionsFollowLanes ==
    \A x \in {store, file} : \A s \in DOMAIN x.subs :
        /\ x.subs[s].lane \in DOMAIN x.lanes
        /\ x.subs[s].session <= x.lanes[x.subs[s].lane]

(* What the test of the store says: "accepted submission idempotency       *)
(* survives reload" - a client that was told 202 is told so again.         *)
AcceptedStays ==
    [][\A s \in Submissions : told[s] = "accepted" => told'[s] = "accepted"]_vars

(* A request does not wait for ever for an acknowledgement.                *)
RequestsEnd ==
    \A s \in Submissions : flight[s].phase # "none" ~> flight[s].phase = "none"
=============================================================================
