----------------------- MODULE NativeSubmissionProofs -----------------------
(***************************************************************************)
(* Native submissions for any number of submissions, conversations and     *)
(* sessions, with saves that throw and restarts.                           *)
(*                                                                         *)
(* At most once rests on the file: whatever has been sent is on disk, and  *)
(* what is on disk is in memory, so a restart forgets no dispatch.  That   *)
(* answers are right rests on tracing each state back to the Gateway's     *)
(* decision.  That a conversation never moves back needs the bindings of   *)
(* its submissions to be no newer than its own.                            *)
(***************************************************************************)
EXTENDS NativeSubmission, TLAPS

States == {"pending", "accepted", "ambiguous", "failed"}

(* A store whose submissions belong to its conversations *)
Good(x) ==
    /\ Stored(x)
    /\ \A s \in DOMAIN x.subs :
          /\ x.subs[s].lane \in DOMAIN x.lanes
          /\ x.subs[s].session <= x.lanes[x.subs[s].lane]

(* The state of a submission in a store *)
St(x, s) == IF s \in DOMAIN x.subs THEN x.subs[s].state ELSE "none"

(* The conversations of y are those of x, or later *)
Grown(x, y) ==
    /\ DOMAIN x.lanes \subseteq DOMAIN y.lanes
    /\ \A l \in DOMAIN x.lanes : y.lanes[l] >= x.lanes[l]

USE ConstantsAssumption

LEMMA WithLaneGood ==
  ASSUME NEW x, Good(x), NEW l \in Lanes, l \notin DOMAIN x.lanes
  PROVE  LET y == WithLane(x, l)
         IN  /\ Good(y)
             /\ y.subs = x.subs
             /\ l \in DOMAIN y.lanes
             /\ Grown(x, y)
<1> DEFINE y == WithLane(x, l)
<1>1. x = [lanes |-> x.lanes, subs |-> x.subs] /\ x.lanes \in [DOMAIN x.lanes -> Session0]
  BY DEF Good, Stored
<1>2. y = [lanes |-> With(x.lanes, l, 0), subs |-> x.subs]
  BY <1>1 DEF WithLane
<1>3. /\ DOMAIN y.lanes = DOMAIN x.lanes \cup {l}
      /\ \A m \in DOMAIN x.lanes : y.lanes[m] = x.lanes[m] /\ y.lanes[m] \in Session0
      /\ y.lanes[l] = 0
  BY <1>1, <1>2 DEF With
<1>4. y.lanes \in [DOMAIN y.lanes -> Session0]
  BY <1>2, <1>3 DEF With, Session0
<1> QED
  BY <1>2, <1>3, <1>4 DEF Good, Stored, Grown, Session0

LEMMA WithSubmissionGood ==
  ASSUME NEW x, Good(x), NEW s \in Submissions, s \notin DOMAIN x.subs,
         NEW l \in DOMAIN x.lanes
  PROVE  LET y == WithSubmission(x, s, l)
         IN  /\ Good(y)
             /\ y.lanes = x.lanes
             /\ DOMAIN y.subs = DOMAIN x.subs \cup {s}
             /\ St(y, s) = "pending"
             /\ \A t \in Submissions \ {s} : St(y, t) = St(x, t)
<1> DEFINE r == [lane |-> l, session |-> x.lanes[l], state |-> "pending"]
           y == WithSubmission(x, s, l)
<1>1. x = [lanes |-> x.lanes, subs |-> x.subs] /\ x.lanes \in [DOMAIN x.lanes -> Session0]
  BY DEF Good, Stored
<1>2. y = [lanes |-> x.lanes, subs |-> With(x.subs, s, r)]
  BY <1>1 DEF WithSubmission
<1>3. r \in Submission
  BY <1>1 DEF Good, Stored, Submission
<1>4. /\ DOMAIN y.subs = DOMAIN x.subs \cup {s}
      /\ y.subs[s] = r
      /\ \A t \in DOMAIN x.subs : t # s /\ y.subs[t] = x.subs[t]
  BY <1>2 DEF With
<1>5. y.subs \in [DOMAIN y.subs -> Submission]
  BY <1>2, <1>3, <1>4 DEF With, Good, Stored
<1>6. Stored(y)
  BY <1>2, <1>4, <1>5 DEF Good, Stored
<1>7. r.session <= x.lanes[r.lane]
  BY <1>1 DEF Session0
<1> QED
  BY <1>2, <1>4, <1>6, <1>7 DEF Good, St

LEMMA UpdatedGood ==
  ASSUME NEW x, Good(x), NEW s \in DOMAIN x.subs, NEW state \in States, NEW n \in Session0
  PROVE  LET y == Updated(x, s, state, n)
         IN  /\ Good(y)
             /\ DOMAIN y.subs = DOMAIN x.subs
             /\ Grown(x, y)
             /\ St(y, s) = state
             /\ \A t \in Submissions \ {s} : St(y, t) = St(x, t)
<1> DEFINE l == x.subs[s].lane
           a == IF Bound(x, l, n) # 0 THEN Bound(x, l, n) ELSE x.subs[s].session
           r == [lane |-> l, session |-> a, state |-> state]
           y == Updated(x, s, state, n)
<1>1. /\ x = [lanes |-> x.lanes, subs |-> x.subs]
      /\ x.lanes \in [DOMAIN x.lanes -> Session0]
      /\ x.subs \in [DOMAIN x.subs -> Submission]
      /\ l \in DOMAIN x.lanes /\ l \in Lanes
      /\ x.subs[s].session \in Session0 /\ x.subs[s].session <= x.lanes[l]
      /\ x.subs[s] = [lane |-> l, session |-> x.subs[s].session, state |-> x.subs[s].state]
  BY DEF Good, Stored, Submission
<1>2. Bound(x, l, n) \in Session0 /\ Bound(x, l, n) >= x.lanes[l]
  BY <1>1 DEF Bound, Session0
<1>3. a \in Session0 /\ a >= x.lanes[l]
  BY <1>1, <1>2 DEF Session0
<1>4. y = [lanes |-> [x.lanes EXCEPT ![l] = a], subs |-> [x.subs EXCEPT ![s] = r]]
  <2>1. [x.subs EXCEPT ![s].state = state, ![s].session = a] = [x.subs EXCEPT ![s] = r]
    <3> DEFINE f == [x.subs EXCEPT ![s].state = state, ![s].session = a]
               g == [x.subs EXCEPT ![s] = r]
    <3>1. \A t \in DOMAIN x.subs : t # s => f[t] = g[t]
      BY <1>1
    <3>2. f[s] = r
      BY <1>1
    <3>3. DOMAIN f = DOMAIN x.subs /\ DOMAIN g = DOMAIN x.subs /\ g[s] = r
      BY <1>1
    <3>4. f = [t \in DOMAIN f |-> f[t]] /\ g = [t \in DOMAIN g |-> g[t]]
      BY <1>1
    <3> HIDE DEF f, g
    <3>5. f = g
      BY <3>1, <3>2, <3>3, <3>4
    <3> QED
      BY <3>5 DEF f, g
  <2> QED
    BY <2>1 DEF Updated
<1> HIDE DEF a
<1>5. r \in Submission
  BY <1>1, <1>3 DEF Submission, States
<1>6. Stored(y)
  BY <1>1, <1>3, <1>4, <1>5 DEF Good, Stored
<1>7. ASSUME NEW t \in DOMAIN y.subs
      PROVE  y.subs[t].lane \in DOMAIN y.lanes /\ y.subs[t].session <= y.lanes[y.subs[t].lane]
  <2>1. CASE t = s
    BY <1>1, <1>3, <1>4, <2>1 DEF Session0
  <2>2. CASE t # s
    <3>1. y.subs[t] = x.subs[t] /\ t \in DOMAIN x.subs
      BY <1>1, <1>4, <1>7, <2>2
    <3>2. /\ x.subs[t].lane \in DOMAIN x.lanes
          /\ x.subs[t].session \in Session0
          /\ x.lanes[x.subs[t].lane] \in Session0
          /\ x.subs[t].session <= x.lanes[x.subs[t].lane]
      BY <1>1, <3>1 DEF Good, Submission
    <3>3. y.lanes[x.subs[t].lane] >= x.lanes[x.subs[t].lane]
      BY <1>1, <1>3, <1>4, <3>2 DEF Session0
    <3>4. y.lanes[x.subs[t].lane] \in Session0
      BY <1>1, <1>3, <1>4, <3>2
    <3> QED
      BY <1>1, <1>4, <3>1, <3>2, <3>3, <3>4 DEF Session0
  <2> QED
    BY <2>1, <2>2
<1>8. Grown(x, y)
  BY <1>1, <1>3, <1>4 DEF Grown, Session0
<1>9. DOMAIN y.subs = DOMAIN x.subs /\ St(y, s) = state
  BY <1>1, <1>4 DEF St
<1>10. \A t \in Submissions \ {s} : St(y, t) = St(x, t)
  BY <1>1, <1>4 DEF St
<1> QED
  BY <1>6, <1>7, <1>8, <1>9, <1>10 DEF Good

LEMMA MovedGood ==
  ASSUME NEW x, Good(x), NEW l \in DOMAIN x.lanes, NEW n \in Sessions, NEW p \in Predecessors(n)
  PROVE  LET y == Moved(x, l, n, p)
         IN  /\ Good(y)
             /\ y.subs = x.subs
             /\ Grown(x, y)
<1> DEFINE y == Moved(x, l, n, p)
           c == Continued(x, l, n, p)
<1>1. /\ x = [lanes |-> x.lanes, subs |-> x.subs]
      /\ x.lanes \in [DOMAIN x.lanes -> Session0]
      /\ x.subs \in [DOMAIN x.subs -> Submission]
  BY DEF Good, Stored
<1>2. c \in Session0 /\ c >= x.lanes[l]
  BY <1>1 DEF Continued, Predecessors, Session0, Sessions
<1>3. y = [lanes |-> [x.lanes EXCEPT ![l] = c], subs |-> x.subs]
  BY <1>1 DEF Moved
<1> HIDE DEF c
<1>4. Grown(x, y)
  BY <1>1, <1>2, <1>3 DEF Grown, Session0
<1>5. Stored(y)
  BY <1>1, <1>2, <1>3 DEF Good, Stored
<1>6. ASSUME NEW t \in DOMAIN x.subs
      PROVE  x.subs[t].lane \in DOMAIN y.lanes /\ x.subs[t].session <= y.lanes[x.subs[t].lane]
  <2> DEFINE m == x.subs[t].lane
  <2>1. m \in DOMAIN x.lanes /\ x.subs[t].session \in Session0 /\ x.subs[t].session <= x.lanes[m]
    BY <1>1, <1>6 DEF Good, Submission
  <2>2. y.lanes[m] \in Session0 /\ x.lanes[m] \in Session0 /\ y.lanes[m] >= x.lanes[m]
    BY <1>1, <1>2, <1>3, <2>1 DEF Session0
  <2> QED
    BY <1>1, <1>3, <2>1, <2>2 DEF Session0
<1> QED
  BY <1>3, <1>4, <1>5, <1>6 DEF Good
-----------------------------------------------------------------------------
(* The Gateway does not have the message, and will not get it. *)
Withheld(s) == sent[s] = 0 \/ gateway[s] = "refused"

Traced(s) ==
    /\ sent[s] <= 1
    /\ sent[s] > 0 \/ flight[s].phase # "none" \/ told[s] = "failed" => s \in DOMAIN file.subs
    /\ gateway[s] = "taken" => sent[s] > 0
    /\ \/ flight[s].phase = "accepted"
       \/ told[s] = "accepted"
       \/ St(store, s) = "accepted"
       \/ St(file, s) = "accepted"
       => gateway[s] = "taken"
    /\ s \notin Unusable =>
          /\ flight[s].phase # "invalid"
          /\ flight[s].phase = "accepted" /\ flight[s].session = 0 => s \in External
          /\ \/ flight[s].phase \in {"unsent", "refused"}
             \/ told[s] = "failed"
             \/ St(store, s) = "failed"
             \/ St(file, s) = "failed"
             => Withheld(s)

Stores ==
    /\ Good(store)
    /\ Good(file)
    /\ DOMAIN file.subs \subseteq DOMAIN store.subs

Kinds ==
    /\ flight \in [Submissions -> Flight]
    /\ up \in BOOLEAN
    /\ sent \in [Submissions -> Nat]
    /\ gateway \in [Submissions -> {"undecided", "taken", "refused"}]
    /\ told \in [Submissions -> {"nothing", "accepted", "ambiguous", "failed", "error"}]

IInv == Stores /\ Kinds /\ \A s \in Submissions : Traced(s)

LEMMA InitIInv == Init => IInv
<1> SUFFICES ASSUME Init PROVE IInv
  OBVIOUS
<1>1. Good(store)
  BY DEF Init, Good, Stored, Session0
<1>2. DOMAIN store.subs = {}
  BY DEF Init
<1>3. Stores
  BY <1>1 DEF Init, Stores
<1>4. Kinds
  <2>1. Idle \in Flight
    BY DEF Idle, Flight, Session0
  <2> QED
    BY <2>1 DEF Init, Kinds
<1>5. ASSUME NEW s \in Submissions PROVE Traced(s)
  BY <1>2 DEF Init, Traced, Idle, Withheld, St
<1> QED
  BY <1>3, <1>4, <1>5 DEF IInv

(* A dispatch sends a message that is new, and on disk by now. *)
LEMMA BeginKeeps ==
  ASSUME IInv, NEW s \in Submissions, s \notin Begun, NEW base, Good(base),
         base.subs = store.subs, NEW l \in DOMAIN base.lanes, NEW ok \in BOOLEAN,
         BeginSubmission(s, l, base, ok), UNCHANGED <<up, gateway>>
  PROVE  IInv'
<1> DEFINE y == WithSubmission(base, s, l)
<1>1. /\ Good(y)
      /\ DOMAIN y.subs = DOMAIN store.subs \cup {s}
      /\ St(y, s) = "pending"
      /\ \A t \in Submissions \ {s} : St(y, t) = St(store, t)
  <2>1. \A t : St(base, t) = St(store, t)
    BY DEF St
  <2> QED
    BY <2>1, WithSubmissionGood DEF Begun
<1> HIDE DEF y
<1>2. /\ store' = y
      /\ file' \in {file, base, y}
      /\ ok => file' = y
  BY DEF BeginSubmission, BeginSave, Save, y
<1>3. Stores'
  BY <1>1, <1>2 DEF IInv, Stores
<1>4. \/ /\ ok /\ told' = told
         /\ \/ /\ sent' = [sent EXCEPT ![s] = @ + 1]
               /\ flight' = [flight EXCEPT ![s].phase = "waiting"]
            \/ /\ sent' = sent
               /\ flight' = [flight EXCEPT ![s].phase = "unsent"]
      \/ told' = [told EXCEPT ![s] = "error"] /\ sent' = sent /\ flight' = flight
  BY DEF BeginSubmission, Dispatch, Answer
<1>5. Kinds'
  <2>1. /\ flight \in [Submissions -> Flight] /\ flight[s] \in Flight
        /\ sent \in [Submissions -> Nat]
        /\ told \in [Submissions -> {"nothing", "accepted", "ambiguous", "failed", "error"}]
    BY DEF IInv, Kinds
  <2>2. [flight[s] EXCEPT !.phase = "waiting"] \in Flight /\ [flight[s] EXCEPT !.phase = "unsent"] \in Flight
    BY <2>1 DEF Flight
  <2>3. flight' \in [Submissions -> Flight]
    BY <1>4, <2>1, <2>2
  <2>4. sent' \in [Submissions -> Nat]
    BY <1>4, <2>1
  <2>5. told' \in [Submissions -> {"nothing", "accepted", "ambiguous", "failed", "error"}]
    BY <1>4, <2>1
  <2> QED
    BY <2>3, <2>4, <2>5 DEF IInv, Kinds
<1>6. /\ s \notin DOMAIN file.subs
      /\ sent[s] = 0 /\ flight[s].phase = "none" /\ told[s] # "failed"
      /\ gateway[s] # "taken" /\ told[s] # "accepted"
      /\ St(file, s) = "none"
  BY DEF IInv, Stores, Traced, Begun, Kinds, St
<1>7. \A t \in Submissions : St(file', t) \in {St(file, t), St(store, t), St(y, t)}
  BY <1>2 DEF St
<1>8. St(file', s) \in {"none", "pending"}
  BY <1>1, <1>2, <1>6 DEF St, Begun
<1>9. DOMAIN file.subs \subseteq DOMAIN file'.subs
  BY <1>1, <1>2 DEF IInv, Stores
<1>10. ASSUME NEW t \in Submissions PROVE Traced(t)'
  <2>1. CASE t = s
    <3>1. St(store', s) = "pending"
      BY <1>1, <1>2
    <3>2. ok => s \in DOMAIN file'.subs
      BY <1>1, <1>2
    <3>3. flight'[s].phase \in {"waiting", "unsent", "none"} /\ told'[s] \in {told[s], "error"}
      BY <1>4, <1>6 DEF IInv, Kinds, Flight
    <3>4. sent'[s] \in {0, 1} /\ (~ok => sent'[s] = 0 /\ flight'[s].phase = "none")
      BY <1>4, <1>6 DEF IInv, Kinds, Flight
    <3>5. flight'[s].phase = "unsent" => sent'[s] = 0
      BY <1>4, <1>6 DEF IInv, Kinds, Flight
    <3> QED
      BY <1>6, <1>8, <2>1, <3>1, <3>2, <3>3, <3>4, <3>5 DEF Traced, Withheld
  <2>2. CASE t # s
    <3>1. flight'[t] = flight[t] /\ sent'[t] = sent[t] /\ told'[t] = told[t] /\ gateway'[t] = gateway[t]
      BY <1>4, <2>2 DEF IInv, Kinds
    <3>2. St(store', t) = St(store, t) /\ St(file', t) \in {St(file, t), St(store, t)}
      BY <1>1, <1>2, <1>7, <2>2
    <3>3. Traced(t)
      BY DEF IInv
    <3> QED
      BY <1>9, <3>1, <3>2, <3>3 DEF Traced, Withheld
  <2> QED
    BY <2>1, <2>2
<1> QED
  BY <1>3, <1>5, <1>10 DEF IInv

(* Steps that change bindings but not the state of any submission *)
LEMMA BindingsKeep ==
  ASSUME IInv, Good(store'), Good(file'),
         DOMAIN store.subs \subseteq DOMAIN store'.subs,
         DOMAIN file.subs \subseteq DOMAIN file'.subs,
         DOMAIN file'.subs \subseteq DOMAIN store'.subs,
         \A t \in Submissions : St(store', t) = St(store, t) /\ St(file', t) \in {St(file, t), St(store, t)},
         up' \in BOOLEAN, UNCHANGED <<flight, sent, gateway>>,
         \/ told' = told
         \/ \E s \in Submissions : told' = [told EXCEPT ![s] = "error"]
  PROVE  IInv'
<1>1. Stores'
  BY DEF Stores
<1>2. Kinds'
  BY DEF IInv, Kinds
<1>3. ASSUME NEW t \in Submissions PROVE Traced(t)'
  <2>1. told'[t] \in {told[t], "error"}
    BY DEF IInv, Kinds
  <2> QED
    BY <2>1 DEF IInv, Traced, Withheld
<1> QED
  BY <1>1, <1>2, <1>3 DEF IInv

LEMMA SubmitKeeps ==
  ASSUME IInv, NEW s \in Submissions, NEW l \in Lanes, Submit(s, l)
  PROVE  IInv'
<1>1. PICK ok \in BOOLEAN : BeginSubmission(s, l, store, ok)
  BY DEF Submit
<1>2. s \notin Begun /\ l \in DOMAIN store.lanes /\ Good(store)
  BY DEF Submit, Known, IInv, Stores
<1> QED
  BY <1>1, <1>2, BeginKeeps DEF Submit

LEMMA SubmitToNewConversationKeeps ==
  ASSUME IInv, NEW s \in Submissions, NEW l \in Lanes, SubmitToNewConversation(s, l)
  PROVE  IInv'
<1> DEFINE y == WithLane(store, l)
<1>1. Good(y) /\ y.subs = store.subs /\ l \in DOMAIN y.lanes
  BY WithLaneGood DEF SubmitToNewConversation, Known, IInv, Stores
<1> HIDE DEF y
<1>2. CASE \E ok \in BOOLEAN : BeginSubmission(s, l, y, ok)
  BY <1>1, <1>2, BeginKeeps DEF SubmitToNewConversation
<1>3. CASE /\ store' = y
           /\ Save(file, y, FALSE)
           /\ Answer(s, "error")
           /\ UNCHANGED <<flight, sent>>
  <2>1. file' \in {file, y} /\ store' = y /\ told' = [told EXCEPT ![s] = "error"]
    BY <1>3 DEF Save, Answer
  <2>2. Good(file) /\ DOMAIN file.subs \subseteq DOMAIN store.subs
    BY DEF IInv, Stores
  <2>3. \A t \in Submissions : St(store', t) = St(store, t) /\ St(file', t) \in {St(file, t), St(store, t)}
    BY <1>1, <2>1 DEF St
  <2>4. up' = up /\ up \in BOOLEAN /\ UNCHANGED <<flight, sent, gateway>>
    BY <1>3 DEF SubmitToNewConversation, IInv, Kinds
  <2> QED
    BY <1>1, <2>1, <2>2, <2>3, <2>4, BindingsKeep
<1> QED
  BY <1>2, <1>3 DEF SubmitToNewConversation, y

LEMMA ResubmitKeeps ==
  ASSUME IInv, NEW s \in Submissions, Resubmit(s)
  PROVE  IInv'
<1>1. /\ told' = [told EXCEPT ![s] = IF PriorAccepted(s) THEN "accepted" ELSE "ambiguous"]
      /\ UNCHANGED <<store, file, flight, up, sent, gateway>>
  BY DEF Resubmit, Answer
<1>2. PriorAccepted(s) => St(store, s) = "accepted"
  BY DEF PriorAccepted, Resubmit, Begun, St
<1>3. Stores' /\ Kinds'
  BY <1>1 DEF IInv, Stores, Kinds
<1>4. ASSUME NEW t \in Submissions PROVE Traced(t)'
  <2>1. told'[t] = told[t] \/ told'[t] = "ambiguous" \/ (told'[t] = "accepted" /\ St(store, t) = "accepted")
    BY <1>1, <1>2 DEF IInv, Kinds
  <2> QED
    BY <1>1, <2>1 DEF IInv, Traced, Withheld, St
<1> QED
  BY <1>3, <1>4 DEF IInv

LEMMA TakeKeeps ==
  ASSUME IInv, NEW s \in Submissions, Take(s)
  PROVE  IInv'
<1>1. /\ sent[s] > 0 /\ gateway[s] = "undecided"
      /\ gateway' = [gateway EXCEPT ![s] = "taken"]
      /\ UNCHANGED <<store, file, flight, up, sent, told>>
  BY DEF Take
<1>2. Stores' /\ Kinds'
  BY <1>1 DEF IInv, Stores, Kinds
<1>3. ASSUME NEW t \in Submissions PROVE Traced(t)'
  <2>1. gateway'[t] = gateway[t] \/ (t = s /\ gateway'[t] = "taken")
    BY <1>1 DEF IInv, Kinds
  <2>2. t = s => ~Withheld(s)
    BY <1>1 DEF Withheld, IInv, Kinds
  <2> QED
    BY <1>1, <2>1, <2>2 DEF IInv, Traced, Withheld, St
<1> QED
  BY <1>2, <1>3 DEF IInv

(* The outcome of a request under way *)
LEMMA OutcomeKeeps ==
  ASSUME IInv, NEW s \in Submissions, NEW n \in Session0,
         NEW phase \in {"accepted", "refused", "invalid", "ambiguous"},
         Outcome(s, phase, n), up' \in BOOLEAN,
         phase = "accepted" => gateway[s] = "taken" /\ (n = 0 => s \in Unusable \cup External),
         phase = "invalid" => s \in Unusable,
         IF phase = "refused"
         THEN gateway[s] = "undecided" /\ gateway' = [gateway EXCEPT ![s] = "refused"]
         ELSE gateway' = gateway
  PROVE  IInv'
<1>1. /\ flight[s].phase = "waiting"
      /\ flight' = [flight EXCEPT ![s] = [phase |-> phase, session |-> n]]
      /\ UNCHANGED <<store, file, sent, told>>
  BY DEF Outcome
<1>2. [phase |-> phase, session |-> n] \in Flight
  BY DEF Flight
<1>3. Stores' /\ Kinds'
  BY <1>1, <1>2 DEF IInv, Stores, Kinds
<1>4. ASSUME NEW t \in Submissions PROVE Traced(t)'
  <2>1. Traced(t) /\ flight \in [Submissions -> Flight]
    BY DEF IInv, Kinds
  <2>2. CASE t = s
    <3>1. flight'[s].phase = phase /\ flight'[s].session = n
      BY <1>1, <2>1
    <3>2. IF phase = "refused" THEN gateway[s] = "undecided" /\ gateway'[s] = "refused" ELSE gateway'[s] = gateway[s]
      BY DEF IInv, Kinds
    <3> QED
      BY <1>1, <2>1, <2>2, <3>1, <3>2 DEF Traced, Withheld, St
  <2>3. CASE t # s
    <3>1. flight'[t] = flight[t] /\ gateway'[t] = gateway[t]
      BY <1>1, <2>1, <2>3 DEF IInv, Kinds
    <3> QED
      BY <1>1, <2>1, <3>1 DEF Traced, Withheld, St
  <2> QED
    BY <2>2, <2>3
<1> QED
  BY <1>3, <1>4 DEF IInv

LEMMA SettleKeeps ==
  ASSUME IInv, NEW s \in Submissions, Settle(s)
  PROVE  IInv' /\ Grown(store, store')
<1> DEFINE state == Settlement(s)
           y == Updated(store, s, state, flight[s].session)
<1>1. flight[s].phase \notin {"none", "waiting"} /\ flight[s] \in Flight /\ Traced(s)
  BY DEF Settle, IInv, Kinds
<1>2. s \in DOMAIN file.subs /\ s \in DOMAIN store.subs
  BY <1>1 DEF Traced, IInv, Stores
<1>3. state \in {"accepted", "ambiguous", "failed"}
  BY DEF Settlement
<1>4. /\ Good(y)
      /\ DOMAIN y.subs = DOMAIN store.subs
      /\ Grown(store, y)
      /\ St(y, s) = state
      /\ \A t \in Submissions \ {s} : St(y, t) = St(store, t)
  BY <1>1, <1>2, <1>3, UpdatedGood DEF IInv, Stores, States, Flight
<1>5. /\ store' = y
      /\ file' \in {file, y}
      /\ \E ok \in BOOLEAN : told' = [told EXCEPT ![s] = IF ok \/ state = "failed" THEN state ELSE "error"]
      /\ flight' = [flight EXCEPT ![s] = Idle]
      /\ UNCHANGED <<up, sent, gateway>>
  BY DEF Settle, Save, Answer
<1> HIDE DEF y
<1>6. Stores'
  BY <1>4, <1>5 DEF IInv, Stores
<1>7. Kinds'
  <2>1. Idle \in Flight
    BY DEF Idle, Flight, Session0
  <2> QED
    BY <1>3, <1>5, <2>1 DEF IInv, Kinds
<1>8. state = "accepted" => gateway[s] = "taken"
  BY <1>1 DEF Settlement, Traced
<1>9. state = "failed" /\ s \notin Unusable => Withheld(s)
  BY <1>1 DEF Settlement, Traced, Flight
<1> HIDE DEF state
<1>10. ASSUME NEW t \in Submissions PROVE Traced(t)'
  <2>1. Traced(t)
    BY DEF IInv
  <2>2. DOMAIN file.subs \subseteq DOMAIN file'.subs
    BY <1>4, <1>5 DEF IInv, Stores
  <2>3. CASE t = s
    <3>1. flight'[s].phase = "none" /\ told'[s] \in {state, "error"}
      BY <1>5 DEF IInv, Kinds, Idle
    <3>2. St(store', s) = state /\ St(file', s) \in {St(file, s), state}
      BY <1>4, <1>5
    <3> QED
      BY <1>2, <1>3, <1>5, <1>8, <1>9, <2>1, <2>2, <2>3, <3>1, <3>2 DEF Traced, Withheld
  <2>4. CASE t # s
    <3>1. flight'[t] = flight[t] /\ told'[t] = told[t]
      BY <1>5, <2>4 DEF IInv, Kinds
    <3>2. St(store', t) = St(store, t) /\ St(file', t) \in {St(file, t), St(store, t)}
      BY <1>4, <1>5, <2>4
    <3> QED
      BY <1>5, <2>1, <2>2, <3>1, <3>2 DEF Traced, Withheld
  <2> QED
    BY <2>3, <2>4
<1> QED
  BY <1>4, <1>5, <1>6, <1>7, <1>10 DEF IInv

LEMMA RestartKeeps ==
  ASSUME IInv, Restart
  PROVE  IInv'
<1>1. /\ store' = file /\ file' = file
      /\ flight' = [s \in Submissions |-> Idle]
      /\ up' = FALSE
      /\ UNCHANGED <<sent, gateway, told>>
  BY DEF Restart
<1>2. Stores'
  BY <1>1 DEF IInv, Stores
<1>3. Kinds'
  <2>1. Idle \in Flight
    BY DEF Idle, Flight, Session0
  <2> QED
    BY <1>1, <2>1 DEF IInv, Kinds
<1>4. ASSUME NEW t \in Submissions PROVE Traced(t)'
  <2>1. flight'[t].phase = "none"
    BY <1>1 DEF Idle
  <2>2. St(store', t) = St(file, t) /\ St(file', t) = St(file, t)
    BY <1>1
  <2> QED
    BY <1>1, <2>1, <2>2 DEF IInv, Traced, Withheld
<1> QED
  BY <1>2, <1>3, <1>4 DEF IInv

LEMMA SessionEventKeeps ==
  ASSUME IInv, NEW l \in Lanes, NEW n \in Sessions, NEW p \in Predecessors(n),
         SessionEvent(l, n, p)
  PROVE  IInv' /\ Grown(store, store')
<1> DEFINE y == Moved(store, l, n, p)
<1>1. Good(y) /\ y.subs = store.subs /\ Grown(store, y)
  BY MovedGood DEF SessionEvent, Known, IInv, Stores
<1>2. /\ store' = y /\ file' \in {file, y}
      /\ UNCHANGED <<flight, sent, gateway, told>>
  BY DEF SessionEvent, Save
<1>3. up' \in BOOLEAN
  BY DEF SessionEvent
<1> HIDE DEF y
<1>4. Good(file) /\ DOMAIN file.subs \subseteq DOMAIN store.subs
  BY DEF IInv, Stores
<1>5. \A t \in Submissions : St(store', t) = St(store, t) /\ St(file', t) \in {St(file, t), St(store, t)}
  BY <1>1, <1>2 DEF St
<1> QED
  BY <1>1, <1>2, <1>3, <1>4, <1>5, BindingsKeep

LEMMA SessionInfoKeeps ==
  ASSUME IInv, NEW s \in Submissions, NEW n \in Sessions, NEW p \in Predecessors(n),
         SessionInfo(s, n, p)
  PROVE  IInv' /\ Grown(store, store')
<1> DEFINE l == store.subs[s].lane
           state == store.subs[s].state
           moved == Moved(store, l, n, p)
           after == IF moved.lanes[l] = n THEN Updated(moved, s, state, n) ELSE moved
<1>1. /\ Good(store) /\ Good(file)
      /\ DOMAIN file.subs \subseteq DOMAIN store.subs
      /\ s \in DOMAIN store.subs
      /\ l \in DOMAIN store.lanes
      /\ state \in States
      /\ n \in Session0
  BY SMTT(40) DEF SessionInfo, Begun, IInv, Stores, Good, Stored, Submission, States, Sessions, Session0
<1>2. Good(moved) /\ moved.subs = store.subs /\ Grown(store, moved)
  BY <1>1, MovedGood
<1>3. /\ store' \in {moved, after}
      /\ file' \in {file, moved, after}
      /\ store' = moved => file' \in {file, moved}
      /\ UNCHANGED <<flight, sent, gateway, told>>
  BY DEF SessionInfo, Save
<1>4. up' \in BOOLEAN
  BY DEF SessionInfo
<1> HIDE DEF moved
<1>5. /\ Good(after)
      /\ DOMAIN after.subs = DOMAIN store.subs
      /\ Grown(moved, after)
      /\ St(after, s) = state
      /\ \A t \in Submissions \ {s} : St(after, t) = St(moved, t)
  <2>1. CASE moved.lanes[l] = n
    BY <1>1, <1>2, <2>1, UpdatedGood
  <2>2. CASE moved.lanes[l] # n
    BY <1>1, <1>2, <2>2 DEF St, Grown, Good, Stored, Session0
  <2> QED
    BY <2>1, <2>2
<1> HIDE DEF after
<1>6. Grown(store, after)
  BY <1>1, <1>2, <1>5 DEF Grown, Good, Stored, Session0
<1>7. \A t \in Submissions : St(moved, t) = St(store, t) /\ St(after, t) = St(store, t)
  BY <1>1, <1>2, <1>5 DEF St
<1>8. \A t \in Submissions : St(store', t) = St(store, t) /\ St(file', t) \in {St(file, t), St(store, t)}
  BY <1>3, <1>7
<1>9. /\ Good(store') /\ Good(file') /\ Grown(store, store')
      /\ DOMAIN store'.subs = DOMAIN store.subs
      /\ DOMAIN file.subs \subseteq DOMAIN file'.subs
      /\ DOMAIN file'.subs \subseteq DOMAIN store'.subs
  BY <1>1, <1>2, <1>3, <1>5, <1>6
<1> QED
  BY <1>3, <1>4, <1>8, <1>9, BindingsKeep

(* What a step does, besides keeping the invariant, to the conversations   *)
(* and to a request that ends *)
Settling ==
    \A s \in Submissions :
        flight[s].phase # "none" /\ flight'[s].phase = "none" => St(store', s) \in States \ {"pending"}

LEMMA NextKeeps ==
  ASSUME IInv, [Next]_vars
  PROVE  IInv' /\ (Restart \/ (Grown(store, store') /\ Settling))
<1>1. Good(store) /\ Kinds
  BY DEF IInv, Stores
<1>2. Grown(store, store)
  BY <1>1 DEF Grown, Good, Stored, Session0
<1>3. flight' = flight => Settling
  BY DEF Settling
<1>4. CASE UNCHANGED vars
  <2>1. Stores' /\ Kinds' /\ store' = store /\ flight' = flight
    BY <1>4 DEF vars, IInv, Stores, Kinds
  <2>2. ASSUME NEW t \in Submissions PROVE Traced(t)'
    BY <1>4 DEF vars, IInv, Traced, Withheld, St
  <2> QED
    BY <1>2, <1>3, <2>1, <2>2 DEF IInv
<1>5. ASSUME NEW s \in Submissions, NEW l \in Lanes, Submit(s, l)
      PROVE  IInv' /\ Grown(store, store') /\ Settling
  <2>1. IInv'
    BY <1>5, SubmitKeeps
  <2>2. store' = WithSubmission(store, s, l) /\ l \in DOMAIN store.lanes /\ s \notin DOMAIN store.subs
    BY <1>5 DEF Submit, BeginSubmission, Known, Begun
  <2>3. store'.lanes = store.lanes
    BY <1>1, <2>2, WithSubmissionGood
  <2>4. flight' \in {flight, [flight EXCEPT ![s].phase = "waiting"], [flight EXCEPT ![s].phase = "unsent"]}
    BY <1>5 DEF Submit, BeginSubmission, Dispatch
  <2>5. Settling
    BY <1>1, <2>4 DEF Settling, Kinds, Flight
  <2> QED
    BY <1>2, <2>1, <2>3, <2>5 DEF Grown
<1>6. ASSUME NEW s \in Submissions, NEW l \in Lanes, SubmitToNewConversation(s, l)
      PROVE  IInv' /\ Grown(store, store') /\ Settling
  <2> DEFINE y == WithLane(store, l)
  <2>1. IInv'
    BY <1>6, SubmitToNewConversationKeeps
  <2>2. l \notin DOMAIN store.lanes /\ s \notin DOMAIN store.subs
    BY <1>6 DEF SubmitToNewConversation, Known, Begun
  <2>3. Good(y) /\ Grown(store, y) /\ l \in DOMAIN y.lanes /\ y.subs = store.subs
    BY <1>1, <2>2, WithLaneGood
  <2>4. store' \in {y, WithSubmission(y, s, l)}
    BY <1>6 DEF SubmitToNewConversation, BeginSubmission
  <2> HIDE DEF y
  <2>5. store'.lanes = y.lanes
    BY <2>2, <2>3, <2>4, WithSubmissionGood
  <2>6. flight' \in {flight, [flight EXCEPT ![s].phase = "waiting"], [flight EXCEPT ![s].phase = "unsent"]}
    BY <1>6 DEF SubmitToNewConversation, BeginSubmission, Dispatch
  <2>7. Settling
    BY <1>1, <2>6 DEF Settling, Kinds, Flight
  <2> QED
    BY <2>1, <2>3, <2>5, <2>7 DEF Grown
<1>7. ASSUME NEW s \in Submissions, Resubmit(s) \/ Take(s)
      PROVE  IInv' /\ Grown(store, store') /\ Settling
  <2>1. store' = store /\ flight' = flight
    BY <1>7 DEF Resubmit, Take
  <2> QED
    BY <1>2, <1>3, <1>7, <2>1, ResubmitKeeps, TakeKeeps
<1>8. ASSUME NEW s \in Submissions,
             (\E n \in Session0 : AckAccepted(s, n)) \/ AckRefused(s) \/ AckInvalid(s) \/ Lost(s)
      PROVE  IInv' /\ Grown(store, store') /\ Settling
  <2>1. PICK phase \in {"accepted", "refused", "invalid", "ambiguous"}, n \in Session0 :
           /\ Outcome(s, phase, n)
           /\ up' \in BOOLEAN
           /\ phase = "accepted" => gateway[s] = "taken" /\ (n = 0 => s \in Unusable \cup External)
           /\ phase = "invalid" => s \in Unusable
           /\ IF phase = "refused"
              THEN gateway[s] = "undecided" /\ gateway' = [gateway EXCEPT ![s] = "refused"]
              ELSE gateway' = gateway
    <3>1. 0 \in Session0
      BY DEF Session0
    <3>2. CASE \E n \in Session0 : AckAccepted(s, n)
      BY <1>1, <3>2 DEF AckAccepted, Kinds
    <3>3. CASE AckRefused(s)
      BY <1>1, <3>1, <3>3 DEF AckRefused, Kinds
    <3>4. CASE AckInvalid(s)
      BY <3>1, <3>4 DEF AckInvalid
    <3>5. CASE Lost(s)
      BY <1>1, <3>1, <3>5 DEF Lost, Kinds
    <3> QED
      BY <1>8, <3>2, <3>3, <3>4, <3>5
  <2>2. store' = store /\ Settling
    BY <1>1, <2>1 DEF Outcome, Settling, Kinds
  <2>3. IInv'
    BY <2>1, OutcomeKeeps
  <2> QED
    BY <1>2, <2>2, <2>3
<1>9. ASSUME NEW s \in Submissions, Settle(s)
      PROVE  IInv' /\ Grown(store, store') /\ Settling
  <2>1. IInv' /\ Grown(store, store')
    BY <1>9, SettleKeeps
  <2>2. St(store', s) \in States \ {"pending"}
    <3>1. s \in DOMAIN store.subs
      BY <1>9 DEF Settle, IInv, Traced, Stores
    <3>2. store' = Updated(store, s, Settlement(s), flight[s].session) /\ Settlement(s) \in States \ {"pending"}
      BY <1>9 DEF Settle, Settlement, States
    <3> QED
      BY <1>1, <3>1, <3>2, UpdatedGood DEF Kinds, Flight
  <2>3. \A t \in Submissions : t # s => flight'[t] = flight[t]
    BY <1>1, <1>9 DEF Settle, Kinds
  <2> QED
    BY <2>1, <2>2, <2>3 DEF Settling
<1>10. ASSUME NEW l \in Lanes, NEW n \in Sessions, NEW p \in Predecessors(n), SessionEvent(l, n, p)
       PROVE  IInv' /\ Grown(store, store') /\ Settling
  BY <1>3, <1>10, SessionEventKeeps DEF SessionEvent
<1>11. ASSUME NEW s \in Submissions, NEW n \in Sessions, NEW p \in Predecessors(n), SessionInfo(s, n, p)
       PROVE  IInv' /\ Grown(store, store') /\ Settling
  BY <1>3, <1>11, SessionInfoKeeps DEF SessionInfo
<1>12. CASE RouteUp \/ RouteDown
  <2>1. up' \in BOOLEAN /\ UNCHANGED <<store, file, flight, sent, gateway, told>>
    BY <1>12 DEF RouteUp, RouteDown
  <2>2. Stores' /\ Kinds'
    BY <2>1 DEF IInv, Stores, Kinds
  <2>3. ASSUME NEW t \in Submissions PROVE Traced(t)'
    BY <2>1 DEF IInv, Traced, Withheld, St
  <2> QED
    BY <1>2, <1>3, <2>1, <2>2, <2>3 DEF IInv
<1>13. CASE Restart
  BY <1>13, RestartKeeps
<1> QED
  BY <1>4, <1>5, <1>6, <1>7, <1>8, <1>9, <1>10, <1>11, <1>12, <1>13 DEF Next

LEMMA AlwaysIInv == Spec => []IInv
  BY InitIInv, NextKeeps, PTL DEF Spec

-----------------------------------------------------------------------------
(* Memory, file and requests are well formed, whatever saves throw.        *)
THEOREM Typing == Spec => []TypeOK
<1>1. IInv => TypeOK
  BY DEF IInv, Stores, Kinds, Good, TypeOK
<1> QED
  BY <1>1, AlwaysIInv, PTL

(* A message is given to the Gateway at most once, through duplicates,     *)
(* timeouts, saves that throw and restarts (handleNativeSessionMessage,    *)
(* beginSubmission).                                                       *)
THEOREM SentOnce == Spec => []AtMostOnce
<1>1. IInv => AtMostOnce
  BY DEF IInv, Traced, AtMostOnce
<1> QED
  BY <1>1, AlwaysIInv, PTL

(* A 202, first or repeated, is only given for a message Hermes has.       *)
THEOREM AcceptedIsTrue == Spec => []AcceptedWasTaken
<1>1. IInv => AcceptedWasTaken
  BY DEF IInv, Traced, AcceptedWasTaken
<1> QED
  BY <1>1, AlwaysIInv, PTL

(* A submission the Router calls failed is one Hermes does not have and    *)
(* will not get, if the Gateway's acknowledgements are well formed.        *)
THEOREM FailedIsTrue == Spec => []FailedWasNotTaken
<1>1. IInv => FailedWasNotTaken
  <2> SUFFICES ASSUME IInv, NEW s \in Submissions \ Unusable,
                      told[s] = "failed" \/ (s \in Begun /\ store.subs[s].state = "failed")
               PROVE  gateway[s] # "taken"
    BY DEF FailedWasNotTaken
  <2>1. Withheld(s)
    BY DEF IInv, Traced, St, Begun
  <2> QED
    BY <2>1 DEF IInv, Traced, Withheld, Kinds
<1> QED
  BY <1>1, AlwaysIInv, PTL

(* What clients are told of a message is true.                             *)
THEOREM ToldTheTruth == Spec => []OutcomesAreTrue
<1>1. Spec => []AcceptedWasTaken
  BY AcceptedIsTrue
<1>2. Spec => []FailedWasNotTaken
  BY FailedIsTrue
<1>3. AcceptedWasTaken /\ FailedWasNotTaken => OutcomesAreTrue
  BY DEF OutcomesAreTrue
<1> QED
  BY <1>1, <1>2, <1>3, PTL

(* The session of a submission is its conversation's, or an earlier one,   *)
(* in memory and on disk.                                                  *)
THEOREM BindingsAgree == Spec => []SubmissionsFollowLanes
<1>1. IInv => SubmissionsFollowLanes
  BY DEF IInv, Stores, Good, SubmissionsFollowLanes
<1> QED
  BY <1>1, AlwaysIInv, PTL

(* Nothing but a restart moves a conversation back to an earlier session   *)
(* (updateSubmission, acceptSessionEvent).                                 *)
THEOREM NoRollback == Spec => LaneNeverRollsBack
<1>1. IInv /\ [Next]_vars => (Restart \/ \A l \in Known : store'.lanes[l] >= store.lanes[l])
  BY NextKeeps DEF Grown, Known
<1> QED
  BY <1>1, AlwaysIInv, PTL DEF Spec, LaneNeverRollsBack

(* A request that ends leaves its record settled (the catch block of       *)
(* handleNativeSessionMessage).                                            *)
THEOREM RequestsAlwaysSettle == Spec => RequestsSettle
<1>1. IInv /\ [Next]_vars
        => \/ Restart
           \/ \A s \in Submissions :
                 flight[s].phase # "none" /\ flight'[s].phase = "none"
                    => store'.subs[s].state # "pending"
  <2> SUFFICES ASSUME IInv, [Next]_vars, ~Restart, NEW s \in Submissions,
                      flight[s].phase # "none", flight'[s].phase = "none"
               PROVE  store'.subs[s].state # "pending"
    OBVIOUS
  <2>1. St(store', s) \in States \ {"pending"}
    BY NextKeeps DEF Settling
  <2> QED
    BY <2>1 DEF St, States
<1> QED
  BY <1>1, AlwaysIInv, PTL DEF Spec, RequestsSettle

-----------------------------------------------------------------------------
(* Where saves succeed, memory and file are the same between two steps.  A *)
(* request is under way for a pending record only, so no outcome comes for *)
(* one that has been accepted.                                             *)

Accepted(x, s) ==
    /\ s \in DOMAIN x.subs
    /\ x.subs[s].state = "accepted" /\ (s \in External \/ x.subs[s].session # 0)

Kept ==
    /\ file = store
    /\ \A s \in Submissions :
          /\ flight[s].phase # "none" => St(store, s) = "pending"
          /\ told[s] = "accepted" => Accepted(store, s)

ToldAgain == \A s \in Submissions : told[s] = "accepted" => told'[s] = "accepted"

LEMMA UpdatedAccepted ==
  ASSUME NEW x, Good(x), NEW s \in DOMAIN x.subs, NEW state \in States, NEW n \in Session0
  PROVE  LET y == Updated(x, s, state, n)
         IN  /\ \A t \in Submissions \ {s} : Accepted(x, t) => Accepted(y, t)
             /\ state = "accepted" /\ (s \in External \/ n # 0 \/ x.subs[s].session # 0)
                   => Accepted(y, s)
<1> DEFINE l == x.subs[s].lane
           b == Bound(x, l, n)
           a == IF b # 0 THEN b ELSE x.subs[s].session
           y == Updated(x, s, state, n)
<1>1. x.subs \in [DOMAIN x.subs -> Submission]
  BY DEF Good, Stored
<1>2. n # 0 => b # 0
  BY DEF Bound
<1>3. n # 0 \/ x.subs[s].session # 0 => a # 0
  BY <1>2
<1>4. y.subs = [x.subs EXCEPT ![s].state = state, ![s].session = a]
  BY DEF Updated
<1> HIDE DEF a, y
<1>5. /\ DOMAIN y.subs = DOMAIN x.subs
      /\ y.subs[s].state = state /\ y.subs[s].session = a
      /\ \A t \in DOMAIN x.subs \ {s} : y.subs[t] = x.subs[t]
  BY <1>1, <1>4 DEF Submission
<1>6. QED
  BY <1>3, <1>5 DEF Accepted, y

LEMMA SavedWhole ==
  ASSUME ~DiskFails, NEW before, NEW after, NEW ok \in BOOLEAN, Save(before, after, ok)
  PROVE  ok /\ file' = after
  BY DEF Save

(* A dispatch is of a submission that is new. *)
LEMMA BeginKept ==
  ASSUME ~DiskFails, IInv, Kept, NEW s \in Submissions, s \notin Begun, NEW base, Good(base),
         base.subs = store.subs, NEW l \in DOMAIN base.lanes, NEW ok \in BOOLEAN,
         BeginSubmission(s, l, base, ok)
  PROVE  Kept' /\ ToldAgain
<1> DEFINE y == WithSubmission(base, s, l)
<1>1. ok /\ store' = y /\ file' = y
  BY SavedWhole DEF BeginSubmission, BeginSave
<1>2. told' = told /\ Dispatch(s)
  BY <1>1 DEF BeginSubmission
<1>3. /\ s \in DOMAIN y.subs /\ y.subs[s].state = "pending"
      /\ \A t \in DOMAIN store.subs : t # s /\ t \in DOMAIN y.subs /\ y.subs[t] = store.subs[t]
  BY DEF WithSubmission, With, Begun, Good, Stored
<1>4. \A t \in Submissions \ {s} : flight'[t] = flight[t]
  BY <1>2 DEF Dispatch, IInv, Kinds
<1>5. ASSUME NEW t \in Submissions
      PROVE  /\ flight'[t].phase # "none" => St(y, t) = "pending"
             /\ told'[t] = "accepted" => Accepted(y, t)
  <2>1. CASE t = s
    BY <1>2, <1>3, <2>1 DEF Kept, Accepted, Begun, St
  <2>2. CASE t # s
    BY <1>2, <1>3, <1>4, <2>2 DEF Kept, Accepted, St
  <2> QED
    BY <2>1, <2>2
<1> HIDE DEF y
<1>6. Kept'
  BY <1>1, <1>5 DEF Kept
<1> QED
  BY <1>2, <1>6 DEF ToldAgain

LEMMA SettleKept ==
  ASSUME ~DiskFails, IInv, Kept, NEW s \in Submissions, Settle(s)
  PROVE  Kept' /\ ToldAgain
<1> DEFINE state == Settlement(s)
           n == flight[s].session
           y == Updated(store, s, state, n)
<1>1. flight[s].phase # "none" /\ St(store, s) = "pending" /\ n \in Session0
  BY DEF Settle, Kept, IInv, Kinds, Flight
<1>2. s \in DOMAIN store.subs /\ Good(store)
  BY <1>1 DEF St, IInv, Stores
<1>3. state \in States /\ (state = "accepted" => s \in External \/ n # 0)
  BY DEF Settlement, States
<1>4. PICK ok \in BOOLEAN : Save(file, y, ok) /\ Answer(s, IF ok \/ state = "failed" THEN state ELSE "error")
  BY DEF Settle
<1>5. /\ store' = y /\ file' = y /\ flight' = [flight EXCEPT ![s] = Idle]
      /\ told' = [told EXCEPT ![s] = state]
  <2>1. store' = y /\ flight' = [flight EXCEPT ![s] = Idle]
    BY DEF Settle
  <2> HIDE DEF y, state
  <2>2. ok /\ file' = y
    BY <1>4, SavedWhole
  <2>3. told' = [told EXCEPT ![s] = state]
    BY <1>4, <2>2 DEF Answer
  <2> QED
    BY <2>1, <2>2, <2>3
<1> HIDE DEF n
<1>6. /\ \A t \in Submissions \ {s} : St(y, t) = St(store, t) /\ (Accepted(store, t) => Accepted(y, t))
      /\ state = "accepted" => Accepted(y, s)
  BY <1>1, <1>2, <1>3, UpdatedGood, UpdatedAccepted
<1>7. told[s] # "accepted"
  BY <1>1 DEF Kept, Accepted, St
<1> HIDE DEF y, state
<1>8. ASSUME NEW t \in Submissions
      PROVE  /\ flight'[t].phase # "none" => St(y, t) = "pending"
             /\ told'[t] = "accepted" => Accepted(y, t)
             /\ told[t] = "accepted" => told'[t] = "accepted"
  <2>1. CASE t = s
    BY <1>5, <1>6, <1>7, <2>1 DEF IInv, Kinds, Idle
  <2>2. CASE t # s
    BY <1>5, <1>6, <2>2 DEF Kept, IInv, Kinds
  <2> QED
    BY <2>1, <2>2
<1>9. Kept'
  BY <1>5, <1>8 DEF Kept
<1> QED
  BY <1>8, <1>9 DEF ToldAgain

(* Events change conversations, and the session of a record. *)
LEMMA EventKept ==
  ASSUME ~DiskFails, Kept, UNCHANGED <<flight, told>>, NEW y, store' = y, file' = y,
         \A t \in Submissions : /\ St(y, t) = St(store, t)
                                /\ Accepted(store, t) => Accepted(y, t)
  PROVE  Kept' /\ ToldAgain
<1>1. Kept'
  BY DEF Kept
<1> QED
  BY <1>1 DEF ToldAgain

LEMMA SessionInfoKept ==
  ASSUME ~DiskFails, IInv, Kept, NEW s \in Submissions, NEW n \in Sessions,
         NEW p \in Predecessors(n), SessionInfo(s, n, p)
  PROVE  Kept' /\ ToldAgain
<1> DEFINE l == store.subs[s].lane
           moved == Moved(store, l, n, p)
           state == store.subs[s].state
           y == IF moved.lanes[l] = n THEN Updated(moved, s, state, n) ELSE moved
<1>1. s \in DOMAIN store.subs /\ Good(store)
  BY DEF SessionInfo, Begun, IInv, Stores
<1>2. l \in Lanes /\ l \in DOMAIN store.lanes /\ state \in States
  BY <1>1 DEF Good, Stored, Submission, States
<1>3. Good(moved) /\ moved.subs = store.subs
  BY <1>1, <1>2, MovedGood
<1>4. UNCHANGED <<flight, told>>
  BY DEF SessionInfo
<1>5. store' = y /\ file' = y
  <2>1. CASE \E ok \in BOOLEAN : store' = y /\ Save(moved, y, ok) /\ up' = (up /\ ok)
    BY <2>1, SavedWhole
  <2>2. CASE store' = moved /\ Save(file, moved, FALSE) /\ up' = FALSE
    BY <2>2 DEF Save
  <2> QED
    BY <2>1, <2>2 DEF SessionInfo
<1>6. n \in Session0 /\ n # 0
  BY DEF Sessions, Session0
<1> HIDE DEF moved
<1>7. \A t \in Submissions : /\ St(moved, t) = St(store, t)
                             /\ Accepted(moved, t) <=> Accepted(store, t)
  BY <1>3 DEF St, Accepted
<1>8. \A t \in Submissions : /\ St(y, t) = St(store, t)
                             /\ Accepted(store, t) => Accepted(y, t)
  <2>1. CASE moved.lanes[l] = n
    <3> DEFINE u == Updated(moved, s, state, n)
    <3>1. y = u
      BY <2>1
    <3>2. St(store, s) = state /\ s \in DOMAIN moved.subs
      BY <1>1, <1>3 DEF St
    <3>3. St(u, s) = state /\ \A t \in Submissions \ {s} : St(u, t) = St(moved, t)
      BY <1>2, <1>3, <1>6, <3>2, UpdatedGood
    <3>4. /\ \A t \in Submissions \ {s} : Accepted(moved, t) => Accepted(u, t)
          /\ state = "accepted" => Accepted(u, s)
      BY <1>2, <1>3, <1>6, <3>2, UpdatedAccepted
    <3>5. Accepted(store, s) => state = "accepted"
      BY DEF Accepted
    <3> HIDE DEF u, state
    <3> QED
      BY <1>7, <3>1, <3>2, <3>3, <3>4, <3>5
  <2>2. CASE moved.lanes[l] # n
    BY <1>7, <2>2
  <2> QED
    BY <2>1, <2>2
<1> HIDE DEF y
<1> QED
  BY <1>4, <1>5, <1>8, EventKept

LEMMA StepKept ==
  ASSUME ~DiskFails, IInv, Kept, [Next]_vars
  PROVE  Kept' /\ ToldAgain
<1>1. Good(store)
  BY DEF IInv, Stores
<1>2. CASE UNCHANGED vars
  BY <1>2 DEF vars, Kept, ToldAgain, St, Accepted
<1>3. ASSUME NEW s \in Submissions, NEW l \in Lanes, Submit(s, l)
      PROVE  Kept' /\ ToldAgain
  BY <1>1, <1>3, BeginKept DEF Submit, Known, Begun
<1>4. ASSUME NEW s \in Submissions, NEW l \in Lanes, SubmitToNewConversation(s, l)
      PROVE  Kept' /\ ToldAgain
  <2> DEFINE y == WithLane(store, l)
  <2>1. Good(y) /\ y.subs = store.subs /\ l \in DOMAIN y.lanes
    BY <1>1, <1>4, WithLaneGood DEF SubmitToNewConversation, Known
  <2>2. ~Save(file, y, FALSE)
    BY DEF Save
  <2>3. PICK ok \in BOOLEAN : BeginSubmission(s, l, y, ok)
    BY <1>4, <2>2 DEF SubmitToNewConversation
  <2>4. s \notin Begun
    BY <1>4 DEF SubmitToNewConversation
  <2> HIDE DEF y
  <2> QED
    BY <2>1, <2>3, <2>4, BeginKept
<1>5. ASSUME NEW s \in Submissions, Resubmit(s)
      PROVE  Kept' /\ ToldAgain
  <2>1. /\ s \in DOMAIN store.subs /\ UNCHANGED <<store, file, flight>>
        /\ told' = [told EXCEPT ![s] = IF PriorAccepted(s) THEN "accepted" ELSE "ambiguous"]
    BY <1>5 DEF Resubmit, Answer, Begun
  <2>2. PriorAccepted(s) <=> Accepted(store, s)
    BY <2>1 DEF PriorAccepted, Accepted
  <2>3. \A t \in Submissions : /\ t # s => told'[t] = told[t]
                               /\ t = s => told'[t] = IF Accepted(store, s) THEN "accepted" ELSE "ambiguous"
    BY <2>1, <2>2 DEF IInv, Kinds
  <2>4. Kept'
    BY <2>1, <2>3 DEF Kept
  <2> QED
    BY <2>3, <2>4 DEF Kept, ToldAgain
<1>6. ASSUME NEW s \in Submissions, NEW phase, NEW n, Outcome(s, phase, n)
      PROVE  Kept' /\ ToldAgain
  <2>1. /\ flight[s].phase # "none" /\ UNCHANGED <<store, file, told>>
        /\ \A t \in Submissions \ {s} : flight'[t] = flight[t]
    BY <1>6 DEF Outcome, IInv, Kinds
  <2>2. Kept'
    BY <2>1 DEF Kept
  <2> QED
    BY <2>1, <2>2 DEF ToldAgain
<1>7. ASSUME NEW l \in Lanes, NEW n \in Sessions, NEW p \in Predecessors(n), SessionEvent(l, n, p)
      PROVE  Kept' /\ ToldAgain
  <2> DEFINE y == Moved(store, l, n, p)
  <2>1. y.subs = store.subs
    BY <1>1, <1>7, MovedGood DEF SessionEvent, Known
  <2>2. store' = y /\ file' = y /\ UNCHANGED <<flight, told>>
    BY <1>7, SavedWhole DEF SessionEvent
  <2>3. \A t \in Submissions : St(y, t) = St(store, t) /\ (Accepted(store, t) => Accepted(y, t))
    BY <2>1 DEF St, Accepted
  <2> HIDE DEF y
  <2> QED
    BY <2>2, <2>3, EventKept
<1>8. CASE Restart
  <2>1. /\ UNCHANGED <<store, file, told>>
        /\ \A t \in Submissions : flight'[t].phase = "none"
    BY <1>8 DEF Restart, Kept, Idle
  <2>2. Kept'
    BY <2>1 DEF Kept
  <2> QED
    BY <2>1, <2>2 DEF ToldAgain
<1>9. ASSUME UNCHANGED <<store, file, flight, told>>
      PROVE  Kept' /\ ToldAgain
  BY <1>9 DEF Kept, ToldAgain, St, Accepted
<1>10. ASSUME NEW s \in Submissions,
              \/ Take(s) \/ AckRefused(s) \/ AckInvalid(s) \/ Lost(s) \/ Settle(s)
              \/ \E n \in Session0 : AckAccepted(s, n)
              \/ \E n \in Sessions : \E p \in Predecessors(n) : SessionInfo(s, n, p)
       PROVE  Kept' /\ ToldAgain
  <2>1. CASE Take(s)
    BY <1>9, <2>1 DEF Take
  <2>2. CASE AckRefused(s) \/ AckInvalid(s) \/ Lost(s) \/ \E n \in Session0 : AckAccepted(s, n)
    BY <1>6, <2>2 DEF AckRefused, AckInvalid, Lost, AckAccepted
  <2>3. CASE Settle(s)
    BY <2>3, SettleKept
  <2>4. CASE \E n \in Sessions : \E p \in Predecessors(n) : SessionInfo(s, n, p)
    BY <2>4, SessionInfoKept
  <2> QED
    BY <1>10, <2>1, <2>2, <2>3, <2>4
<1>11. CASE RouteUp \/ RouteDown
  BY <1>9, <1>11 DEF RouteUp, RouteDown
<1> QED
  BY <1>2, <1>3, <1>4, <1>5, <1>7, <1>8, <1>10, <1>11 DEF Next

(* Where saves succeed, a client that was told 202 is told so again, by    *)
(* every later answer and over restarts ("accepted submission idempotency  *)
(* survives reload").                                                      *)
THEOREM AcceptedSurvives == ~DiskFails => (Spec => AcceptedStays)
<1> SUFFICES ASSUME ~DiskFails PROVE Spec => AcceptedStays
  OBVIOUS
<1>1. Init => Kept
  BY DEF Init, Kept, Idle
<1>2. IInv /\ Kept /\ [Next]_vars => Kept'
  BY StepKept
<1>3. IInv /\ Kept /\ [Next]_vars =>
        [\A s \in Submissions : told[s] = "accepted" => told'[s] = "accepted"]_vars
  BY StepKept DEF ToldAgain
<1> QED
  BY <1>1, <1>2, <1>3, AlwaysIInv, PTL DEF Spec, AcceptedStays
=============================================================================
