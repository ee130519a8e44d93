--------------------------- MODULE PromptResponses ---------------------------
(***************************************************************************)
(* A prompt of Hermes (an approval, a question) and the devices that       *)
(* answer it: prompt.requested and prompt.resolved events, the answers the *)
(* Router passes on with a deadline, and the prompt records of the         *)
(* conversation store.  The conversation of the prompt's lane may become   *)
(* an alias of another one while it waits.                                 *)
(*                                                                         *)
(* The Gateway holds the question open until it takes the first answer.    *)
(* What it sends arrives in order, and is lost with the connection; it     *)
(* asks again for what is open when it is connected again.                 *)
(***************************************************************************)
EXTENDS Naturals, Sequences, FiniteSets

CONSTANTS
    Answers,      \* requests of devices to answer the prompt
    MaxPromptEvents,  \* bound on what is under way from the Gateway
    MaxReconnects \* bound on the connections

VARIABLES
    prompt,     \* NativePromptRecord: status, conversation; "none" if absent
    canonOf2,   \* the conversation the prompt's lane stands for: 2, or 1 after a merge
    question,   \* the Gateway's side: "unasked", "open", "taken"
    arriving,   \* what the Gateway has sent: events and acknowledgements
    answers,    \* request -> state
    promptLinks \* connections so far

promptVars == <<prompt, canonOf2, question, arriving, answers, promptLinks>>

ASSUME PromptConstantsAssumption ==
    MaxPromptEvents \in Nat /\ MaxReconnects \in Nat /\ "prompt" \notin Answers

AnswerStates == {"idle", "sent", "acked", "refused", "late", "accepted", "ambiguous", "error", "gone"}

InPassage == {"sent", "acked", "refused"}

PromptInit ==
    /\ prompt = [status |-> "none", conv |-> 0]
    /\ canonOf2 = 2
    /\ question = "unasked"
    /\ arriving = <<>>
    /\ answers = [a \in Answers |-> "idle"]
    /\ promptLinks = 1

GatewaySends(x) ==
    /\ Len(arriving) < MaxPromptEvents
    /\ arriving' = Append(arriving, x)

(* prompt.requested, also repeated while the question is open *)
AskUser ==
    /\ question \in {"unasked", "open"}
    /\ question' = "open"
    /\ GatewaySends([kind |-> "requested", about |-> "prompt"])
    /\ UNCHANGED <<prompt, canonOf2, answers, promptLinks>>

(* registerPrompt and resolvePrompt as the events come *)
PromptEvent ==
    /\ arriving # <<>> /\ Head(arriving).about = "prompt"
    /\ arriving' = Tail(arriving)
    /\ prompt' = IF Head(arriving).kind = "requested"
                 THEN [status |-> "pending", conv |-> canonOf2]
                 ELSE IF prompt.status = "none" THEN prompt
                 ELSE [prompt EXCEPT !.status = "resolved"]
    /\ UNCHANGED <<canonOf2, question, answers, promptLinks>>

(* Mutant: the prompts of an alias keep its id. *)
PromptKeepsId == prompt

(* reconcileSessionLineages: the prompts of an alias follow *)
PromptAfterMerge == IF prompt.status = "none" THEN prompt ELSE [prompt EXCEPT !.conv = 1]

MergeConversations ==
    /\ canonOf2 = 2
    /\ canonOf2' = 1
    /\ prompt' = PromptAfterMerge
    /\ UNCHANGED <<question, arriving, answers, promptLinks>>

(* the conversation a client names resolves as that of the record does *)
InScope(named) ==
    named = 0 \/ (IF named = 2 THEN canonOf2 ELSE named) = prompt.conv

(* handleNativePromptResponse up to its await: 409 unless it is pending    *)
Answer(a, named) ==
    /\ answers[a] = "idle"
    /\ prompt.status # "none"
    /\ answers' = [answers EXCEPT ![a] =
                       IF prompt.status = "pending" /\ InScope(named) THEN "sent" ELSE "error"]
    /\ UNCHANGED <<prompt, canonOf2, question, arriving, promptLinks>>

(* the Gateway takes the first answer it is given and refuses the others *)
TakeAnswer(a) ==
    /\ answers[a] \in {"sent", "late"}
    /\ \A i \in DOMAIN arriving : arriving[i].about # a
    /\ LET acked == [kind |-> IF question = "open" THEN "accepted" ELSE "refused", about |-> a]
       IN  /\ Len(arriving) + 1 < MaxPromptEvents
           /\ arriving' = arriving \o (IF question = "open"
                                       THEN <<acked, [kind |-> "resolved", about |-> "prompt"]>>
                                       ELSE <<acked>>)
    /\ question' = "taken"
    /\ answers' = [answers EXCEPT ![a] = IF @ = "late" THEN "ambiguous" ELSE @]
    /\ UNCHANGED <<prompt, canonOf2, promptLinks>>

(* native_ack: the promise is resolved; the handler goes on later.  An     *)
(* acknowledgement of what has timed out is dropped.                       *)
Acked ==
    /\ arriving # <<>> /\ Head(arriving).about # "prompt"
    /\ arriving' = Tail(arriving)
    /\ answers' = [answers EXCEPT ![Head(arriving).about] =
                      IF @ # "sent" THEN @
                      ELSE IF Head(arriving).kind = "accepted" THEN "acked" ELSE "refused"]
    /\ UNCHANGED <<prompt, canonOf2, question, promptLinks>>

(* Mutant: the acknowledgement is not read. *)
OutcomeUnread(a) == "accepted"

Outcome202(a) == IF answers[a] = "acked" THEN "accepted" ELSE "error"

(* the rest of the handler after an acknowledgement *)
Finish(a) ==
    /\ answers[a] \in {"acked", "refused"}
    /\ answers' = [answers EXCEPT ![a] = Outcome202(a)]
    /\ prompt' = IF answers'[a] = "accepted" THEN [prompt EXCEPT !.status = "resolved"] ELSE prompt
    /\ UNCHANGED <<canonOf2, question, arriving, promptLinks>>

(* Mutant: an answer whose outcome is not known settles the prompt. *)
PromptAfterAmbiguous == [prompt EXCEPT !.status = "resolved"]

(* publishConversationResync and 409; the prompt stays pending *)
PromptUnsettled == prompt

(* gateway_submission_ambiguous: the deadline passes; the answer may still *)
(* reach the Gateway                                                       *)
AnswerTimesOut(a) ==
    /\ answers[a] = "sent"
    /\ \E arrives \in BOOLEAN :
          answers' = [answers EXCEPT ![a] = IF arrives THEN "late" ELSE "ambiguous"]
    /\ prompt' = PromptUnsettled
    /\ UNCHANGED <<canonOf2, question, arriving, promptLinks>>

(* The connection is lost and replaced: the answers under way are          *)
(* ambiguous, what was arriving is lost, and an open question is repeated. *)
Reconnect ==
    /\ promptLinks < MaxReconnects
    /\ promptLinks' = promptLinks + 1
    /\ answers' = [a \in Answers |-> IF answers[a] \in {"sent", "late"} THEN "ambiguous" ELSE answers[a]]
    /\ prompt' = IF \E a \in Answers : answers[a] = "sent" THEN PromptUnsettled ELSE prompt
    /\ arriving' = IF question = "open" THEN <<[kind |-> "requested", about |-> "prompt"]>> ELSE <<>>
    /\ UNCHANGED <<canonOf2, question>>

(* The Router restarts: the records are read back, the handlers are gone.  *)
RestartRouter ==
    /\ promptLinks < MaxReconnects
    /\ promptLinks' = promptLinks + 1
    /\ answers' = [a \in Answers |-> IF answers[a] \in InPassage \cup {"late"} THEN "gone" ELSE answers[a]]
    /\ arriving' = IF question = "open" THEN <<[kind |-> "requested", about |-> "prompt"]>> ELSE <<>>
    /\ UNCHANGED <<prompt, canonOf2, question>>

PromptNext ==
    \/ AskUser
    \/ PromptEvent
    \/ MergeConversations
    \/ \E a \in Answers, named \in 0..2 : Answer(a, named)
    \/ \E a \in Answers : TakeAnswer(a) \/ Finish(a) \/ AnswerTimesOut(a)
    \/ Acked
    \/ Reconnect
    \/ RestartRouter

(* The deadline's timer fires and a resolved promise goes on. *)
AnswerProgress(a) == AnswerTimesOut(a) \/ Finish(a)

PromptSpec ==
    /\ PromptInit /\ [][PromptNext]_promptVars
    /\ \A a \in Answers : WF_promptVars(AnswerProgress(a))

-----------------------------------------------------------------------------

PromptTypeOK ==
    /\ prompt \in [status : {"none", "pending", "resolved"}, conv : 0..2]
    /\ canonOf2 \in 1..2 /\ question \in {"unasked", "open", "taken"}
    /\ Len(arriving) <= MaxPromptEvents
    /\ answers \in [Answers -> AnswerStates]

(* Two devices answer one prompt: at most one of them is told 202, however *)
(* their answers, the deadlines and the reconnections fall.                *)
OneAcceptedAnswer == Cardinality({a \in Answers : answers[a] = "accepted"}) <= 1

(* While Hermes waits for an answer and nothing is on its way from the     *)
(* Gateway, the prompt can be answered, whatever answers were refused,     *)
(* lost or ambiguous before, and across restarts.                          *)
OpenIsAnswerable ==
    (question = "open" /\ arriving = <<>>) => prompt.status = "pending"

(* A pending prompt is filed under the conversation its lane stands for,   *)
(* so that the scope check refuses no client for the id it holds.          *)
PromptFollowsLane == prompt.status # "none" => prompt.conv = canonOf2

(* Of all devices at most one is told that its answer counts, and while    *)
(* none is, whichever device asks can still answer.                        *)
PromptsStayAnswerable == OneAcceptedAnswer /\ OpenIsAnswerable /\ PromptFollowsLane
=============================================================================
