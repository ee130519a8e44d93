--------------------------- MODULE SessionReconcile ---------------------------
(***************************************************************************)
(* POST sessions/reconcile: up to 100 conversations of a client are        *)
(* compared with Hermes by a few workers that share an index; each waits   *)
(* for the Gateway once per conversation, and calls end in any order.      *)
(***************************************************************************)
EXTENDS Naturals, FiniteSets

CONSTANTS
    Items,        \* number of conversations to compare
    Workers       \* min(4, Items) of them

VARIABLES
    nextIndex,    \* the index the workers share
    worker,       \* worker -> the item it is at, its step
    results,      \* item -> result
    hermesHas,    \* item -> what Hermes has
    reply         \* the response of the reconciliation

poolVars == <<nextIndex, worker, results, hermesHas, reply>>

ASSUME PoolConstantsAssumption ==
    Items \in Nat \ {0} /\ Workers # {} /\ Cardinality(Workers) <= Items

Outcomes == {"same", "other", "none", "down", "pending"}

PoolInit ==
    /\ nextIndex = 1
    /\ worker = [w \in Workers |-> [at |-> 0, step |-> "free"]]
    /\ results = [i \in 1..Items |-> "none"]
    /\ hermesHas \in [1..Items -> Outcomes]
    /\ reply = 0

(* Mutant: a worker that has met an error takes no more. *)
IdleOrFailed(w) ==
    \/ worker[w].step = "free" /\ nextIndex > Items
    \/ worker[w].step = "free" /\ worker[w].at > 0 /\ results[worker[w].at] = "error"

(* the worker's loop has ended *)
WorkerEnded(w) == worker[w].step = "free" /\ nextIndex > Items

(* `nextIndex++' and the checks before the wait.  A conversation without a *)
(* session makes sessionReadTarget throw outside of the `try': the worker  *)
(* ends, and with it the whole request.                                    *)
TakeItem(w) ==
    /\ worker[w].step = "free" /\ ~WorkerEnded(w)
    /\ nextIndex' = nextIndex + 1
    /\ IF hermesHas[nextIndex] = "pending"
       THEN /\ worker' = [worker EXCEPT ![w] = [at |-> nextIndex, step |-> "thrown"]]
            /\ reply' = IF reply = 0 THEN 409 ELSE reply
       ELSE /\ worker' = [worker EXCEPT ![w] = [at |-> nextIndex, step |-> "waits"]]
            /\ UNCHANGED reply
    /\ UNCHANGED <<results, hermesHas>>

(* Mutant: the result is filed under the index of now. *)
ResultAtNext(w, r) ==
    results' = [results EXCEPT ![IF nextIndex <= Items THEN nextIndex ELSE Items] = r]

Result(w, r) == results' = [results EXCEPT ![worker[w].at] = r]

StateOf(outcome) ==
    CASE outcome = "same" -> "unchanged"
      [] outcome = "other" -> "changed"
      [] outcome = "none" -> "deleted"
      [] OTHER -> "error"

Compared(w) ==
    /\ worker[w].step = "waits"
    /\ Result(w, StateOf(hermesHas[worker[w].at]))
    /\ worker' = [worker EXCEPT ![w].step = "free"]
    /\ UNCHANGED <<nextIndex, hermesHas, reply>>

(* Promise.all *)
ReconcileReplies ==
    /\ reply = 0
    /\ \A w \in Workers : WorkerEnded(w)
    /\ reply' = 200
    /\ UNCHANGED <<nextIndex, worker, results, hermesHas>>

PoolSteps == (\E w \in Workers : TakeItem(w) \/ Compared(w)) \/ ReconcileReplies

(* Every call of the Gateway ends, at its deadline at the latest. *)
PoolSpec == PoolInit /\ [][PoolSteps]_poolVars /\ WF_poolVars(PoolSteps)

-----------------------------------------------------------------------------

PoolTypeOK ==
    /\ nextIndex \in 1..(Items + 1)
    /\ \A w \in Workers : worker[w].at \in 0..Items /\ worker[w].step \in {"free", "waits", "thrown"}
    /\ results \in [1..Items -> {"none", "unchanged", "changed", "deleted", "error"}]
    /\ reply \in {0, 200, 409}

(* A reconciliation that is answered 200 has a result for every            *)
(* conversation, the one of that conversation, in whatever order the       *)
(* workers' calls come back.                                               *)
EveryItemCompared ==
    reply = 200 => \A i \in 1..Items : results[i] = StateOf(hermesHas[i])
=============================================================================
