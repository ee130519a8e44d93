----------------------------- MODULE PairingRates -----------------------------
(***************************************************************************)
(* The rate limit of the pairing endpoints (pairingRateLimiter.ts,         *)
(* assertPairingRateAllowed in bridgeServer.ts): per source address and    *)
(* for the whole Router, separately for requests (with enrollments) and    *)
(* for claims, in fixed windows that begin with an attempt, for a bounded  *)
(* number of keys.  An attempt is counted before its body is read.         *)
(***************************************************************************)
EXTENDS Naturals, Sequences, FiniteSets

CONSTANTS
    Sources,       \* addresses of the peers
    RateScopes,        \* "request", "claim"
    MaxOf,         \* [source, global] -> attempts in a window
    WindowOf,      \* scope -> length of a window
    MaxKeys,       \* keys that are tracked at once: 4096
    MaxNow         \* bound on the time

VARIABLES
    now,
    buckets,    \* key -> its count and the end of its window; count 0: no bucket
    counted     \* key -> the times of the attempts counted (a history)

rateVars == <<now, buckets, counted>>

Keys == RateScopes \X (Sources \cup {"global"})

ASSUME RateConstantsAssumption ==
    /\ MaxOf \in [{"source", "global"} -> Nat \ {0}]
    /\ WindowOf \in [RateScopes -> Nat \ {0}]
    /\ MaxKeys \in Nat \ {0} /\ MaxNow \in Nat /\ "global" \notin Sources

NoBucket == [count |-> 0, until |-> 0]
MaxFor(key) == IF key[2] = "global" THEN MaxOf["global"] ELSE MaxOf["source"]

RatesInit ==
    /\ now = 0
    /\ buckets = [key \in Keys |-> NoBucket]
    /\ counted = [key \in Keys |-> <<>>]

(* Mutant: buckets are never removed. *)
PrunedNever(bs) == bs

(* pruneExpired *)
PrunedBuckets(bs) == [key \in Keys |-> IF bs[key].until <= now THEN NoBucket ELSE bs[key]]

Tracked(bs) == {key \in Keys : bs[key] # NoBucket}

(* assertAllowed refuses a new key when too many are tracked, and a key    *)
(* whose window is full.                                                   *)
Admits(bs, key) ==
    /\ bs[key] # NoBucket \/ Cardinality(Tracked(bs)) < MaxKeys
    /\ bs[key].count < MaxFor(key)

(* Mutant: every attempt moves the end of the window. *)
CountedSliding(bs, key) ==
    [bs EXCEPT ![key] = [count |-> @.count + 1, until |-> now + WindowOf[key[1]] - 1]]

Counted(bs, key) ==
    [bs EXCEPT ![key] = [count |-> @.count + 1,
                         until |-> IF @ = NoBucket THEN now + WindowOf[key[1]] ELSE @.until]]

(* The source is counted first, also when the Router as a whole refuses.   *)
Attempt(source, scope) ==
    LET pruned == PrunedBuckets(buckets)
        mine == <<scope, source>>
        all == <<scope, "global">>
        first == Counted(pruned, mine)
        bySource == Admits(pruned, mine)
        byBoth == bySource /\ Admits(first, all)
    IN  /\ buckets' = IF byBoth THEN Counted(first, all) ELSE IF bySource THEN first ELSE pruned
        /\ counted' = [key \in Keys |->
              IF (key = mine /\ bySource) \/ (key = all /\ byBoth)
              THEN Append(counted[key], now) ELSE counted[key]]
        /\ UNCHANGED now

TimePasses == now < MaxNow /\ now' = now + 1 /\ UNCHANGED <<buckets, counted>>

RatesNext == TimePasses \/ \E source \in Sources, scope \in RateScopes : Attempt(source, scope)

RatesSpec == RatesInit /\ [][RatesNext]_rateVars

-----------------------------------------------------------------------------
RatesTypeOK ==
    /\ now \in 0..MaxNow
    /\ \A key \in Keys : /\ buckets[key].count \in 0..MaxFor(key)
                         /\ buckets[key].until \in 0..(MaxNow + WindowOf[key[1]])
    /\ Cardinality(Tracked(buckets)) <= MaxKeys

(* In any stretch of time as long as a window, fewer than twice the limit  *)
(* of attempts get through, from a source and altogether: windows do not   *)
(* overlap, but two of them may be filled back to back.                    *)
RateIsBounded ==
    \A key \in Keys : \A i, j \in DOMAIN counted[key] :
        j - i >= 2 * MaxFor(key) - 1 => counted[key][i] + WindowOf[key[1]] <= counted[key][j]

(* A refusal does not outlast the attempts that caused it: when nothing    *)
(* was counted for as long as the longest window, any attempt is admitted, *)
(* however many sources there were before.                                 *)
QuietIsAdmitted ==
    (\A key \in Keys : \A i \in DOMAIN counted[key] : counted[key][i] + WindowOf[key[1]] <= now) =>
        \A key \in Keys : Admits(PrunedBuckets(buckets), key)

RatesAreFair == RateIsBounded /\ QuietIsAdmitted
===============================================================================
