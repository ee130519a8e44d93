------------------------ MODULE GatewayRequestsProofs ------------------------
(***************************************************************************)
(* Calls to a Gateway, for any number of calls, chunks, connections and    *)
(* tombstones.                                                             *)
(*                                                                         *)
(* The counters add up because a call has at most one tombstone: each      *)
(* tombstone that has not been answered yet stands for one more call that  *)
(* timed out than were counted as late.  So the tombstones are counted by  *)
(* their calls.                                                            *)
(***************************************************************************)
EXTENDS GatewayRequests, FiniteSetTheorems, FunctionTheorems, TLAPS

Tomb == [call : RpcCalls, on : 1..MaxLinks, dispatched : BOOLEAN, acked : BOOLEAN, late : BOOLEAN]

(* Tombstones by their calls *)
Buried(ts) == {ts[i].call : i \in DOMAIN ts}
Heard(ts) == {ts[i].call : i \in {j \in DOMAIN ts : ts[j].late}}
Unheard(ts) == {ts[i].call : i \in {j \in DOMAIN ts : ~ts[j].late}}
Unacked(ts) == {ts[i].call : i \in {j \in DOMAIN ts : ~ts[j].acked}}

(* A call has at most one tombstone. *)
OneEach(ts) == \A i, j \in DOMAIN ts : ts[i].call = ts[j].call => i = j

Buriable(ts) == ts \in Seq(Tomb) /\ OneEach(ts)

USE RequestConstantsAssumption

LEMMA FiniteSubsets ==
  ASSUME NEW S, S \subseteq Calls
  PROVE  IsFiniteSet(S) /\ Cardinality(S) \in Nat /\ Cardinality(S) <= Cardinality(Calls)
<1>1. IsFiniteSet(Calls)
  BY DEF Calls
<1>2. IsFiniteSet(S) /\ Cardinality(S) <= Cardinality(Calls)
  BY <1>1, FS_Subset
<1> QED
  BY <1>2, FS_CardinalityType

LEMMA TombSets ==
  ASSUME NEW ts \in Seq(Tomb)
  PROVE  /\ Buried(ts) \subseteq Calls /\ Heard(ts) \subseteq Buried(ts)
         /\ Unheard(ts) \subseteq Buried(ts) /\ Unacked(ts) \subseteq Buried(ts)
<1>1. \A i \in DOMAIN ts : ts[i] \in Tomb
  OBVIOUS
<1>2. \A i \in DOMAIN ts : ts[i].call \in RpcCalls
  BY <1>1 DEF Tomb
<1> QED
  BY <1>2 DEF Buried, Heard, Unheard, Unacked, Calls

LEMMA AppendTomb ==
  ASSUME NEW ts, Buriable(ts), NEW t \in Tomb, t.call \notin Buried(ts), ~t.late, ~t.acked
  PROVE  LET us == Append(ts, t)
         IN  /\ Buriable(us) /\ us # <<>>
             /\ Len(us) = Len(ts) + 1
             /\ Buried(us) = Buried(ts) \cup {t.call}
             /\ Heard(us) = Heard(ts)
             /\ Unheard(us) = Unheard(ts) \cup {t.call}
             /\ Unacked(us) = Unacked(ts) \cup {t.call}
<1> DEFINE us == Append(ts, t)
<1>1. /\ us \in Seq(Tomb) /\ Len(us) = Len(ts) + 1 /\ us # <<>> /\ us[Len(ts) + 1] = t
      /\ DOMAIN us = DOMAIN ts \cup {Len(ts) + 1}
      /\ Len(ts) + 1 \notin DOMAIN ts
      /\ \A i \in DOMAIN ts : us[i] = ts[i]
  BY DEF Buriable
<1> HIDE DEF us
<1>2. OneEach(us)
  BY <1>1 DEF OneEach, Buriable, Buried
<1>3. Buried(us) = Buried(ts) \cup {t.call}
  BY <1>1 DEF Buried
<1>4. Heard(us) = Heard(ts)
  BY <1>1 DEF Heard
<1>5. Unheard(us) = Unheard(ts) \cup {t.call}
  BY <1>1 DEF Unheard
<1>6. Unacked(us) = Unacked(ts) \cup {t.call}
  BY <1>1 DEF Unacked
<1>7. QED
  BY <1>1, <1>2, <1>3, <1>4, <1>5, <1>6 DEF Buriable, us

LEMMA TailTomb ==
  ASSUME NEW ts, Buriable(ts), ts # <<>>
  PROVE  LET us == Tail(ts)
         IN  /\ Buriable(us)
             /\ Len(us) = Len(ts) - 1
             /\ Buried(us) \subseteq Buried(ts)
             /\ Heard(us) \subseteq Heard(ts)
             /\ Unheard(us) \subseteq Unheard(ts)
             /\ Unacked(us) \subseteq Unacked(ts)
<1> DEFINE us == Tail(ts)
<1>1. /\ us \in Seq(Tomb) /\ Len(us) = Len(ts) - 1
      /\ \A i \in DOMAIN us : i + 1 \in DOMAIN ts /\ us[i] = ts[i + 1]
      /\ \A i, j \in DOMAIN us : i + 1 = j + 1 => i = j
  BY DEF Buriable
<1> HIDE DEF us
<1>2. OneEach(us)
  BY <1>1 DEF OneEach, Buriable
<1>3. Buried(us) \subseteq Buried(ts)
  BY <1>1 DEF Buried
<1>4. Heard(us) \subseteq Heard(ts)
  BY <1>1 DEF Heard
<1>5. Unheard(us) \subseteq Unheard(ts)
  BY <1>1 DEF Unheard
<1>6. Unacked(us) \subseteq Unacked(ts)
  BY <1>1 DEF Unacked
<1>7. QED
  BY <1>1, <1>2, <1>3, <1>4, <1>5, <1>6 DEF Buriable, us

(* The tombstones that have been answered are as many as their calls. *)
LEMMA HeardByCall ==
  ASSUME NEW ts, Buriable(ts)
  PROVE  Cardinality({i \in DOMAIN ts : ts[i].late}) <= Cardinality(Heard(ts))
<1> DEFINE I == {i \in DOMAIN ts : ts[i].late}
           f == [i \in I |-> ts[i].call]
<1>1. f \in [I -> Heard(ts)]
  BY DEF Heard
<1>2. \A i, j \in I : f[i] = f[j] => i = j
  BY DEF Buriable, OneEach
<1>3. f \in Injection(I, Heard(ts))
  BY <1>1, <1>2, Fun_IsInj
<1>4. IsFiniteSet(Heard(ts))
  BY TombSets, FiniteSubsets DEF Buriable
<1> QED
  BY <1>3, <1>4, FS_Injection

-----------------------------------------------------------------------------
(* The counters n belong to the tombstones ts.                             *)

Counters == [timedOut : Nat, dispatched : Nat, failed : Nat, late : Nat, acked : Nat]

Balanced(ts, n) ==
    /\ Buriable(ts) /\ Len(ts) <= MaxTombstones
    /\ n \in Counters
    /\ n.late + Cardinality(Unheard(ts)) <= n.timedOut
    /\ n.acked + Cardinality(Unacked(ts)) <= n.timedOut
    /\ Cardinality(Heard(ts)) <= n.late
    /\ n.failed <= n.dispatched /\ n.dispatched <= n.timedOut

LEMMA SmallerSets ==
  ASSUME NEW T, T \subseteq Calls, NEW S, S \subseteq T
  PROVE  /\ Cardinality(S) \in Nat /\ Cardinality(T) \in Nat
         /\ Cardinality(S) <= Cardinality(T)
<1>1. IsFiniteSet(T) /\ IsFiniteSet(S)
  BY FiniteSubsets
<1> QED
  BY <1>1, FS_Subset, FS_CardinalityType

LEMMA OneMore ==
  ASSUME NEW S, S \subseteq Calls, NEW c \in Calls
  PROVE  /\ Cardinality(S) \in Nat /\ Cardinality(S \cup {c}) \in Nat
         /\ Cardinality(S \cup {c}) <= Cardinality(S) + 1
         /\ c \notin S => Cardinality(S \cup {c}) = Cardinality(S) + 1
         /\ Cardinality(S \ {c}) \in Nat
         /\ c \in S => Cardinality(S \ {c}) = Cardinality(S) - 1
<1>1. IsFiniteSet(S) /\ Cardinality(S) \in Nat
  BY FiniteSubsets
<1>2. /\ IsFiniteSet(S \cup {c})
      /\ Cardinality(S \cup {c}) = IF c \in S THEN Cardinality(S) ELSE Cardinality(S) + 1
  BY <1>1, FS_AddElement
<1>3. /\ IsFiniteSet(S \ {c})
      /\ Cardinality(S \ {c}) = IF c \in S THEN Cardinality(S) - 1 ELSE Cardinality(S)
  BY <1>1, FS_RemoveElement
<1>4. Cardinality(S \cup {c}) \in Nat /\ Cardinality(S \ {c}) \in Nat
  BY <1>2, <1>3, FS_CardinalityType
<1> QED
  BY <1>1, <1>2, <1>3, <1>4

LEMMA TailBalanced ==
  ASSUME NEW ts, NEW n, Balanced(ts, n), ts # <<>>
  PROVE  Balanced(Tail(ts), n) /\ Buried(Tail(ts)) \subseteq Buried(ts)
<1> DEFINE us == Tail(ts)
<1>1. /\ Buriable(us) /\ Len(us) = Len(ts) - 1
      /\ Buried(us) \subseteq Buried(ts) /\ Heard(us) \subseteq Heard(ts)
      /\ Unheard(us) \subseteq Unheard(ts) /\ Unacked(us) \subseteq Unacked(ts)
  BY TailTomb DEF Balanced
<1>2. Heard(ts) \subseteq Calls /\ Unheard(ts) \subseteq Calls /\ Unacked(ts) \subseteq Calls
  BY TombSets DEF Balanced, Buriable
<1> HIDE DEF us
<1>3. /\ Cardinality(Heard(us)) \in Nat /\ Cardinality(Heard(us)) <= Cardinality(Heard(ts))
      /\ Cardinality(Heard(ts)) \in Nat
  BY <1>1, <1>2, SmallerSets
<1>4. /\ Cardinality(Unheard(us)) \in Nat /\ Cardinality(Unheard(us)) <= Cardinality(Unheard(ts))
      /\ Cardinality(Unheard(ts)) \in Nat
  BY <1>1, <1>2, SmallerSets
<1>5. /\ Cardinality(Unacked(us)) \in Nat /\ Cardinality(Unacked(us)) <= Cardinality(Unacked(ts))
      /\ Cardinality(Unacked(ts)) \in Nat
  BY <1>1, <1>2, SmallerSets
<1>6. Len(ts) \in Nat /\ MaxTombstones \in Nat
  BY DEF Balanced, Buriable
<1>7. n.late \in Nat /\ n.timedOut \in Nat /\ n.acked \in Nat
  BY DEF Balanced, Counters
<1>8. n.late + Cardinality(Unheard(us)) <= n.timedOut
  BY <1>4, <1>7 DEF Balanced
<1>9. n.acked + Cardinality(Unacked(us)) <= n.timedOut
  BY <1>5, <1>7 DEF Balanced
<1>10. Cardinality(Heard(us)) <= n.late
  BY <1>3, <1>7 DEF Balanced
<1>11. Len(us) <= MaxTombstones
  BY <1>1, <1>6 DEF Balanced
<1>12. Balanced(us, n)
  BY <1>1, <1>8, <1>9, <1>10, <1>11 DEF Balanced
<1> QED
  BY <1>1, <1>12 DEF us

(* A call that times out is counted, and gets its tombstone; the oldest    *)
(* one gives way.                                                          *)
LEMMA RememberBalanced ==
  ASSUME RequestsTypeOK, Balanced(tombs, counted),
         NEW c \in RpcCalls, c \notin Buried(tombs), NEW d \in BOOLEAN, calls[c].on # 0,
         Remember(c, d),
         NEW fails \in BOOLEAN,
         counted' = [counted EXCEPT !.timedOut = @ + 1,
                                    !.dispatched = @ + (IF d THEN 1 ELSE 0),
                                    !.failed = @ + (IF d /\ fails THEN 1 ELSE 0)]
  PROVE  Balanced(tombs', counted') /\ Buried(tombs') \subseteq Buried(tombs) \cup {c}
<1> DEFINE t == [call |-> c, on |-> calls[c].on, dispatched |-> d, acked |-> FALSE, late |-> FALSE]
           all == Append(tombs, t)
           n == counted'
<1>1. calls[c].on \in 1..MaxLinks
  BY DEF RequestsTypeOK, Calls
<1>2. t \in Tomb /\ t.call = c /\ ~t.late /\ ~t.acked
  BY <1>1 DEF Tomb
<1>3. tombs' = IF Len(all) > MaxTombstones THEN Tail(all) ELSE all
  BY DEF Remember
<1> HIDE DEF t
<1>4. /\ Buriable(all) /\ all # <<>> /\ Len(all) = Len(tombs) + 1
      /\ Buried(all) = Buried(tombs) \cup {c} /\ Heard(all) = Heard(tombs)
      /\ Unheard(all) = Unheard(tombs) \cup {c} /\ Unacked(all) = Unacked(tombs) \cup {c}
  BY <1>2, AppendTomb DEF Balanced
<1> HIDE DEF all
<1>5. counted \in Counters /\ counted.failed <= counted.dispatched
      /\ counted.dispatched <= counted.timedOut
  BY DEF Balanced
<1>6. /\ n \in Counters /\ n.timedOut = counted.timedOut + 1
      /\ n.late = counted.late /\ n.acked = counted.acked
      /\ n.failed <= n.dispatched /\ n.dispatched <= n.timedOut
  <2>1. n = [timedOut |-> counted.timedOut + 1,
             dispatched |-> counted.dispatched + (IF d THEN 1 ELSE 0),
             failed |-> counted.failed + (IF d /\ fails THEN 1 ELSE 0),
             late |-> counted.late, acked |-> counted.acked]
    BY <1>5 DEF Counters
  <2>2. /\ counted.timedOut \in Nat /\ counted.dispatched \in Nat /\ counted.failed \in Nat
        /\ counted.late \in Nat /\ counted.acked \in Nat
    BY <1>5 DEF Counters
  <2> HIDE DEF n
  <2> QED
    BY <1>5, <2>1, <2>2 DEF Counters
<1> HIDE DEF n
<1>7. Unheard(tombs) \subseteq Calls /\ Unacked(tombs) \subseteq Calls /\ c \in Calls
  BY TombSets DEF Balanced, Buriable, Calls
<1>8. /\ Cardinality(Unheard(tombs)) \in Nat /\ Cardinality(Unheard(all)) \in Nat
      /\ Cardinality(Unheard(all)) <= Cardinality(Unheard(tombs)) + 1
  BY <1>4, <1>7, OneMore
<1>9. /\ Cardinality(Unacked(tombs)) \in Nat /\ Cardinality(Unacked(all)) \in Nat
      /\ Cardinality(Unacked(all)) <= Cardinality(Unacked(tombs)) + 1
  BY <1>4, <1>7, OneMore
<1>10. /\ n.late + Cardinality(Unheard(all)) <= n.timedOut
       /\ n.acked + Cardinality(Unacked(all)) <= n.timedOut
       /\ Cardinality(Heard(all)) <= n.late
  <2>1. /\ counted.late \in Nat /\ counted.acked \in Nat /\ counted.timedOut \in Nat
        /\ counted.late + Cardinality(Unheard(tombs)) <= counted.timedOut
        /\ counted.acked + Cardinality(Unacked(tombs)) <= counted.timedOut
        /\ Cardinality(Heard(tombs)) <= counted.late
    BY <1>5 DEF Balanced, Counters
  <2>2. n.late + Cardinality(Unheard(all)) <= n.timedOut
    BY <1>6, <1>8, <2>1
  <2>3. n.acked + Cardinality(Unacked(all)) <= n.timedOut
    BY <1>6, <1>9, <2>1
  <2> QED
    BY <1>4, <1>6, <2>1, <2>2, <2>3
<1>11. CASE Len(all) <= MaxTombstones
  <2>1. tombs' = all
    BY <1>3, <1>4, <1>11 DEF Balanced, Buriable
  <2> QED
    BY <1>4, <1>6, <1>10, <1>11, <2>1 DEF Balanced, n
<1>12. CASE Len(all) > MaxTombstones
  (* `all' is over the bound by one, and so not balanced yet *)
  <2>1. tombs' = Tail(all)
    BY <1>3, <1>12
  <2>2. /\ Buriable(tombs') /\ Len(tombs') = Len(tombs)
        /\ Buried(tombs') \subseteq Buried(all) /\ Heard(tombs') \subseteq Heard(all)
        /\ Unheard(tombs') \subseteq Unheard(all) /\ Unacked(tombs') \subseteq Unacked(all)
    <3>1. Len(tombs) \in Nat
      BY DEF Balanced, Buriable
    <3> QED
      BY <1>4, <2>1, <3>1, TailTomb
  <2>3. Heard(all) \subseteq Calls /\ Unheard(all) \subseteq Calls /\ Unacked(all) \subseteq Calls
    BY <1>4, TombSets DEF Buriable
  <2>4. /\ Cardinality(Heard(tombs')) \in Nat
        /\ Cardinality(Heard(tombs')) <= Cardinality(Heard(all)) /\ Cardinality(Heard(all)) \in Nat
    BY <2>2, <2>3, SmallerSets
  <2>5. /\ Cardinality(Unheard(tombs')) \in Nat
        /\ Cardinality(Unheard(tombs')) <= Cardinality(Unheard(all))
    BY <2>2, <2>3, SmallerSets
  <2>6. /\ Cardinality(Unacked(tombs')) \in Nat
        /\ Cardinality(Unacked(tombs')) <= Cardinality(Unacked(all))
    BY <2>2, <2>3, SmallerSets
  <2>7. Len(tombs') <= MaxTombstones
    BY <2>2 DEF Balanced
  <2>8. n.late \in Nat /\ n.acked \in Nat /\ n.timedOut \in Nat
    BY <1>6 DEF Counters
  <2>9. n.late + Cardinality(Unheard(tombs')) <= n.timedOut
    BY <1>8, <1>10, <2>5, <2>8
  <2>10. n.acked + Cardinality(Unacked(tombs')) <= n.timedOut
    BY <1>9, <1>10, <2>6, <2>8
  <2>11. Cardinality(Heard(tombs')) <= n.late
    BY <1>10, <2>4, <2>8
  <2>12. Balanced(tombs', n)
    BY <1>6, <2>2, <2>7, <2>9, <2>10, <2>11 DEF Balanced
  <2> QED
    BY <1>4, <2>2, <2>12 DEF n
<1> QED
  BY <1>4, <1>11, <1>12 DEF Balanced, Buriable

(* A tombstone that changes keeps its call. *)
LEMMA MarkedTombs ==
  ASSUME NEW ts, Buriable(ts), NEW us, DOMAIN us = DOMAIN ts, us \in Seq(Tomb),
         \A i \in DOMAIN ts : us[i].call = ts[i].call
  PROVE  Buriable(us) /\ Buried(us) = Buried(ts) /\ Len(us) = Len(ts)
<1>1. Buriable(us)
  BY DEF Buriable, OneEach
<1>2. Buried(us) = Buried(ts)
  BY DEF Buried
<1>3. Len(us) = Len(ts)
  BY DEF Buriable
<1> QED
  BY <1>1, <1>2, <1>3

LEMMA SameLength ==
  ASSUME NEW ts \in Seq(Tomb), NEW us, us = [i \in DOMAIN ts |-> us[i]],
         \A i \in DOMAIN ts : us[i] \in Tomb
  PROVE  us \in Seq(Tomb)
<1>1. DOMAIN ts = 1..Len(ts) /\ Len(ts) \in Nat
  OBVIOUS
<1>2. us \in [1..Len(ts) -> Tomb]
  BY <1>1
<1> QED
  BY <1>1, <1>2

(* A late response is counted once, and marks the only tombstone there is. *)
LEMMA ClassifyBalanced ==
  ASSUME Balanced(tombs, counted), NEW c \in RpcCalls, ClassifyResponse(c)
  PROVE  Balanced(tombs', counted') /\ Buried(tombs') = Buried(tombs)
<1>1. CASE \E i \in FindTomb(c) : ~tombs[i].late
  <2>1. PICK i \in FindTomb(c) : ~tombs[i].late
    BY <1>1
  <2>2. i \in DOMAIN tombs /\ tombs[i].call = c
    BY <2>1 DEF FindTomb
  <2>3. /\ Buriable(tombs) /\ tombs \in Seq(Tomb) /\ \A j \in DOMAIN tombs : tombs[j] \in Tomb
        /\ \A j \in DOMAIN tombs : tombs[j].call = c => j = i
    BY <2>2 DEF Balanced, Buriable, OneEach
  <2>4. FindTomb(c) = {i}
    BY <2>1, <2>2, <2>3 DEF FindTomb
  <2>5. /\ tombs' = [j \in DOMAIN tombs |-> IF j = i THEN [tombs[j] EXCEPT !.late = TRUE]
                                             ELSE tombs[j]]
        /\ counted' = [counted EXCEPT !.late = @ + 1]
    BY <1>1, <2>4 DEF ClassifyResponse
  <2>6. /\ DOMAIN tombs' = DOMAIN tombs
        /\ \A j \in DOMAIN tombs : /\ tombs'[j] \in Tomb /\ tombs'[j].call = tombs[j].call
                                   /\ tombs'[j].acked = tombs[j].acked
                                   /\ tombs'[j].late = (j = i \/ tombs[j].late)
    BY <2>2, <2>3, <2>5 DEF Tomb
  <2>7. tombs' \in Seq(Tomb)
    BY <2>3, <2>5, <2>6, SameLength
  <2>8. Buriable(tombs') /\ Buried(tombs') = Buried(tombs) /\ Len(tombs') = Len(tombs)
    BY <2>3, <2>6, <2>7, MarkedTombs
  <2>9. Unacked(tombs') = Unacked(tombs)
    BY <2>6 DEF Unacked
  <2>10. Unheard(tombs') = Unheard(tombs) \ {c} /\ c \in Unheard(tombs)
    <3>1. {j \in DOMAIN tombs' : ~tombs'[j].late} = {j \in DOMAIN tombs : ~tombs[j].late} \ {i}
      BY <2>6
    <3>2. i \in {j \in DOMAIN tombs : ~tombs[j].late}
      BY <2>1, <2>2
    <3> QED
      BY <2>2, <2>3, <2>6, <3>1, <3>2 DEF Unheard
  <2>11. Heard(tombs') = Heard(tombs) \cup {c}
    <3>1. {j \in DOMAIN tombs' : tombs'[j].late} = {j \in DOMAIN tombs : tombs[j].late} \cup {i}
      BY <2>2, <2>6
    <3> QED
      BY <2>2, <2>6, <3>1 DEF Heard
  <2>12. Heard(tombs) \subseteq Calls /\ Unheard(tombs) \subseteq Calls /\ c \in Calls
    BY <2>3, TombSets DEF Calls
  <2>13. /\ Cardinality(Unheard(tombs)) \in Nat /\ Cardinality(Unheard(tombs')) \in Nat
         /\ Cardinality(Unheard(tombs')) = Cardinality(Unheard(tombs)) - 1
    BY <2>10, <2>12, OneMore
  <2>14. /\ Cardinality(Heard(tombs)) \in Nat /\ Cardinality(Heard(tombs')) \in Nat
         /\ Cardinality(Heard(tombs')) <= Cardinality(Heard(tombs)) + 1
    BY <2>11, <2>12, OneMore
  <2>15. /\ counted.late \in Nat /\ counted.acked \in Nat /\ counted.timedOut \in Nat
         /\ counted.late + Cardinality(Unheard(tombs)) <= counted.timedOut
         /\ counted.acked + Cardinality(Unacked(tombs)) <= counted.timedOut
         /\ Cardinality(Heard(tombs)) <= counted.late
         /\ Len(tombs) <= MaxTombstones
         /\ counted.failed <= counted.dispatched /\ counted.dispatched <= counted.timedOut
    BY DEF Balanced, Counters
  <2>16. /\ counted' \in Counters /\ counted'.late = counted.late + 1
         /\ counted'.acked = counted.acked /\ counted'.timedOut = counted.timedOut
         /\ counted'.failed = counted.failed /\ counted'.dispatched = counted.dispatched
    BY <2>5 DEF Balanced, Counters
  <2>17. counted'.late + Cardinality(Unheard(tombs')) <= counted'.timedOut
    BY <2>13, <2>15, <2>16
  <2>18. Cardinality(Heard(tombs')) <= counted'.late
    BY <2>14, <2>15, <2>16
  <2>19. Balanced(tombs', counted')
    BY <2>8, <2>9, <2>15, <2>16, <2>17, <2>18 DEF Balanced
  <2> QED
    BY <2>8, <2>19
<1>2. CASE ~\E i \in FindTomb(c) : ~tombs[i].late
  BY <1>2 DEF ClassifyResponse
<1> QED
  BY <1>1, <1>2

LEMMA AckBalanced ==
  ASSUME Balanced(tombs, counted), NEW c \in RpcCalls, CancelAck(c)
  PROVE  Balanced(tombs', counted') /\ Buried(tombs') = Buried(tombs)
<1>1. PICK i \in FindTomb(c) : ~tombs[i].acked /\ tombs' = [tombs EXCEPT ![i].acked = TRUE]
  BY DEF CancelAck
<1>2. i \in DOMAIN tombs /\ tombs[i].call = c
  BY <1>1 DEF FindTomb
<1>3. /\ Buriable(tombs) /\ tombs \in Seq(Tomb) /\ \A j \in DOMAIN tombs : tombs[j] \in Tomb
      /\ \A j \in DOMAIN tombs : tombs[j].call = c => j = i
  BY <1>2 DEF Balanced, Buriable, OneEach
<1>4. /\ DOMAIN tombs' = DOMAIN tombs
      /\ \A j \in DOMAIN tombs : /\ tombs'[j] \in Tomb /\ tombs'[j].call = tombs[j].call
                                 /\ tombs'[j].late = tombs[j].late
                                 /\ tombs'[j].acked = (j = i \/ tombs[j].acked)
  BY <1>1, <1>2, <1>3 DEF Tomb
<1>5. tombs' \in Seq(Tomb)
  BY <1>1, <1>2, <1>3, <1>4, SameLength
<1>6. Buriable(tombs') /\ Buried(tombs') = Buried(tombs) /\ Len(tombs') = Len(tombs)
  BY <1>3, <1>4, <1>5, MarkedTombs
<1>7. Unheard(tombs') = Unheard(tombs) /\ Heard(tombs') = Heard(tombs)
  BY <1>4 DEF Unheard, Heard
<1>8. Unacked(tombs') = Unacked(tombs) \ {c} /\ c \in Unacked(tombs)
  BY <1>1, <1>2, <1>3, <1>4, SMTT(40) DEF Unacked
<1>9. Unacked(tombs) \subseteq Calls /\ c \in Calls
  BY <1>3, TombSets DEF Calls
<1>10. /\ Cardinality(Unacked(tombs)) \in Nat /\ Cardinality(Unacked(tombs')) \in Nat
       /\ Cardinality(Unacked(tombs')) = Cardinality(Unacked(tombs)) - 1
  BY <1>8, <1>9, OneMore
<1>11. /\ counted.acked \in Nat /\ counted.timedOut \in Nat
       /\ counted.acked + Cardinality(Unacked(tombs)) <= counted.timedOut
  BY DEF Balanced, Counters
<1>12. counted' = [counted EXCEPT !.acked = @ + 1]
  BY DEF CancelAck
<1>13. /\ counted' \in Counters /\ counted'.acked = counted.acked + 1
       /\ counted'.late = counted.late /\ counted'.timedOut = counted.timedOut
       /\ counted'.failed = counted.failed /\ counted'.dispatched = counted.dispatched
  BY <1>12, SMTT(40) DEF Balanced, Counters
<1>14. counted'.acked + Cardinality(Unacked(tombs')) <= counted'.timedOut
  BY <1>10, <1>11, <1>13
<1>15. Balanced(tombs', counted')
  BY <1>6, <1>7, <1>13, <1>14 DEF Balanced
<1> QED
  BY <1>6, <1>15

-----------------------------------------------------------------------------
(* The inductive invariant.                                                *)

CallRecord == [state : {"new", "pending", "ended"}, on : 0..MaxLinks,
               chunked : [version : {0} \cup Versions, chunks : Seq(Chunk)],
               outcome : {"none", "answered", "error", "timeout", "offline"},
               body : Seq(Chunk)]

Whole(body) == body # <<>> => \E v \in Versions : body = [i \in 1..ChunkCount |-> <<v, i>>]

CallsInv ==
    /\ link \in [number : 1..MaxLinks, state : {"open", "closing", "gone"}, cancel : BOOLEAN]
    /\ calls \in [Calls -> CallRecord]
    /\ inFlight \in 0..Cardinality(Calls)
    /\ \A c \in Calls : calls[c].state # "new" => calls[c].on # 0
    /\ \A c \in Calls : Pending(c) => link.state # "gone" /\ calls[c].on = link.number
    /\ \A c \in Calls : Whole(calls[c].body)

(* A call that has a tombstone has ended. *)
TombsInv ==
    /\ Balanced(tombs, counted)
    /\ \A c \in Buried(tombs) : c \in Calls /\ calls[c].state = "ended"

RequestsIInv == CallsInv /\ TombsInv

LEMMA InvImplies == RequestsIInv => CallsAddUp
<1> SUFFICES ASSUME RequestsIInv PROVE CallsAddUp
  OBVIOUS
<1> USE DEF RequestsIInv
<1>1. RequestsTypeOK
  <2>1. tombs \in Seq([call : RpcCalls, on : 1..MaxLinks, dispatched : BOOLEAN,
                       acked : BOOLEAN, late : BOOLEAN])
    BY DEF TombsInv, Balanced, Buriable, Tomb
  <2>2. counted \in [timedOut : Nat, dispatched : Nat, failed : Nat, late : Nat, acked : Nat]
    BY DEF TombsInv, Balanced, Counters
  <2> QED
    BY <2>1, <2>2 DEF CallsInv, CallRecord, RequestsTypeOK
<1>2. PendingHasLink
  BY DEF CallsInv, PendingHasLink, PendingSet, Pending
<1>3. DeliveredWhole
  BY DEF CallsInv, DeliveredWhole, Whole, Calls
<1>4. TombstonesAddUp
  <2>1. Buriable(tombs) /\ tombs \in Seq(Tomb)
    BY DEF TombsInv, Balanced, Buriable
  <2>2. /\ Cardinality({i \in DOMAIN tombs : tombs[i].late}) <= Cardinality(Heard(tombs))
        /\ {i \in DOMAIN tombs : tombs[i].late} \subseteq DOMAIN tombs
    BY <2>1, HeardByCall
  <2>3. /\ Cardinality(Heard(tombs)) \in Nat /\ Cardinality(Unheard(tombs)) \in Nat
        /\ Cardinality(Unacked(tombs)) \in Nat
    BY <2>1, TombSets, FiniteSubsets
  <2>4. Cardinality({i \in DOMAIN tombs : tombs[i].late}) \in Nat
    <3>1. DOMAIN tombs = 1..Len(tombs) /\ Len(tombs) \in Int /\ IsFiniteSet(1..Len(tombs))
      BY <2>1, FS_Interval
    <3> QED
      BY <2>2, <3>1, FS_Subset, FS_CardinalityType
  <2>5. /\ counted.late \in Nat /\ counted.acked \in Nat /\ counted.timedOut \in Nat
        /\ counted.late + Cardinality(Unheard(tombs)) <= counted.timedOut
        /\ counted.acked + Cardinality(Unacked(tombs)) <= counted.timedOut
        /\ Cardinality(Heard(tombs)) <= counted.late
    BY DEF TombsInv, Balanced, Counters
  <2>6. counted.late <= counted.timedOut /\ counted.acked <= counted.timedOut
    BY <2>3, <2>5
  <2>7. Cardinality({i \in DOMAIN tombs : tombs[i].late}) <= counted.late
    BY <2>2, <2>3, <2>4, <2>5
  <2> QED
    BY <2>6, <2>7 DEF TombsInv, Balanced, TombstonesAddUp
<1> QED
  BY <1>1, <1>2, <1>3, <1>4 DEF CallsAddUp

LEMMA InitInv == RequestsInit => RequestsIInv
<1> SUFFICES ASSUME RequestsInit PROVE RequestsIInv
  OBVIOUS
<1>1. Cardinality(Calls) \in Nat
  BY FiniteSubsets
<1>2. Fresh \in CallRecord /\ Fresh.state = "new" /\ Fresh.body = <<>>
  BY DEF Fresh, NoChunks, CallRecord, Chunk
<1>3. CallsInv
  BY <1>1, <1>2 DEF RequestsInit, CallsInv, Pending, Whole
<1>4. Balanced(tombs, counted)
  <2>1. tombs = <<>> /\ Buriable(tombs) /\ Len(tombs) = 0
    BY DEF RequestsInit, Buriable, OneEach
  <2>2. Heard(tombs) = {} /\ Unheard(tombs) = {} /\ Unacked(tombs) = {}
    BY <2>1 DEF Heard, Unheard, Unacked
  <2>3. Cardinality({}) = 0
    BY FS_EmptySet
  <2>4. counted = [timedOut |-> 0, dispatched |-> 0, failed |-> 0, late |-> 0, acked |-> 0]
    BY DEF RequestsInit
  <2>5. /\ counted \in Counters
        /\ counted.late = 0 /\ counted.acked = 0 /\ counted.timedOut = 0
        /\ counted.failed = 0 /\ counted.dispatched = 0
    BY <2>4 DEF Counters
  <2> QED
    <3>1. /\ Cardinality(Heard(tombs)) = 0 /\ Cardinality(Unheard(tombs)) = 0
          /\ Cardinality(Unacked(tombs)) = 0
      BY <2>2, <2>3
    <3>2. 0 <= MaxTombstones
      OBVIOUS
    <3> QED
      BY <2>1, <2>5, <3>1, <3>2 DEF Balanced
<1>5. Buried(tombs) = {}
  BY DEF RequestsInit, Buried
<1> QED
  BY <1>3, <1>4, <1>5 DEF RequestsIInv, TombsInv

(* What ends a call leaves the other calls as they are. *)
LEMMA EndCallKeeps ==
  ASSUME CallsInv, NEW c \in Calls, Pending(c), NEW b \in Seq(Chunk),
         NEW o \in {"answered", "error", "timeout", "offline"}, EndCall(c, o, b),
         link' \in [number : 1..MaxLinks, state : {"open", "closing", "gone"}, cancel : BOOLEAN],
         link'.state # "gone", link'.number = link.number,
         Whole(b)
  PROVE  /\ CallsInv'
         /\ \A d \in Calls : calls[d].state = "ended" => calls'[d] = calls[d]
         /\ calls'[c].state = "ended"
<1>1. calls[c] \in CallRecord /\ calls \in [Calls -> CallRecord] /\ calls[c].on # 0
  BY DEF CallsInv, Pending
<1> DEFINE r == [calls[c] EXCEPT !.state = "ended", !.outcome = o, !.body = b,
                                 !.chunked = NoChunks]
<1>2. calls' = [calls EXCEPT ![c] = r]
  BY DEF EndCall
<1>3. /\ r \in CallRecord /\ r.state = "ended" /\ r.body = b /\ r.on = calls[c].on
  <2>1. NoChunks \in [version : {0} \cup Versions, chunks : Seq(Chunk)]
    BY DEF NoChunks
  <2> QED
    BY <1>1, <2>1 DEF CallRecord
<1> HIDE DEF r
<1>4. /\ calls' \in [Calls -> CallRecord] /\ calls'[c] = r
      /\ \A d \in Calls \ {c} : calls'[d] = calls[d]
  BY <1>1, <1>2, <1>3
<1>5. inFlight' \in 0..Cardinality(Calls)
  <2>1. Counting(calls') \in Nat /\ Counting(calls') <= Cardinality(Calls)
    BY FiniteSubsets DEF Counting, PendingSet
  <2>2. Cardinality(Calls) \in Nat
    BY FiniteSubsets
  <2>3. inFlight' = inFlight \/ inFlight' = Counting(calls')
    BY DEF EndCall
  <2>4. inFlight \in 0..Cardinality(Calls)
    BY DEF CallsInv
  <2> HIDE DEF Counting
  <2> QED
    BY <2>1, <2>2, <2>3, <2>4
<1>6. \A d \in Calls : Whole(calls'[d].body)
  BY <1>3, <1>4 DEF CallsInv
<1>7. \A d \in Calls : Pending(d)' => link'.state # "gone" /\ calls'[d].on = link'.number
  BY <1>3, <1>4 DEF CallsInv, Pending
<1>8. \A d \in Calls : calls'[d].state # "new" => calls'[d].on # 0
  BY <1>1, <1>3, <1>4 DEF CallsInv
<1>9. \A d \in Calls : calls[d].state = "ended" => calls'[d] = calls[d]
  BY <1>4 DEF Pending
<1> QED
  BY <1>3, <1>4, <1>5, <1>6, <1>7, <1>8, <1>9 DEF CallsInv

-----------------------------------------------------------------------------
(* Steps                                                                   *)

Links == [number : 1..MaxLinks, state : {"open", "closing", "gone"}, cancel : BOOLEAN]

Final == \A d \in Calls : calls[d].state = "ended" => calls'[d] = calls[d]

(* Only the calls change, and those that have ended do not. *)
LEMMA TombsStay ==
  ASSUME TombsInv, Final, UNCHANGED <<tombs, counted>>
  PROVE  TombsInv'
<1>1. Balanced(tombs, counted)'
  BY DEF TombsInv
<1>2. Buried(tombs)' = Buried(tombs)
  OBVIOUS
<1> QED
  BY <1>1, <1>2 DEF TombsInv, Final

(* A call ends, and nothing else happens. *)
LEMMA EndCallInv ==
  ASSUME RequestsIInv, NEW c \in Calls, Pending(c), NEW b \in Seq(Chunk), Whole(b),
         NEW o \in {"answered", "error", "timeout", "offline"}, EndCall(c, o, b),
         UNCHANGED <<link, tombs, counted>>
  PROVE  RequestsIInv' /\ Final
<1>1. link' \in Links /\ link'.state # "gone" /\ link'.number = link.number
  BY DEF RequestsIInv, CallsInv, Links
<1>2. CallsInv' /\ Final
  BY <1>1, EndCallKeeps DEF RequestsIInv, Links, Final
<1> QED
  BY <1>2, TombsStay DEF RequestsIInv

LEMMA NoBody == <<>> \in Seq(Chunk) /\ Whole(<<>>)
  BY DEF Whole

(* One call changes and goes on, or begins. *)
LEMMA CallGoesOn ==
  ASSUME RequestsIInv, NEW c \in Calls, calls[c].state # "ended",
         NEW r \in CallRecord, calls' = [calls EXCEPT ![c] = r],
         r.state = "pending", r.on = link.number, link.state # "gone",
         r.body = calls[c].body, inFlight' \in 0..Cardinality(Calls),
         UNCHANGED <<link, tombs, counted>>
  PROVE  RequestsIInv' /\ Final
<1>1. /\ calls' \in [Calls -> CallRecord] /\ calls'[c] = r
      /\ \A d \in Calls \ {c} : calls'[d] = calls[d]
  BY DEF RequestsIInv, CallsInv
<1>2. Final
  BY <1>1 DEF Final
<1>3. \A d \in Calls : Whole(calls'[d].body)
  BY <1>1 DEF RequestsIInv, CallsInv
<1>4. \A d \in Calls : Pending(d)' => link'.state # "gone" /\ calls'[d].on = link'.number
  BY <1>1 DEF RequestsIInv, CallsInv, Pending
<1>5. \A d \in Calls : calls'[d].state # "new" => calls'[d].on # 0
  <2>1. link.number # 0
    BY DEF RequestsIInv, CallsInv
  <2> QED
    BY <1>1, <2>1 DEF RequestsIInv, CallsInv
<1>6. CallsInv'
  BY <1>1, <1>3, <1>4, <1>5 DEF RequestsIInv, CallsInv
<1> QED
  BY <1>2, <1>6, TombsStay DEF RequestsIInv

LEMMA RequestInv ==
  ASSUME RequestsIInv, NEW c \in Calls, Request(c)
  PROVE  RequestsIInv' /\ Final
<1> DEFINE r == [calls[c] EXCEPT !.state = "pending", !.on = link.number]
<1>1. calls \in [Calls -> CallRecord] /\ calls[c] \in CallRecord /\ link \in Links
  BY DEF RequestsIInv, CallsInv, Links
<1>2. calls' = [calls EXCEPT ![c] = r]
  BY <1>1 DEF Request
<1>3. /\ r \in CallRecord /\ r.state = "pending" /\ r.on = link.number
      /\ r.body = calls[c].body
  <2>1. link.number \in 0..MaxLinks
    BY <1>1 DEF Links
  <2> QED
    BY <1>1, <2>1 DEF CallRecord
<1>4. inFlight' \in 0..Cardinality(Calls)
  <2>1. Counting(calls') \in Nat /\ Counting(calls') <= Cardinality(Calls)
        /\ Cardinality(Calls) \in Nat
    BY FiniteSubsets DEF Counting, PendingSet
  <2>2. inFlight' = inFlight \/ inFlight' = Counting(calls')
    BY DEF Request
  <2>3. inFlight \in 0..Cardinality(Calls)
    BY DEF RequestsIInv, CallsInv
  <2> HIDE DEF Counting
  <2> QED
    BY <2>1, <2>2, <2>3
<1>5. /\ calls[c].state # "ended" /\ link.state # "gone"
      /\ UNCHANGED <<link, tombs, counted>>
  BY DEF Request
<1> HIDE DEF r
<1> QED
  BY <1>2, <1>3, <1>4, <1>5, CallGoesOn

(* A part of a response is received. *)
LEMMA ChunkedInv ==
  ASSUME RequestsIInv, NEW c \in Calls, Pending(c),
         NEW ch \in [version : {0} \cup Versions, chunks : Seq(Chunk)],
         calls' = [calls EXCEPT ![c] = [@ EXCEPT !.chunked = ch]],
         UNCHANGED <<link, inFlight, tombs, counted>>
  PROVE  RequestsIInv' /\ Final
<1> DEFINE r == [calls[c] EXCEPT !.chunked = ch]
<1>1. calls \in [Calls -> CallRecord] /\ calls[c] \in CallRecord
  BY DEF RequestsIInv, CallsInv
<1>2. calls' = [calls EXCEPT ![c] = r]
  BY <1>1
<1>3. /\ link.state # "gone" /\ calls[c].on = link.number /\ calls[c].state = "pending"
      /\ inFlight' \in 0..Cardinality(Calls)
  BY DEF RequestsIInv, CallsInv, Pending
<1>4. /\ r \in CallRecord /\ r.state = "pending" /\ r.on = link.number
      /\ r.body = calls[c].body
  BY <1>1, <1>3 DEF CallRecord
<1> HIDE DEF r
<1> QED
  BY <1>2, <1>3, <1>4, CallGoesOn

LEMMA ResponseStartInv ==
  ASSUME RequestsIInv, NEW c \in Calls, NEW v \in Versions, ResponseStart(c, v)
  PROVE  RequestsIInv' /\ Final
<1> DEFINE ch == [version |-> v, chunks |-> <<>>]
<1>1. ch \in [version : {0} \cup Versions, chunks : Seq(Chunk)]
  OBVIOUS
<1>2. Pending(c) /\ calls \in [Calls -> CallRecord]
  BY DEF ResponseStart, RequestsIInv, CallsInv
<1>3. /\ calls' = [calls EXCEPT ![c] = [@ EXCEPT !.chunked = ch]]
      /\ UNCHANGED <<link, inFlight, tombs, counted>>
  BY DEF ResponseStart
<1> HIDE DEF ch
<1> QED
  BY <1>1, <1>2, <1>3, ChunkedInv

LEMMA ResponseChunkInv ==
  ASSUME RequestsIInv, NEW c \in Calls, NEW chunk \in Chunk, ResponseChunk(c, chunk)
  PROVE  RequestsIInv' /\ Final
<1>1. Pending(c) /\ UNCHANGED <<link, tombs, counted>>
  BY DEF ResponseChunk
<1>2. CASE chunk[2] = Len(calls[c].chunked.chunks) + 1
  <2> DEFINE ch == [version |-> calls[c].chunked.version,
                    chunks |-> Append(calls[c].chunked.chunks, chunk)]
  <2>1. calls \in [Calls -> CallRecord] /\ calls[c] \in CallRecord
    BY DEF RequestsIInv, CallsInv
  <2>2. calls[c].chunked \in [version : {0} \cup Versions, chunks : Seq(Chunk)]
    BY <2>1 DEF CallRecord
  <2>3. ch \in [version : {0} \cup Versions, chunks : Seq(Chunk)]
    BY <2>2
  <2>4. /\ calls' = [calls EXCEPT ![c].chunked.chunks = Append(@, chunk)]
        /\ UNCHANGED inFlight
    BY <1>2 DEF ResponseChunk
  <2>5. [calls[c].chunked EXCEPT !.chunks = Append(@, chunk)] = ch
    <3>1. calls[c].chunked = [version |-> calls[c].chunked.version,
                              chunks |-> calls[c].chunked.chunks]
      BY <2>2
    <3>2. ASSUME NEW v, NEW cs, NEW k, k = [version |-> v, chunks |-> cs], NEW ds
          PROVE  [k EXCEPT !.chunks = ds] = [version |-> v, chunks |-> ds]
      BY <3>2
    <3> QED
      BY <3>1, <3>2
  <2>6. calls' = [calls EXCEPT ![c] = [@ EXCEPT !.chunked = ch]]
    BY <2>4, <2>5
  <2> HIDE DEF ch
  <2> QED
    BY <1>1, <2>3, <2>4, <2>6, ChunkedInv
<1>3. CASE chunk[2] # Len(calls[c].chunked.chunks) + 1
  <2>1. EndCall(c, "error", <<>>)
    BY <1>3 DEF ResponseChunk
  <2> QED
    BY <1>1, <2>1, NoBody, EndCallInv
<1> QED
  BY <1>2, <1>3

LEMMA ResponseEndInv ==
  ASSUME RequestsIInv, NEW c \in Calls, ResponseEnd(c)
  PROVE  RequestsIInv' /\ Final
<1> DEFINE b == calls[c].chunked.chunks
<1>1. /\ Pending(c) /\ UNCHANGED <<link, tombs, counted>>
      /\ calls[c].chunked.version > 0
  BY DEF ResponseEnd
<1>2. CASE DigestMatches(calls[c].chunked)
  <2>1. EndCall(c, "answered", b)
    BY <1>2 DEF ResponseEnd
  <2>2. calls[c].chunked \in [version : {0} \cup Versions, chunks : Seq(Chunk)]
    BY DEF RequestsIInv, CallsInv, CallRecord
  <2>3. b \in Seq(Chunk) /\ calls[c].chunked.version \in Versions
    BY <1>1, <2>2
  <2>4. Whole(b)
    <3>1. b = [i \in 1..ChunkCount |-> <<calls[c].chunked.version, i>>]
      BY <1>2 DEF DigestMatches
    <3> HIDE DEF b
    <3> QED
      BY <2>3, <3>1, Zenon DEF Whole
  <2> HIDE DEF b
  <2> QED
    BY <1>1, <2>1, <2>3, <2>4, EndCallInv
<1>3. CASE ~DigestMatches(calls[c].chunked)
  <2>1. EndCall(c, "error", <<>>)
    BY <1>3 DEF ResponseEnd
  <2> QED
    BY <1>1, <2>1, NoBody, EndCallInv
<1> QED
  BY <1>2, <1>3

LEMMA TimeOutRpcInv ==
  ASSUME RequestsIInv, NEW c \in Calls, TimeOutRpc(c)
  PROVE  RequestsIInv' /\ Final
<1>1. /\ c \in RpcCalls /\ Pending(c) /\ EndCall(c, "timeout", <<>>)
      /\ Remember(c, link.cancel) /\ UNCHANGED link
  BY DEF TimeOutRpc
<1>2. link' \in Links /\ link'.state # "gone" /\ link'.number = link.number
      /\ link.cancel \in BOOLEAN /\ calls[c].on # 0
  BY <1>1 DEF RequestsIInv, CallsInv, Links, Pending
<1>3. CallsInv' /\ Final /\ calls'[c].state = "ended"
  BY <1>1, <1>2, NoBody, EndCallKeeps DEF RequestsIInv, Links, Final
<1>4. PICK fails \in BOOLEAN :
        counted' = [counted EXCEPT !.timedOut = @ + 1,
                                   !.dispatched = @ + (IF link.cancel THEN 1 ELSE 0),
                                   !.failed = @ + (IF link.cancel /\ fails THEN 1 ELSE 0)]
  BY DEF TimeOutRpc
<1>5. Balanced(tombs, counted) /\ \A d \in Buried(tombs) : d \in Calls /\ calls[d].state = "ended"
  BY DEF RequestsIInv, TombsInv
<1>6. c \notin Buried(tombs)
  BY <1>1, <1>5 DEF Pending
<1>7. RequestsTypeOK
  BY InvImplies DEF CallsAddUp
<1>8. Balanced(tombs', counted') /\ Buried(tombs') \subseteq Buried(tombs) \cup {c}
  BY <1>1, <1>2, <1>4, <1>5, <1>6, <1>7, RememberBalanced, ZenonT(40)
<1>9. TombsInv'
  BY <1>3, <1>5, <1>8 DEF TombsInv, Final
<1> QED
  BY <1>3, <1>9 DEF RequestsIInv

LEMMA WholeResponseInv ==
  ASSUME RequestsIInv, NEW c \in Calls, WholeResponse(c)
  PROVE  RequestsIInv' /\ Final
<1>1. c \in RpcCalls /\ UNCHANGED link
  BY DEF WholeResponse
<1>2. CASE Pending(c)
  <2>1. EndCall(c, "answered", <<>>) /\ UNCHANGED <<tombs, counted>>
    BY <1>2 DEF WholeResponse
  <2> QED
    BY <1>1, <1>2, <2>1, NoBody, EndCallInv
<1>3. CASE ~Pending(c)
  <2>1. ClassifyResponse(c) /\ UNCHANGED <<calls, inFlight>>
    BY <1>3 DEF WholeResponse
  <2>2. Balanced(tombs', counted') /\ Buried(tombs') = Buried(tombs)
    BY <1>1, <2>1, ClassifyBalanced DEF RequestsIInv, TombsInv
  <2>3. CallsInv' /\ Final
    BY <1>1, <2>1 DEF RequestsIInv, CallsInv, Pending, Final
  <2> QED
    BY <2>1, <2>2, <2>3 DEF RequestsIInv, TombsInv
<1> QED
  BY <1>2, <1>3

LEMMA CancelAckInv ==
  ASSUME RequestsIInv, NEW c \in Calls, CancelAck(c)
  PROVE  RequestsIInv' /\ Final
<1>1. c \in RpcCalls /\ UNCHANGED <<link, calls, inFlight>>
  BY DEF CancelAck
<1>2. Balanced(tombs', counted') /\ Buried(tombs') = Buried(tombs)
  BY <1>1, AckBalanced DEF RequestsIInv, TombsInv
<1>3. CallsInv' /\ Final
  BY <1>1 DEF RequestsIInv, CallsInv, Pending, Final
<1> QED
  BY <1>1, <1>2, <1>3 DEF RequestsIInv, TombsInv

(* A connection that is closed or opened, and the calls it ends. *)
LEMMA LinkInv ==
  ASSUME RequestsIInv, DetachLink \/ AttachLink
  PROVE  RequestsIInv' /\ Final
<1>1. calls \in [Calls -> CallRecord] /\ link \in Links /\ MaxLinks \in Nat
  BY DEF RequestsIInv, CallsInv, Links
<1>2. UNCHANGED <<tombs, counted>>
  BY DEF DetachLink, AttachLink
<1>3. CASE DetachLink
  <2>1. calls' = RejectedAll(calls) /\ inFlight' = 0 /\ link' = [link EXCEPT !.state = "gone"]
    BY <1>3 DEF DetachLink
  <2>2. NoChunks \in [version : {0} \cup Versions, chunks : Seq(Chunk)]
    BY DEF NoChunks
  <2>3. \A d \in Calls :
          /\ calls'[d] \in CallRecord /\ calls'[d].state # "pending"
          /\ calls'[d].body = calls[d].body /\ calls'[d].on = calls[d].on
          /\ calls'[d].state # "new" => calls[d].state # "new"
          /\ calls[d].state = "ended" => calls'[d] = calls[d]
    BY <1>1, <2>1, <2>2, ZenonT(40) DEF RejectedAll, CallRecord
  <2>4. calls' \in [Calls -> CallRecord]
    BY <2>1, <2>3 DEF RejectedAll
  <2>5. link' \in Links
    BY <1>1, <2>1 DEF Links
  <2>6. inFlight' \in 0..Cardinality(Calls)
    BY <2>1, FiniteSubsets
  <2>7. \A d \in Calls : Whole(calls'[d].body)
    BY <2>3 DEF RequestsIInv, CallsInv
  <2>8. CallsInv' /\ Final
    <3>1. \A d \in Calls : calls'[d].state # "new" => calls'[d].on # 0
      BY <2>3 DEF RequestsIInv, CallsInv
    <3>2. \A d \in Calls : ~(Pending(d)')
      BY <2>3 DEF Pending
    <3> QED
      BY <2>3, <2>4, <2>5, <2>6, <2>7, <3>1, <3>2 DEF CallsInv, Links, Final
  <2> QED
    BY <1>2, <2>8, TombsStay DEF RequestsIInv
<1>4. CASE AttachLink
  <2>1. /\ link.state = "gone" /\ link.number < MaxLinks /\ UNCHANGED <<calls, inFlight>>
        /\ link' = [link EXCEPT !.number = @ + 1, !.state = "open"]
    BY <1>4 DEF AttachLink
  <2>2. link' \in Links
    <3>1. link = [number |-> link.number, state |-> link.state, cancel |-> link.cancel]
          /\ link.cancel \in BOOLEAN /\ link.number \in 1..MaxLinks
      BY <1>1 DEF Links
    <3>2. link.number + 1 \in 1..MaxLinks
      BY <1>1, <2>1, <3>1
    <3>3. link' = [number |-> link.number + 1, state |-> "open", cancel |-> link.cancel]
      BY <2>1, <3>1
    <3> QED
      BY <3>1, <3>2, <3>3 DEF Links
  <2>3. \A d \in Calls : ~Pending(d)
    BY <2>1 DEF RequestsIInv, CallsInv
  <2>4. CallsInv' /\ Final
    BY <2>1, <2>2, <2>3 DEF RequestsIInv, CallsInv, Links, Pending, Final
  <2> QED
    BY <1>2, <2>4, TombsStay DEF RequestsIInv
<1> QED
  BY <1>3, <1>4

(* The remaining actions end a call, or change the connection's state. *)
LEMMA ClosingInv ==
  ASSUME RequestsIInv, link.state # "gone", link' = [link EXCEPT !.state = "closing"],
         UNCHANGED <<calls, inFlight, tombs, counted>>
  PROVE  RequestsIInv' /\ Final
<1>1. link' \in Links /\ link'.number = link.number /\ link'.state = "closing"
  BY DEF RequestsIInv, CallsInv, Links
<1>2. CallsInv' /\ Final
  BY <1>1 DEF RequestsIInv, CallsInv, Links, Pending, Final
<1> QED
  BY <1>2, TombsStay DEF RequestsIInv

LEMMA ForgetInv ==
  ASSUME RequestsIInv, ForgetOldest
  PROVE  RequestsIInv' /\ Final
<1>1. tombs # <<>> /\ tombs' = Tail(tombs) /\ UNCHANGED <<link, calls, inFlight, counted>>
  BY DEF ForgetOldest
<1>2. Balanced(tombs', counted) /\ Buried(tombs') \subseteq Buried(tombs)
  BY <1>1, TailBalanced DEF RequestsIInv, TombsInv
<1>3. CallsInv' /\ Final
  BY <1>1 DEF RequestsIInv, CallsInv, Pending, Final
<1> QED
  BY <1>1, <1>2, <1>3 DEF RequestsIInv, TombsInv

LEMMA StepInv ==
  ASSUME RequestsIInv, [RequestsNext]_requestVars
  PROVE  RequestsIInv' /\ Final
<1>1. ASSUME NEW c \in Calls, SendFails(c)
      PROVE  RequestsIInv' /\ Final
  BY <1>1, NoBody, EndCallInv DEF SendFails
<1>2. ASSUME NEW c \in Calls, TimeOut(c)
      PROVE  RequestsIInv' /\ Final
  BY <1>2, NoBody, EndCallInv DEF TimeOut
<1>3. ASSUME NEW c \in Calls, MalformedResponse(c)
      PROVE  RequestsIInv' /\ Final
  BY <1>3, NoBody, EndCallInv DEF MalformedResponse
<1>4. ASSUME NEW c \in Calls, NativeAck(c)
      PROVE  RequestsIInv' /\ Final
  BY <1>4, NoBody, EndCallInv DEF NativeAck
<1>5. ASSUME NEW c \in Calls, NEW matches \in BOOLEAN, RuntimeSnapshot(c, matches)
      PROVE  RequestsIInv' /\ Final
  <2>1. CASE matches
    BY <1>5, <2>1, NoBody, EndCallInv DEF RuntimeSnapshot
  <2>2. CASE ~matches
    BY <1>5, <2>2, ClosingInv DEF RuntimeSnapshot, MayHear
  <2> QED
    BY <2>1, <2>2
<1>6. ASSUME BadFrame
      PROVE  RequestsIInv' /\ Final
  BY <1>6, ClosingInv DEF BadFrame
<1>7. ASSUME UNCHANGED requestVars
      PROVE  RequestsIInv' /\ Final
  <2>1. CallsInv' /\ Final
    BY <1>7 DEF RequestsIInv, CallsInv, Pending, Final, requestVars
  <2> QED
    BY <1>7, <2>1, TombsStay DEF RequestsIInv, requestVars
<1> QED
  BY <1>1, <1>2, <1>3, <1>4, <1>5, <1>6, <1>7, RequestInv, TimeOutRpcInv, ForgetInv,
     WholeResponseInv, ResponseEndInv, CancelAckInv, ResponseStartInv, ResponseChunkInv,
     LinkInv DEF RequestsNext

-----------------------------------------------------------------------------
(* The theorems.                                                           *)

LEMMA AlwaysInv == RequestsSpec => []RequestsIInv
<1>1. RequestsIInv /\ [RequestsNext]_requestVars => RequestsIInv'
  BY StepInv
<1> QED
  BY <1>1, InitInv, PTL DEF RequestsSpec

(* In all runs, no call is pending on a connection that is gone, a body    *)
(* that came in parts is all the parts of one response (gatewayRegistry's  *)
(* chunked responses), and the counters of the timed-out calls and their   *)
(* tombstones (gatewayRequestTombstones.ts) add up, over evictions,        *)
(* expiries and reconnections.                                             *)
THEOREM CallsAlwaysAddUp == RequestsSpec => []CallsAddUp
<1> QED
  BY AlwaysInv, InvImplies, PTL

(* A call that has ended keeps its outcome, whatever frames come after it: *)
(* `pending.delete' comes before the promise is settled, on every path.    *)
THEOREM OutcomesAreFinal == RequestsSpec => OutcomeIsFinal
<1>1. RequestsIInv /\ [RequestsNext]_requestVars =>
        [\A c \in Calls : calls[c].state = "ended" => calls'[c] = calls[c]]_requestVars
  BY StepInv DEF Final
<1> QED
  BY <1>1, AlwaysInv, PTL DEF RequestsSpec, OutcomeIsFinal
===============================================================================
