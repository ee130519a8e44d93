----------------------------- MODULE SessionProofs -----------------------------
(***************************************************************************)
(* Proofs about the modules of sessions: the answers to prompts, the cache *)
(* of session lists, what a client reads, which is pages, syncs and        *)
(* reconciliations, the lineages of a directory, and the conversations     *)
(* that stand for them.  The component's inductive invariant comes first,  *)
(* then what it implies, where it starts, and the step that keeps it,      *)
(* action by action.  The lineages have no steps: their section is about   *)
(* what the walk computes.                                                 *)
(***************************************************************************)
EXTENDS MCSessions, FiniteSetTheorems, SequenceTheorems, WellFoundedInduction, TLAPS

-----------------------------------------------------------------------------
(* Prompts.  An answer has won when the Gateway has taken it and its       *)
(* acknowledgement is under way or has come; the Gateway takes one only,   *)
(* and only then is the question no longer open.                           *)

Arrival == [kind : {"requested", "resolved", "accepted", "refused"}, about : Answers \cup {"prompt"}]

Won(a) ==
    \/ answers[a] \in {"acked", "accepted"}
    \/ \E i \in DOMAIN arriving : arriving[i].kind = "accepted" /\ arriving[i].about = a

PromptTyped ==
    /\ prompt \in [status : {"none", "pending", "resolved"}, conv : 0..2]
    /\ canonOf2 \in 1..2 /\ question \in {"unasked", "open", "taken"}
    /\ arriving \in Seq(Arrival) /\ Len(arriving) <= MaxPromptEvents
    /\ answers \in [Answers -> AnswerStates]
    /\ question # "unasked" => MaxPromptEvents > 0
    /\ (\E a \in Answers : answers[a] # "idle") => prompt.status # "none"

(* Before the Gateway has taken an answer it sends the question only, and  *)
(* nothing settles the prompt.                                             *)
PromptUntaken ==
    question # "taken" =>
        /\ \A i \in DOMAIN arriving : arriving[i] = [kind |-> "requested", about |-> "prompt"]
        /\ \A a \in Answers : answers[a] \notin {"acked", "accepted", "refused"}
        /\ prompt.status # "resolved"

PromptAsked == question = "open" => prompt.status = "pending" \/ arriving # <<>>

OneWins == \A a, b \in Answers : Won(a) /\ Won(b) => a = b

PromptInv == PromptTyped /\ PromptUntaken /\ PromptAsked /\ OneWins /\ PromptFollowsLane

LEMMA PromptInvImplies == PromptInv => PromptsAreSound
<1> SUFFICES ASSUME PromptInv PROVE PromptsAreSound
  OBVIOUS
<1>1. PromptTypeOK
  BY DEF PromptInv, PromptTyped, PromptTypeOK
<1>2. OneAcceptedAnswer
  <2> DEFINE W == {a \in Answers : answers[a] = "accepted"}
  <2>1. CASE W = {}
    BY <2>1, FS_EmptySet DEF OneAcceptedAnswer
  <2>2. CASE W # {}
    <3>1. PICK w \in W : TRUE
      BY <2>2
    <3>2. \A a \in W : a = w
      BY DEF PromptInv, OneWins, Won
    <3>3. W = {w}
      BY <3>2
    <3>4. Cardinality(W) = 1
      BY <3>3, FS_Singleton
    <3> QED
      BY <3>4 DEF OneAcceptedAnswer
  <2> QED
    BY <2>1, <2>2
<1>3. OpenIsAnswerable
  BY DEF PromptInv, PromptAsked, OpenIsAnswerable
<1> QED
  BY <1>1, <1>2, <1>3 DEF PromptInv, PromptsAreSound, PromptsStayAnswerable

LEMMA PromptStart == PromptInit => PromptInv
BY PromptConstantsAssumption
   DEF PromptInit, PromptInv, PromptTyped, PromptUntaken, PromptAsked, OneWins, Won, PromptFollowsLane,
       Arrival, AnswerStates

LEMMA PromptStep ==
  ASSUME PromptInv, [PromptNext]_promptVars
  PROVE  PromptInv'
<1> USE PromptConstantsAssumption DEF PromptInv
<1>1. PromptTyped' /\ PromptUntaken' /\ PromptAsked' /\ PromptFollowsLane'
  <2> USE DEF PromptTyped, PromptUntaken, PromptAsked, PromptFollowsLane, Arrival, AnswerStates, InPassage
  <2>1. CASE AskUser
    BY <2>1 DEF AskUser, GatewaySends
  <2>2. CASE PromptEvent
    BY <2>2 DEF PromptEvent
  <2>3. CASE MergeConversations
    BY <2>3 DEF MergeConversations, PromptAfterMerge
  <2>4. ASSUME NEW a \in Answers, NEW named \in 0..2, Answer(a, named)
        PROVE  PromptTyped' /\ PromptUntaken' /\ PromptAsked' /\ PromptFollowsLane'
    BY <2>4 DEF Answer
  <2>5. ASSUME NEW a \in Answers, TakeAnswer(a)
        PROVE  PromptTyped' /\ PromptUntaken' /\ PromptAsked' /\ PromptFollowsLane'
    <3>1. CASE question = "open"
      BY <2>5, <3>1 DEF TakeAnswer
    <3>2. CASE question # "open"
      BY <2>5, <3>2 DEF TakeAnswer
    <3> QED
      BY <3>1, <3>2
  <2>6. ASSUME NEW a \in Answers, Finish(a)
        PROVE  PromptTyped' /\ PromptUntaken' /\ PromptAsked' /\ PromptFollowsLane'
    <3>1. question = "taken"
      BY <2>6 DEF Finish
    <3>2. CASE answers[a] = "acked"
      <4>1. answers' = [answers EXCEPT ![a] = "accepted"]
        BY <2>6, <3>2 DEF Finish, Outcome202
      <4>2. prompt' = [prompt EXCEPT !.status = "resolved"]
        BY <2>6, <4>1 DEF Finish
      <4> QED
        BY <2>6, <3>1, <4>1, <4>2 DEF Finish
    <3>3. CASE answers[a] = "refused"
      <4>1. answers' = [answers EXCEPT ![a] = "error"]
        BY <2>6, <3>3 DEF Finish, Outcome202
      <4>2. prompt' = prompt
        BY <2>6, <4>1 DEF Finish
      <4> QED
        BY <2>6, <3>1, <4>1, <4>2 DEF Finish
    <3> QED
      BY <2>6, <3>2, <3>3 DEF Finish
  <2>7. ASSUME NEW a \in Answers, AnswerTimesOut(a)
        PROVE  PromptTyped' /\ PromptUntaken' /\ PromptAsked' /\ PromptFollowsLane'
    BY <2>7 DEF AnswerTimesOut, PromptUnsettled
  <2>8. CASE Acked
    <3>1. question = "taken"
      BY <2>8 DEF Acked
    <3>2. arriving # <<>> /\ Head(arriving).about # "prompt"
      BY <2>8 DEF Acked
    <3>3. Head(arriving) = arriving[1] /\ 1 \in DOMAIN arriving /\ Head(arriving) \in Arrival
      <4>1. arriving \in Seq(Arrival)
        OBVIOUS
      <4>2. Len(arriving) # 0
        BY <3>2, <4>1, EmptySeq
      <4> HIDE DEF Arrival, PromptInv
      <4> QED
        BY <4>1, <4>2
    <3>4. PICK a \in Answers : Head(arriving).about = a
      BY <3>2, <3>3
    <3>5. question = "taken"
      BY <3>2, <3>3
    <3>6. arriving' \in Seq(Arrival) /\ Len(arriving') <= MaxPromptEvents
      BY <2>8, <3>2 DEF Acked
    <3>7. PICK state \in AnswerStates :
            /\ answers' = [answers EXCEPT ![a] = state]
            /\ state # "idle" => answers[a] # "idle"
      BY <2>8, <3>4 DEF Acked
    <3>8. /\ answers' \in [Answers -> AnswerStates]
          /\ \A b \in Answers : answers'[b] # "idle" => answers[b] # "idle"
      BY <3>7
    <3>9. UNCHANGED <<prompt, canonOf2, question>>
      BY <2>8 DEF Acked
    <3> QED
      BY <3>5, <3>6, <3>8, <3>9
  <2>9. ASSUME Reconnect \/ RestartRouter
        PROVE  PromptTyped' /\ PromptUntaken' /\ PromptAsked' /\ PromptFollowsLane'
    <3> DEFINE again == [kind |-> "requested", about |-> "prompt"]
    <3>1. prompt' = prompt /\ canonOf2' = canonOf2 /\ question' = question
      BY <2>9 DEF Reconnect, RestartRouter, PromptUnsettled
    <3>2. answers' \in [Answers -> AnswerStates]
      BY <2>9 DEF Reconnect, RestartRouter
    <3>3. \A a \in Answers : answers'[a] \in {"acked", "accepted", "refused"} => answers'[a] = answers[a]
      BY <2>9 DEF Reconnect, RestartRouter
    <3>6. \A a \in Answers : answers'[a] # "idle" => answers[a] # "idle"
      BY <2>9 DEF Reconnect, RestartRouter
    <3>4. CASE question = "open"
      <4>1. arriving' = <<again>>
        BY <2>9, <3>4 DEF Reconnect, RestartRouter
      <4>2. again \in Arrival
        OBVIOUS
      <4>3. arriving' \in Seq(Arrival) /\ Len(arriving') = 1 /\ arriving' # <<>> /\ \A i \in DOMAIN arriving' : arriving'[i] = again
        BY <4>1, <4>2
      <4>4. PromptTyped'
        <5>1. Len(arriving') <= MaxPromptEvents
          BY <3>4, <4>3
        <5>2. (\E a \in Answers : answers'[a] # "idle") => prompt'.status # "none"
          BY <3>1, <3>6
        <5> QED
          BY <3>1, <3>2, <4>3, <5>1, <5>2
      <4> QED
        BY <3>1, <3>2, <3>3, <3>4, <4>3, <4>4
    <3>5. CASE question # "open"
      <4>1. arriving' = <<>>
        BY <2>9, <3>5 DEF Reconnect, RestartRouter
      <4> QED
        BY <3>1, <3>2, <3>3, <3>5, <3>6, <4>1
    <3> QED
      BY <3>4, <3>5
  <2>10. CASE UNCHANGED promptVars
    BY <2>10 DEF promptVars
  <2> QED
    BY <2>1, <2>2, <2>3, <2>4, <2>5, <2>6, <2>7, <2>8, <2>9, <2>10 DEF PromptNext
<1>2. OneWins'
  <2> USE DEF PromptTyped, Arrival, OneWins, Won
  <2>1. CASE AskUser
    BY <2>1 DEF AskUser, GatewaySends
  <2>2. CASE PromptEvent
    BY <2>2 DEF PromptEvent
  <2>3. CASE MergeConversations
    BY <2>3 DEF MergeConversations
  <2>4. ASSUME NEW a \in Answers, NEW named \in 0..2, Answer(a, named)
        PROVE  OneWins'
    BY <2>4 DEF Answer
  <2>5. ASSUME NEW a \in Answers, TakeAnswer(a)
        PROVE  OneWins'
    <3>1. CASE question = "open"
      <4>1. \A b \in Answers : ~Won(b)
        BY <3>1 DEF PromptUntaken
      <4> QED
        BY <2>5, <3>1, <4>1 DEF TakeAnswer
    <3>2. CASE question # "open"
      <4>1. \A b \in Answers : Won(b)' => Won(b)
        BY <2>5, <3>2 DEF TakeAnswer
      <4> QED
        BY <4>1
    <3> QED
      BY <3>1, <3>2
  <2>6. ASSUME NEW a \in Answers, Finish(a)
        PROVE  OneWins'
    BY <2>6 DEF Finish, Outcome202
  <2>7. ASSUME NEW a \in Answers, AnswerTimesOut(a)
        PROVE  OneWins'
    BY <2>7 DEF AnswerTimesOut
  <2>8. CASE Acked
    <3>1. \A b \in Answers : Won(b)' => Won(b)
      BY <2>8 DEF Acked
    <3> QED
      BY <3>1
  <2>9. CASE Reconnect
    BY <2>9 DEF Reconnect
  <2>10. CASE RestartRouter
    BY <2>10 DEF RestartRouter, InPassage
  <2>11. CASE UNCHANGED promptVars
    BY <2>11 DEF promptVars
  <2> QED
    BY <2>1, <2>2, <2>3, <2>4, <2>5, <2>6, <2>7, <2>8, <2>9, <2>10, <2>11 DEF PromptNext
<1> QED
  BY <1>1, <1>2

(* Of all devices at most one is told that its answer counts, and while    *)
(* none is, whichever device asks can still answer.                        *)
THEOREM PromptsAlwaysSound == PromptSpec => []PromptsAreSound
<1>1. PromptInit => PromptInv
  BY PromptStart
<1>2. PromptInv /\ [PromptNext]_promptVars => PromptInv'
  BY PromptStep
<1>3. PromptInv => PromptsAreSound
  BY PromptInvImplies
<1> QED
  BY <1>1, <1>2, <1>3, PTL DEF PromptSpec

-----------------------------------------------------------------------------
(* Session lists.  An entry of the cache was put since the last            *)
(* invalidation, and no other entry has its query; a deleted session has   *)
(* no category, whether Hermes has a session of its id again or not.       *)

Entry == [query : Queries, rows : SUBSET Ids, fresh : BOOLEAN]

ListTyped(r) ==
    /\ r.state \in {"idle", "asked", "read", "done"}
    /\ r.state \in {"asked", "read"} => r.query \in Queries
    /\ r.rows \subseteq Ids

ListsTyped == DOMAIN lists = Lists /\ \A l \in Lists : ListTyped(lists[l])

SessionsFiled == live \subseteq Ids /\ category \subseteq Ids

CacheTyped ==
    /\ entries \in Seq(Entry) /\ Len(entries) <= MaxEntries
    /\ clearedAt \in [since : SUBSET Queries, upstream : BOOLEAN]

OneEntryEach == \A i, j \in DOMAIN entries : entries[i].query = entries[j].query => i = j

EntriesSince == \A i \in DOMAIN entries : entries[i].query \in clearedAt.since

CacheInv == CacheTyped /\ OneEntryEach /\ EntriesSince

ChangesTyped ==
    changes \in [Changes -> [state : {"idle", "sent", "applied", "ok", "failed"},
                             kind : Kinds \cup {"none", "copied"}, id : Ids \cup {"none"}]]

CopyIsDone == \A c \in Changes : changes[c].kind = "copied" => changes[c].state = "ok"

DeletedUnfiled ==
    \A c \in Changes : (/\ changes[c].state = "ok" /\ changes[c].kind = "delete"
                        /\ \A d \in Changes : changes[d].kind # "copied")
                       => changes[c].id \notin category

ChangesInv == ChangesTyped /\ CopyIsDone /\ DeletedUnfiled

DirectoryInv == CacheInv /\ ListsTyped /\ SessionsFiled /\ ChangesInv

LEMMA RemoveAtProperties ==
  ASSUME NEW S, NEW s \in Seq(S), NEW i \in 1..Len(s)
  PROVE  /\ RemoveAt(s, i) \in Seq(S)
         /\ Len(RemoveAt(s, i)) = Len(s) - 1
         /\ \A j \in 1..(Len(s) - 1) : RemoveAt(s, i)[j] = s[IF j < i THEN j ELSE j + 1]
<1> DEFINE front == SubSeq(s, 1, i - 1)
           back == SubSeq(s, i + 1, Len(s))
<1>0. Len(s) \in Nat /\ i \in Nat /\ i >= 1 /\ i <= Len(s)
  OBVIOUS
<1>1. front \in Seq(S) /\ Len(front) = i - 1 /\ \A j \in 1..(i - 1) : front[j] = s[j]
  BY <1>0, SubSeqProperties
<1>2. back \in Seq(S) /\ Len(back) = Len(s) - i /\ \A j \in 1..(Len(s) - i) : back[j] = s[i + j]
  BY <1>0, SubSeqProperties
<1>3. RemoveAt(s, i) = front \o back
  BY DEF RemoveAt
<1> HIDE DEF front, back
<1>4. front \o back \in Seq(S) /\ Len(front \o back) = Len(s) - 1
  <2>1. Len(front) + Len(back) = Len(s) - 1
    BY <1>0, <1>1, <1>2
  <2> QED
    BY <1>1, <1>2, <2>1, ConcatProperties, Zenon
<1>5. ASSUME NEW j \in 1..(Len(s) - 1)
      PROVE  (front \o back)[j] = s[IF j < i THEN j ELSE j + 1]
  <2>1. (front \o back)[j] = IF j <= i - 1 THEN front[j] ELSE back[j - (i - 1)]
    BY <1>0, <1>1, <1>2, ConcatProperties
  <2>2. CASE j < i
    BY <1>0, <1>1, <2>1, <2>2
  <2>3. CASE ~(j < i)
    <3>1. j - (i - 1) \in 1..(Len(s) - i) /\ i + (j - (i - 1)) = j + 1
      BY <1>0, <2>3
    <3>2. back[j - (i - 1)] = s[j + 1]
      BY <1>2, <3>1
    <3> QED
      BY <1>0, <2>1, <2>3, <3>2
  <2> QED
    BY <2>2, <2>3
<1> QED
  BY <1>3, <1>4, <1>5

(* What a put leaves: the new entry last, and of the others those of other *)
(* queries, as they were.                                                  *)
LEMMA PutKeepsCache ==
  ASSUME CacheInv, NEW q \in Queries, NEW rows \in SUBSET Ids, Put(q, rows)
  PROVE  CacheInv'
<1> USE DirectoryConstantsAssumption DEF CacheInv, CacheTyped
<1> DEFINE new == [query |-> q, rows |-> rows, fresh |-> TRUE]
           rest == Without(q)
           all == Append(rest, new)
<1>1. new \in Entry /\ new.query = q
  BY DEF Entry
<1>2. /\ rest \in Seq(Entry) /\ Len(rest) <= MaxEntries
      /\ \A j \in 1..Len(rest) : rest[j].query # q /\ rest[j].query \in clearedAt.since
      /\ \A j, k \in 1..Len(rest) : rest[j].query = rest[k].query => j = k
  <2>0. entries \in Seq(Entry) /\ DOMAIN entries = 1..Len(entries) /\ Len(entries) \in Nat
    OBVIOUS
  <2>1. CASE \E i \in DOMAIN entries : entries[i].query = q
    <3> DEFINE i == CHOOSE i \in DOMAIN entries : entries[i].query = q
    <3>1. i \in 1..Len(entries) /\ entries[i].query = q
      BY <2>0, <2>1
    <3>2. rest = RemoveAt(entries, i)
      BY <2>1 DEF Without
    <3> HIDE DEF i, rest
    <3>3. /\ rest \in Seq(Entry) /\ Len(rest) = Len(entries) - 1
          /\ \A j \in 1..(Len(entries) - 1) : rest[j] = entries[IF j < i THEN j ELSE j + 1]
      <4> HIDE DEF Entry
      <4>1. entries \in Seq(Entry)
        BY <2>0
      <4> QED
        BY <4>1, <3>1, <3>2, RemoveAtProperties, Zenon
    <3>4. \A j \in 1..Len(rest) : /\ (IF j < i THEN j ELSE j + 1) \in DOMAIN entries \ {i}
                                  /\ rest[j] = entries[IF j < i THEN j ELSE j + 1]
      BY <2>0, <3>1, <3>3
    <3>5. \A k \in DOMAIN entries \ {i} : entries[k].query # q /\ entries[k].query \in clearedAt.since
      BY <3>1, <2>0 DEF CacheInv, OneEntryEach, EntriesSince
    <3>6. \A j \in 1..Len(rest) : rest[j].query # q /\ rest[j].query \in clearedAt.since
      BY <3>4, <3>5
    <3>7. ASSUME NEW j \in 1..Len(rest), NEW k \in 1..Len(rest), rest[j].query = rest[k].query
          PROVE  j = k
      <4>1. (IF j < i THEN j ELSE j + 1) = (IF k < i THEN k ELSE k + 1)
        BY <3>4, <3>7 DEF CacheInv, OneEntryEach
      <4> QED
        BY <4>1, <3>1, <3>3
    <3> QED
      BY <3>3, <3>6, <3>7
  <2>2. CASE ~ \E i \in DOMAIN entries : entries[i].query = q
    BY <2>0, <2>2 DEF Without, CacheInv, OneEntryEach, EntriesSince
  <2> QED
    BY <2>1, <2>2
<1> HIDE DEF rest, new
<1>3. /\ all \in Seq(Entry) /\ Len(all) = Len(rest) + 1
      /\ \A j \in 1..Len(all) : all[j] = IF j = Len(all) THEN new ELSE rest[j]
  BY <1>1, <1>2
<1>4. \A j \in 1..Len(all) : all[j].query \in clearedAt.since \cup {q}
  BY <1>1, <1>2, <1>3
<1>5. \A j, k \in 1..Len(all) : all[j].query = all[k].query => j = k
  BY <1>1, <1>2, <1>3
<1>6. entries' = Pruned(all) /\ clearedAt' = [clearedAt EXCEPT !.since = @ \cup {q}]
  BY DEF Put, rest, new
<1> HIDE DEF all
<1>7. /\ Pruned(all) \in Seq(Entry) /\ Len(Pruned(all)) <= MaxEntries
      /\ \A j \in DOMAIN Pruned(all) : Pruned(all)[j].query \in clearedAt.since \cup {q}
      /\ \A j, k \in DOMAIN Pruned(all) : Pruned(all)[j].query = Pruned(all)[k].query => j = k
  <2>1. CASE Len(all) > MaxEntries
    <3>1. Pruned(all) = Tail(all) /\ all # <<>>
      BY <2>1, <1>3 DEF Pruned
    <3>2. /\ Tail(all) \in Seq(Entry) /\ Len(Tail(all)) = Len(all) - 1
          /\ \A j \in 1..Len(Tail(all)) : Tail(all)[j] = all[j + 1]
      BY <3>1, <1>3, HeadTailProperties
    <3> QED
      BY <1>2, <1>3, <1>4, <1>5, <3>1, <3>2
  <2>2. CASE ~(Len(all) > MaxEntries)
    BY <1>2, <1>3, <1>4, <1>5, <2>2 DEF Pruned
  <2> QED
    BY <2>1, <2>2
<1>8. clearedAt' \in [since : SUBSET Queries, upstream : BOOLEAN] /\ clearedAt'.since = clearedAt.since \cup {q}
  BY <1>6
<1> QED
  BY <1>6, <1>7, <1>8 DEF CacheInv, OneEntryEach, EntriesSince

LEMMA DirectoryStart == DirectoryInit => DirectoryInv
BY DirectoryConstantsAssumption, EmptySeq
   DEF DirectoryInit, DirectoryInv, SessionsFiled, CacheInv, CacheTyped, OneEntryEach, EntriesSince,
       ChangesInv, ChangesTyped, CopyIsDone, DeletedUnfiled, ListsTyped, ListTyped, IdleList, IdleChange, Entry

LEMMA DirectoryInvImplies == DirectoryInv => DirectoryIsSound
BY DEF DirectoryInv, DirectoryIsSound, SessionsFiled, CacheTyped, ChangesInv, ChangesTyped, ListsTyped, DirectoryTypeOK, DirectoryFollowsChanges,
       CachedSinceInvalidation, DeletedHasNoCategory, CacheInv, OneEntryEach, EntriesSince, DeletedUnfiled,
       ListTyped, Entry

LEMMA DirectoryStep ==
  ASSUME DirectoryInv, [DirectoryNext]_directoryVars
  PROVE  DirectoryInv'
<1> USE DirectoryConstantsAssumption DEF DirectoryInv
<1>1. CacheInv /\ ListsTyped /\ SessionsFiled /\ ChangesInv
  BY DEF DirectoryInv
<1>c. UNCHANGED <<entries, clearedAt>> => CacheInv'
  BY <1>1 DEF CacheInv, CacheTyped, OneEntryEach, EntriesSince
<1>l. UNCHANGED lists => ListsTyped'
  BY <1>1 DEF ListsTyped, ListTyped
<1>f. UNCHANGED <<live, category>> => SessionsFiled'
  BY <1>1 DEF SessionsFiled
<1>d. UNCHANGED <<changes, category>> => ChangesInv'
  BY <1>1 DEF ChangesInv, ChangesTyped, CopyIsDone, DeletedUnfiled
<1>i. Invalidate => CacheInv'
  BY <1>1, EmptySeq DEF Invalidate, InvalidatedAll, CacheInv, CacheTyped, OneEntryEach, EntriesSince
<1>a. ASSUME NEW l \in Lists, NEW answer, Answered(l, answer)
      PROVE  ListsTyped'
  BY <1>1, <1>a DEF Answered, IdleList, ListsTyped, ListTyped
<1>3. ASSUME NEW l \in Lists, NEW q \in Queries, ServeFresh(l, q)
      PROVE  DirectoryInv'
  BY <1>1, <1>3, <1>f, <1>c, <1>d, <1>a DEF ServeFresh
<1>4. ASSUME NEW l \in Lists, NEW q \in Queries, NEW force, AskUpstream(l, q, force)
      PROVE  DirectoryInv'
  <2>1. ListsTyped'
    BY <1>1, <1>4 DEF AskUpstream, IdleList, ListTyped, ListsTyped
  <2>2. CacheInv'
    <3>1. /\ entries' = entries /\ clearedAt' = [clearedAt EXCEPT !.upstream = FALSE]
      BY <1>4 DEF AskUpstream
    <3>2. clearedAt' \in [since : SUBSET Queries, upstream : BOOLEAN] /\ clearedAt'.since = clearedAt.since
      BY <1>1, <3>1 DEF CacheInv, CacheTyped
    <3> QED
      BY <1>1, <3>1, <3>2 DEF CacheInv, CacheTyped, OneEntryEach, EntriesSince
  <2> QED
    BY <1>1, <1>4, <1>f, <1>d, <2>1, <2>2 DEF AskUpstream
<1>5. ASSUME NEW l \in Lists, ReadSessions(l)
      PROVE  DirectoryInv'
  <2>1. ListsTyped'
    BY <1>1, <1>5 DEF ReadSessions, ListTyped, ListsTyped, SessionsFiled
  <2> QED
    BY <1>1, <1>5, <1>f, <1>c, <1>d, <2>1 DEF ReadSessions
<1>6. ASSUME NEW l \in Lists, ListCompletes(l)
      PROVE  DirectoryInv'
  <2>1. /\ lists[l].query \in Queries /\ lists[l].rows \in SUBSET Ids
        /\ Put(lists[l].query, lists[l].rows)
    BY <1>1, <1>6 DEF ListCompletes, ListTyped, ListsTyped
  <2>2. CacheInv'
    BY <1>1, <2>1, PutKeepsCache
  <2> QED
    BY <1>1, <1>6, <1>f, <1>a, <1>d, <2>2 DEF ListCompletes
<1>7. ASSUME NEW l \in Lists, NEW final, ListFails(l, final)
      PROVE  DirectoryInv'
  BY <1>1, <1>7, <1>f, <1>a, <1>c, <1>d DEF ListFails
<1>8. CASE TtlPasses
  <2> DEFINE Old(i) == [entries[i] EXCEPT !.fresh = FALSE]
  <2>1. entries' = [i \in DOMAIN entries |-> Old(i)]
    BY <1>8 DEF TtlPasses, Expire
  <2>2. ASSUME NEW i \in DOMAIN entries
        PROVE  Old(i) \in Entry /\ Old(i).query = entries[i].query
    <3>1. entries[i] \in Entry
      <4> HIDE DEF Old
      <4> QED BY <1>1 DEF CacheInv, CacheTyped
    <3> QED
      BY <3>1 DEF Entry
  <2> HIDE DEF Old
  <2>3. entries' \in Seq(Entry) /\ Len(entries') = Len(entries) /\ DOMAIN entries' = DOMAIN entries
    BY <1>1, <2>1, <2>2 DEF CacheInv, CacheTyped
  <2>4. \A i \in DOMAIN entries : entries'[i].query = entries[i].query
    BY <2>1, <2>2
  <2>5. clearedAt' = clearedAt
    BY <1>8 DEF TtlPasses, Expire
  <2>6. CacheInv'
    BY <1>1, <2>3, <2>4, <2>5 DEF CacheInv, CacheTyped, OneEntryEach, EntriesSince
  <2> QED
    BY <1>1, <1>8, <1>f, <1>l, <1>d, <2>6 DEF TtlPasses, Expire
<1>9. ASSUME NEW c \in Changes, NEW kind \in Kinds, NEW id \in Ids, SendChange(c, kind, id)
      PROVE  DirectoryInv'
  <2>1. ChangesInv'
    BY <1>1, <1>9 DEF SendChange, ChangesInv, ChangesTyped, CopyIsDone, DeletedUnfiled, Kinds
  <2> QED
    BY <1>1, <1>9, <1>f, <1>c, <1>l, <2>1 DEF SendChange
<1>10. ASSUME NEW c \in Changes, ApplyChange(c)
       PROVE  DirectoryInv'
  <2>1. ChangesInv'
    BY <1>1, <1>10 DEF ApplyChange, ChangesInv, ChangesTyped, CopyIsDone, DeletedUnfiled, Kinds
  <2>2. SessionsFiled'
    BY <1>1, <1>10 DEF ApplyChange, SessionsFiled
  <2> QED
    BY <1>1, <1>10, <1>f, <1>c, <1>l, <2>1, <2>2 DEF ApplyChange
<1>11. ASSUME NEW c \in Changes, ChangeCompletes(c)
       PROVE  DirectoryInv'
  <2>1. ChangesInv'
    BY <1>1, <1>11 DEF ChangeCompletes, CategoryAfter, ChangesInv, ChangesTyped, CopyIsDone, DeletedUnfiled, Kinds
  <2>2. SessionsFiled'
    BY <1>1, <1>11 DEF ChangeCompletes, CategoryAfter, SessionsFiled
  <2> QED
    BY <1>1, <1>11, <1>f, <1>i, <1>l, <2>1, <2>2 DEF ChangeCompletes
<1>12. ASSUME NEW c \in Changes, ChangeFails(c)
       PROVE  DirectoryInv'
  <2>1. ChangesInv'
    BY <1>1, <1>12 DEF ChangeFails, IdleChange, ChangesInv, ChangesTyped, CopyIsDone, DeletedUnfiled, Kinds
  <2> QED
    BY <1>1, <1>12, <1>f, <1>c, <1>l, <2>1 DEF ChangeFails
<1>13. ASSUME NEW c \in Changes, NEW new \in Ids, CopyCategory(c, new)
       PROVE  DirectoryInv'
  <2>1. ChangesInv'
    BY <1>1, <1>13 DEF CopyCategory, ChangesInv, ChangesTyped, CopyIsDone, DeletedUnfiled, Kinds
  <2>2. SessionsFiled'
    BY <1>1, <1>13 DEF CopyCategory, SessionsFiled
  <2> QED
    BY <1>1, <1>13, <1>f, <1>c, <1>l, <2>1, <2>2 DEF CopyCategory
<1>14. ASSUME NEW id \in Ids, SetCategory(id)
       PROVE  DirectoryInv'
  <2>1. ChangesInv'
    BY <1>1, <1>14 DEF SetCategory, ChangesInv, ChangesTyped, CopyIsDone, DeletedUnfiled
  <2>2. SessionsFiled'
    BY <1>1, <1>14 DEF SetCategory, SessionsFiled
  <2> QED
    BY <1>1, <1>14, <1>f, <1>c, <1>l, <2>1, <2>2 DEF SetCategory
<1>15. CASE HermesChanges
  <2>1. SessionsFiled'
    BY <1>1, <1>15 DEF HermesChanges, SessionsFiled
  <2> QED
    BY <1>1, <1>15, <1>c, <1>l, <1>d, <2>1 DEF HermesChanges
<1>16. CASE SessionsChanged
  BY <1>1, <1>16, <1>f, <1>i, <1>l, <1>d DEF SessionsChanged
<1>17. CASE RestartDirectory
  <2>1. ListsTyped'
    BY <1>1, <1>17 DEF RestartDirectory, IdleList, ListTyped, ListsTyped
  <2>2. ChangesInv'
    <3> DEFINE Lost(c) == IF changes[c].state \in {"sent", "applied"}
                          THEN [IdleChange EXCEPT !.state = "failed"] ELSE changes[c]
    <3>1. changes' = [c \in Changes |-> Lost(c)]
      BY <1>17 DEF RestartDirectory
    <3>2. \A c \in Changes :
            /\ Lost(c) \in [state : {"idle", "sent", "applied", "ok", "failed"},
                            kind : Kinds \cup {"none", "copied"}, id : Ids \cup {"none"}]
            /\ Lost(c) = changes[c] \/ (Lost(c).state = "failed" /\ Lost(c).kind = "none")
      BY <1>1 DEF IdleChange, ChangesInv, ChangesTyped
    <3>3. \A c \in Changes : changes[c].kind = "copied" => Lost(c) = changes[c]
      BY <1>1 DEF ChangesInv, CopyIsDone
    <3> HIDE DEF Lost
    <3>4. category' = category
      BY <1>17 DEF RestartDirectory
    <3>5. ChangesTyped' /\ \A c \in Changes : changes'[c] = Lost(c)
      BY <3>1, <3>2 DEF ChangesTyped
    <3> QED
      BY <1>1, <3>2, <3>3, <3>4, <3>5 DEF ChangesInv, ChangesTyped, CopyIsDone, DeletedUnfiled
  <2> QED
    BY <1>1, <1>17, <1>f, <1>c, <2>1, <2>2 DEF RestartDirectory
<1>18. CASE UNCHANGED directoryVars
  BY <1>1, <1>18, <1>f, <1>c, <1>l, <1>d DEF directoryVars
<1> HIDE DEF DirectoryInv
<1>19. DirectoryInv'
  BY <1>3, <1>4, <1>5, <1>6, <1>7, <1>8, <1>9, <1>10, <1>11, <1>12, <1>13, <1>14, <1>15, <1>16, <1>17, <1>18
     DEF DirectoryNext
<1> QED
  BY <1>19

(* Whatever the requests that were under way had read, what the cache of   *)
(* session lists holds was put there since the last invalidation, once for *)
(* each query, and a deleted session has no category.                      *)
THEOREM DirectoryAlwaysSound == DirectorySpec => []DirectoryIsSound
<1>1. DirectoryInit => DirectoryInv
  BY DirectoryStart
<1>2. DirectoryInv /\ [DirectoryNext]_directoryVars => DirectoryInv'
  BY DirectoryStep
<1>3. DirectoryInv => DirectoryIsSound
  BY DirectoryInvImplies
<1> QED
  BY <1>1, <1>2, <1>3, PTL DEF DirectorySpec

-----------------------------------------------------------------------------
(* Pages.  A walk that is under way has the end of one transcript, and its *)
(* cursor says where that begins; a client that knows a revision has kept  *)
(* the transcript of it.                                                   *)

Reading == [got : Seq(Sizes), cursor : [offset : Nat, revision : 0..Revision], revision : 0..Revision,
         state : {"new", "walking", "done"}, kept : Seq(Sizes)]

PagingTyped ==
    /\ transcripts \in Seq(Seq(Sizes)) /\ Revision \in 1..MaxRevision
    /\ reader \in Reading

WalkHasTheEnd ==
    reader.state = "walking" =>
        LET rows == transcripts[reader.revision]
        IN  /\ reader.revision > 0 /\ reader.cursor.revision = reader.revision
            /\ reader.cursor.offset \in 1..Len(rows)
            /\ reader.got = SubSeq(rows, Len(rows) - reader.cursor.offset + 1, Len(rows))

NewKnowsWhatItKept ==
    reader.state = "new" =>
        /\ reader.cursor = NoCursor /\ reader.got = <<>>
        /\ reader.revision > 0 => reader.kept = transcripts[reader.revision]

DoneHasAll ==
    reader.state = "done" =>
        /\ reader.cursor = NoCursor /\ reader.revision > 0
        /\ reader.got = transcripts[reader.revision]

PagingInv == PagingTyped /\ WalkHasTheEnd /\ NewKnowsWhatItKept /\ DoneHasAll

(* A set of naturals that is not empty has a least member. *)
LEMMA LeastNat ==
  ASSUME NEW T \in SUBSET Nat, T # {}
  PROVE  \E n \in T : \A m \in T : n <= m
<1>1. PICK x \in T : \A y \in T : ~ (<<y, x>> \in OpToRel(<, Nat))
  BY NatLessThanWellFounded, WFMin
<1>2. \A y \in T : ~(y < x)
  BY <1>1 DEF OpToRel
<1> QED
  BY <1>2

(* There is always a page: one message fits, whatever its size. *)
LEMMA PageStartProperties ==
  ASSUME NEW rows, NEW end \in Nat
  PROVE  LET s == PageStart(rows, end)
         IN  /\ s \in 0..end /\ end - s <= PageLimit
             /\ end > 0 => s < end
<1> USE PagingConstantsAssumption
<1> DEFINE T == {t \in 0..end : Fits(rows, t, end)}
<1>1. end \in T
  BY DEF Fits
<1>2. PICK n \in T : \A m \in T : n <= m
  <2>1. T \in SUBSET Nat
    OBVIOUS
  <2> HIDE DEF T
  <2> QED
    BY <1>1, <2>1, LeastNat, Zenon
<1>3. \E s \in 0..end : Fits(rows, s, end) /\ \A t \in 0..end : Fits(rows, t, end) => s <= t
  BY <1>2
<1> DEFINE s == PageStart(rows, end)
<1>4. s \in 0..end /\ Fits(rows, s, end) /\ \A t \in 0..end : Fits(rows, t, end) => s <= t
  BY <1>3 DEF PageStart
<1>5. end > 0 => Fits(rows, end - 1, end)
  BY DEF Fits
<1>6. end - s <= PageLimit
  BY <1>4 DEF Fits
<1> HIDE DEF s
<1>7. end > 0 => s < end
  BY <1>4, <1>5
<1> QED
  BY <1>4, <1>6, <1>7 DEF s

(* What a page is made of: the messages from `start' to those the client   *)
(* has, at least one of them if there is any.                              *)
LEMMA PageProperties ==
  ASSUME NEW rows \in Seq(Sizes), NEW offset \in Nat
  PROVE  LET page == PageAt(rows, offset)
             end == IF offset > Len(rows) THEN 0 ELSE Len(rows) - offset
         IN  \E start \in 0..end :
               /\ end - start <= PageLimit /\ (end > 0 => start < end)
               /\ page.items = SubSeq(rows, start + 1, end)
               /\ page.more <=> start > 0
               /\ page.loaded = Len(rows) - start
               /\ start > 0 => page.next = Len(rows) - start
<1> DEFINE skipped == IF offset > Len(rows) THEN Len(rows) ELSE offset
           end == IF offset > Len(rows) THEN 0 ELSE Len(rows) - offset
           start == PageStart(rows, end)
<1>1. Len(rows) \in Nat
  OBVIOUS
<1>2. end = Len(rows) - skipped /\ end \in Nat /\ skipped \in Nat
  BY <1>1
<1>3. start \in 0..end /\ end - start <= PageLimit /\ (end > 0 => start < end)
  BY <1>2, PageStartProperties
<1>4. skipped + end - start = Len(rows) - start
  BY <1>1, <1>2, <1>3
<1> DEFINE items == SubSeq(rows, start + 1, end)
           more == start > 0
           loaded == skipped + end - start
           next == IF start > 0 THEN loaded ELSE 0
<1>5. PageAt(rows, offset) = [items |-> items, more |-> more, loaded |-> loaded, next |-> next]
  BY <1>2 DEF PageAt
<1> HIDE DEF items, more, loaded, next, start, skipped, end
<1>6. /\ PageAt(rows, offset).items = items /\ PageAt(rows, offset).more = more
      /\ PageAt(rows, offset).loaded = loaded /\ PageAt(rows, offset).next = next
  BY <1>5
<1>7. /\ PageAt(rows, offset).items = SubSeq(rows, start + 1, end)
      /\ PageAt(rows, offset).loaded = Len(rows) - start
      /\ start > 0 => PageAt(rows, offset).next = Len(rows) - start
  BY <1>4, <1>6 DEF items, loaded, next
<1>8. PageAt(rows, offset).more <=> start > 0
  BY <1>6, Zenon DEF more
<1> QED
  BY <1>3, <1>7, <1>8 DEF end

(* A page in front of what came before it makes a longer end.              *)
LEMMA PageBeforeEnd ==
  ASSUME NEW S, NEW rows \in Seq(S), NEW start \in Nat, NEW end \in Nat, start <= end, end <= Len(rows)
  PROVE  SubSeq(rows, start + 1, end) \o SubSeq(rows, end + 1, Len(rows))
            = SubSeq(rows, start + 1, Len(rows))
<1> DEFINE front == SubSeq(rows, start + 1, end)
           back == SubSeq(rows, end + 1, Len(rows))
           both == SubSeq(rows, start + 1, Len(rows))
           n == Len(rows)
<1>0. n \in Nat /\ end <= n
  OBVIOUS
<1>1. front \in Seq(S) /\ Len(front) = end - start /\ \A i \in 1..(end - start) : front[i] = rows[start + i]
  <2>1. \A i \in (start + 1)..end : rows[i] \in S
    BY <1>0
  <2> QED
    BY <1>0, <2>1, SubSeqProperties
<1>2. back \in Seq(S) /\ Len(back) = n - end /\ \A i \in 1..(n - end) : back[i] = rows[end + i]
  <2>1. \A i \in (end + 1)..n : rows[i] \in S
    BY <1>0
  <2> QED
    BY <1>0, <2>1, SubSeqProperties
<1>3. both \in Seq(S) /\ Len(both) = n - start /\ \A i \in 1..(n - start) : both[i] = rows[start + i]
  <2>1. \A i \in (start + 1)..n : rows[i] \in S
    BY <1>0
  <2> QED
    BY <1>0, <2>1, SubSeqProperties
<1> HIDE DEF front, back, both, n
<1>4. front \o back \in Seq(S)
  BY <1>1, <1>2, ConcatProperties, Zenon
<1>5. Len(front \o back) = Len(front) + Len(back)
  BY <1>1, <1>2, ConcatProperties, Zenon
<1>6. Len(front \o back) = n - start
  BY <1>0, <1>1, <1>2, <1>5
<1>7. ASSUME NEW i \in 1..(n - start)
      PROVE  (front \o back)[i] = both[i]
  <2>1. i \in 1..(Len(front) + Len(back))
    BY <1>0, <1>1, <1>2
  <2>2. (front \o back)[i] = IF i <= Len(front) THEN front[i] ELSE back[i - Len(front)]
    BY <1>1, <1>2, <2>1, ConcatProperties
  <2>3. CASE i <= end - start
    BY <1>0, <1>1, <1>3, <2>2, <2>3
  <2>4. CASE ~(i <= end - start)
    <3>1. i - (end - start) \in 1..(n - end) /\ end + (i - (end - start)) = start + i
      BY <1>0, <2>4
    <3>2. back[i - (end - start)] = rows[start + i]
      BY <1>2, <3>1
    <3> QED
      BY <1>1, <1>3, <2>2, <2>4, <3>2
  <2> QED
    BY <2>3, <2>4
<1>8. front \o back = both
  BY <1>3, <1>4, <1>6, <1>7, SeqEqual
<1> QED
  BY <1>8 DEF front, back, both, n

LEMMA PagingStart == PagingInit => PagingInv
<1> SUFFICES ASSUME PagingInit PROVE PagingInv
  OBVIOUS
<1>1. PICK n \in 0..MaxHistory : \E rows \in [1..n -> Sizes] : transcripts = <<rows>>
  BY DEF PagingInit
<1>2. PICK rows \in [1..n -> Sizes] : transcripts = <<rows>>
  BY <1>1
<1>3. rows \in Seq(Sizes)
  BY PagingConstantsAssumption
<1>4. transcripts \in Seq(Seq(Sizes)) /\ Revision = 1
  BY <1>2, <1>3 DEF Revision
<1>5. reader = [got |-> <<>>, cursor |-> NoCursor, revision |-> 0, state |-> "new", kept |-> <<>>]
  BY DEF PagingInit
<1>6. NoCursor = [offset |-> 0, revision |-> 0] /\ <<>> \in Seq(Sizes)
  BY EmptySeq DEF NoCursor, Cursor
<1>7. reader \in Reading
  BY <1>4, <1>5, <1>6 DEF Reading
<1> QED
  BY <1>4, <1>5, <1>7, PagingConstantsAssumption
     DEF PagingInv, PagingTyped, WalkHasTheEnd, NewKnowsWhatItKept, DoneHasAll

(* Transcripts are only added: what a walk refers to stays.                *)
LEMMA TranscriptsAreAdded ==
  ASSUME PagingTyped, TranscriptChanges
  PROVE  /\ transcripts' \in Seq(Seq(Sizes)) /\ Revision' \in 1..MaxRevision
         /\ Revision' = Revision + 1
         /\ \A r \in 1..Revision : transcripts'[r] = transcripts[r]
<1> USE PagingConstantsAssumption
<1> DEFINE now == Last(transcripts)
<1>1. transcripts \in Seq(Seq(Sizes)) /\ Revision = Len(transcripts) /\ Revision \in 1..MaxRevision
  BY DEF PagingTyped, Revision
<1>2. now = transcripts[Len(transcripts)] /\ now \in Seq(Sizes)
  BY <1>1 DEF Last
<1>3. PICK x \in Sizes \cup {0} :
        /\ x = 0 => now # <<>>
        /\ transcripts' = Append(transcripts, IF x = 0 THEN Front(now) ELSE Append(now, x))
  BY DEF TranscriptChanges
<1> HIDE DEF now
<1>4. (IF x = 0 THEN Front(now) ELSE Append(now, x)) \in Seq(Sizes)
  <2>1. CASE x = 0
    <3>1. Len(now) \in Nat /\ \A i \in 1..(Len(now) - 1) : now[i] \in Sizes
      BY <1>2
    <3>2. SubSeq(now, 1, Len(now) - 1) \in Seq(Sizes)
      BY <3>1, SubSeqProperties
    <3> QED
      BY <2>1, <3>2 DEF Front
  <2>2. CASE x # 0
    BY <1>2, <2>2
  <2> QED
    BY <2>1, <2>2
<1>5. PICK new \in Seq(Sizes) : transcripts' = Append(transcripts, new)
  BY <1>3, <1>4
<1>6. Revision < MaxRevision
  BY DEF TranscriptChanges
<1>7. transcripts' \in Seq(Seq(Sizes)) /\ Len(transcripts') = Len(transcripts) + 1
  BY <1>1, <1>5
<1>8. Revision' = Revision + 1
  BY <1>1, <1>7 DEF Revision
<1>9. \A r \in 1..Revision : transcripts'[r] = transcripts[r]
  BY <1>1, <1>5
<1> QED
  BY <1>1, <1>6, <1>7, <1>8, <1>9

LEMMA PagingStep ==
  ASSUME PagingInv, [PagingNext]_pagingVars
  PROVE  PagingInv'
<1> USE PagingConstantsAssumption
<1>1. PagingTyped /\ WalkHasTheEnd /\ NewKnowsWhatItKept /\ DoneHasAll
  BY DEF PagingInv
<1>2. /\ transcripts \in Seq(Seq(Sizes)) /\ Revision = Len(transcripts) /\ Revision \in 1..MaxRevision
      /\ \A r \in 1..Revision : transcripts[r] \in Seq(Sizes)
      /\ reader \in Reading
  BY <1>1 DEF PagingTyped, Revision
<1>3. /\ NoCursor = [offset |-> 0, revision |-> 0] /\ <<>> \in Seq(Sizes)
      /\ NoCursor \in [offset : Nat, revision : 0..Revision]
  BY <1>2, EmptySeq DEF NoCursor, Cursor
<1>w. ASSUME NEW got \in Seq(Sizes), NEW cursor \in [offset : Nat, revision : 0..Revision],
             NEW revision \in 0..Revision, NEW state \in {"new", "walking", "done"}
      PROVE  [reader EXCEPT !.got = got, !.cursor = cursor, !.revision = revision, !.state = state] \in Reading
  BY <1>2 DEF Reading
<1>4. ASSUME UNCHANGED transcripts, reader' \in Reading, WalkHasTheEnd', NewKnowsWhatItKept', DoneHasAll'
      PROVE  PagingInv'
  <2>1. Revision' = Revision
    BY <1>4 DEF Revision
  <2>2. Reading' = Reading
    BY <2>1 DEF Reading
  <2> QED
    BY <1>2, <1>4, <2>1, <2>2 DEF PagingInv, PagingTyped
<1>5. CASE TranscriptChanges
  <2>1. /\ transcripts' \in Seq(Seq(Sizes)) /\ Revision' \in 1..MaxRevision /\ Revision' = Revision + 1
        /\ \A r \in 1..Revision : transcripts'[r] = transcripts[r]
    BY <1>1, <1>5, TranscriptsAreAdded
  <2>2. reader' = reader
    BY <1>5 DEF TranscriptChanges
  <2>3. reader.revision \in 0..Revision
    BY <1>2 DEF Reading
  <2>4. reader' \in Reading'
    BY <1>2, <2>1, <2>2 DEF Reading
  <2>5. reader.revision > 0 => transcripts'[reader.revision] = transcripts[reader.revision]
    BY <1>2, <2>1, <2>3
  <2>6. WalkHasTheEnd' /\ NewKnowsWhatItKept' /\ DoneHasAll'
    BY <1>1, <2>2, <2>5 DEF WalkHasTheEnd, NewKnowsWhatItKept, DoneHasAll
  <2> QED
    BY <2>1, <2>4, <2>6 DEF PagingInv, PagingTyped
<1>6. CASE NextPage
  <2>1. PICK r \in {Revision, reader.cursor.revision} \ {0} :
          LET page == PageAt(transcripts[r], reader.cursor.offset)
              cached == NotModified(reader.cursor.offset, reader.revision, r)
          IN  reader' =
                IF ~SameSnapshot(reader.cursor, r)
                THEN [reader EXCEPT !.state = "new", !.cursor = NoCursor, !.got = <<>>, !.revision = 0]
                ELSE IF cached
                THEN [reader EXCEPT !.state = "done", !.got = reader.kept, !.revision = r]
                ELSE [reader EXCEPT !.got = page.items \o reader.got,
                                    !.cursor = IF page.more THEN Cursor(page.next, r) ELSE NoCursor,
                                    !.revision = r,
                                    !.state = IF page.more THEN "walking" ELSE "done"]
    BY <1>6 DEF NextPage
  <2>2. r \in 1..Revision /\ transcripts[r] \in Seq(Sizes)
    BY <1>2 DEF Reading
  <2>3. transcripts' = transcripts /\ reader.state \in {"new", "walking"}
    BY <1>6 DEF NextPage
  <2> DEFINE rows == transcripts[r]
             offset == reader.cursor.offset
  <2>4. CASE ~SameSnapshot(reader.cursor, r)
    <3>1. reader' = [reader EXCEPT !.state = "new", !.cursor = NoCursor, !.got = <<>>, !.revision = 0]
      BY <2>1, <2>4
    <3>2. reader' \in Reading
      <4>1. reader' = [reader EXCEPT !.got = <<>>, !.cursor = NoCursor, !.revision = 0, !.state = "new"]
        BY <3>1
      <4>2. 0 \in 0..Revision
        BY <1>2
      <4> QED
        BY <1>3, <1>w, <4>1, <4>2
    <3>3. reader'.state = "new" /\ reader'.cursor = NoCursor /\ reader'.got = <<>> /\ reader'.revision = 0
      BY <1>2, <3>1 DEF Reading
    <3> QED
      BY <1>4, <2>3, <3>2, <3>3 DEF WalkHasTheEnd, NewKnowsWhatItKept, DoneHasAll
  <2>5. CASE SameSnapshot(reader.cursor, r) /\ NotModified(offset, reader.revision, r)
    <3>1. reader' = [reader EXCEPT !.state = "done", !.got = reader.kept, !.revision = r]
      BY <2>1, <2>5
    <3>2. offset = 0 /\ reader.revision = r
      BY <2>5 DEF NotModified
    <3>3. reader.state = "new"
      BY <1>1, <2>3, <3>2 DEF WalkHasTheEnd
    <3>4. reader.cursor = NoCursor /\ reader.kept = rows
      BY <1>1, <2>2, <3>2, <3>3 DEF NewKnowsWhatItKept
    <3>5. reader' \in Reading
      <4>1. reader.kept \in Seq(Sizes) /\ r \in 0..Revision
        BY <1>2, <2>2 DEF Reading
      <4> QED
        BY <1>2, <3>1, <4>1 DEF Reading
    <3>6. reader'.state = "done" /\ reader'.cursor = NoCursor /\ reader'.got = rows /\ reader'.revision = r
      BY <1>2, <3>1, <3>4 DEF Reading
    <3> QED
      BY <1>4, <2>2, <2>3, <3>5, <3>6 DEF WalkHasTheEnd, NewKnowsWhatItKept, DoneHasAll
  <2>6. CASE SameSnapshot(reader.cursor, r) /\ ~NotModified(offset, reader.revision, r)
    <3> DEFINE page == PageAt(rows, offset)
               end == Len(rows) - offset
    <3>1. reader' = [reader EXCEPT !.got = page.items \o reader.got,
                                   !.cursor = IF page.more THEN Cursor(page.next, r) ELSE NoCursor,
                                   !.revision = r,
                                   !.state = IF page.more THEN "walking" ELSE "done"]
      BY <2>1, <2>6
    <3>2. offset \in 0..Len(rows) /\ reader.got = SubSeq(rows, end + 1, Len(rows))
      <4>1. CASE reader.state = "new"
        <5>1. offset = 0 /\ reader.got = <<>>
          BY <1>1, <1>3, <4>1 DEF NewKnowsWhatItKept
        <5>2. Len(rows) \in Nat
          BY <2>2
        <5>3. SubSeq(rows, Len(rows) + 1, Len(rows)) = <<>>
          BY <5>2, SubSeqEmpty
        <5>4. end = Len(rows) /\ offset \in 0..Len(rows)
          BY <5>1, <5>2
        <5> HIDE DEF end, offset, rows
        <5> QED
          BY <5>1, <5>3, <5>4
      <4>2. CASE reader.state = "walking"
        <5>1. reader.cursor.revision = reader.revision /\ reader.revision > 0
          BY <1>1, <4>2 DEF WalkHasTheEnd
        <5>2. reader.revision = r
          BY <5>1, <2>6 DEF SameSnapshot
        <5> QED
          BY <1>1, <4>2, <5>2 DEF WalkHasTheEnd
      <4> QED
        BY <2>3, <4>1, <4>2
    <3>3. Len(rows) \in Nat /\ offset \in Nat /\ end \in 0..Len(rows)
      BY <2>2, <3>2
    <3>4. PICK start \in 0..end :
            /\ end > 0 => start < end
            /\ page.items = SubSeq(rows, start + 1, end)
            /\ page.more <=> start > 0
            /\ start > 0 => page.next = Len(rows) - start
      <4>1. (IF offset > Len(rows) THEN 0 ELSE Len(rows) - offset) = end
        BY <3>2, <3>3
      <4>2. rows \in Seq(Sizes)
        BY <2>2
      <4> HIDE DEF end, offset, rows
      <4> QED
        BY <3>3, <4>1, <4>2, PageProperties, Zenon
    <3> HIDE DEF page
    <3>5. page.items \o reader.got = SubSeq(rows, start + 1, Len(rows))
      <4>1. rows \in Seq(Sizes) /\ start \in Nat /\ end \in Nat /\ start <= end /\ end <= Len(rows)
        BY <2>2, <3>3, <3>4
      <4> HIDE DEF end, offset, rows
      <4> QED
        BY <3>2, <3>4, <4>1, PageBeforeEnd
    <3>6. SubSeq(rows, start + 1, Len(rows)) \in Seq(Sizes)
      <4>1. \A i \in (start + 1)..Len(rows) : rows[i] \in Sizes
        BY <2>2, <3>3, <3>4
      <4>2. start + 1 \in Int /\ Len(rows) \in Int
        BY <3>3, <3>4
      <4> HIDE DEF end, offset, rows
      <4> QED
        BY <4>1, <4>2, SubSeqProperties
    <3>7. CASE start > 0
      <4>1. page.next = Len(rows) - start /\ page.next \in 1..Len(rows)
        BY <3>3, <3>4, <3>7
      <4>2. Cursor(page.next, r) = [offset |-> page.next, revision |-> r]
        BY DEF Cursor
      <4>3. reader' = [reader EXCEPT !.got = SubSeq(rows, start + 1, Len(rows)),
                                     !.cursor = [offset |-> page.next, revision |-> r],
                                     !.revision = r, !.state = "walking"]
        BY <3>1, <3>4, <3>5, <3>7, <4>2
      <4> HIDE DEF end, rows
      <4>4. /\ reader'.state = "walking" /\ reader'.revision = r
            /\ reader'.cursor = [offset |-> page.next, revision |-> r]
            /\ reader'.got = SubSeq(rows, start + 1, Len(rows))
        BY <1>2, <4>3 DEF Reading
      <4>5. reader' \in Reading
        <5>1. [offset |-> page.next, revision |-> r] \in [offset : Nat, revision : 0..Revision]
          BY <2>2, <4>1
        <5> QED
          BY <1>2, <2>2, <3>6, <4>3, <5>1 DEF Reading
      <4>6. Len(rows) - page.next = start
        BY <3>3, <3>4, <4>1
      <4>7. WalkHasTheEnd'
        BY <2>2, <2>3, <4>1, <4>4, <4>6 DEF WalkHasTheEnd, rows
      <4> QED
        BY <1>4, <2>3, <4>4, <4>5, <4>7 DEF NewKnowsWhatItKept, DoneHasAll
    <3>8. CASE ~(start > 0)
      <4>1. start = 0
        BY <3>4, <3>8
      <4>2. SubSeq(rows, start + 1, Len(rows)) = rows
        BY <2>2, <4>1, SubSeqFull
      <4>3. reader' = [reader EXCEPT !.got = rows, !.cursor = NoCursor, !.revision = r, !.state = "done"]
        BY <3>1, <3>4, <3>5, <3>8, <4>2
      <4> HIDE DEF end, rows
      <4>4. /\ reader'.state = "done" /\ reader'.revision = r
            /\ reader'.cursor = NoCursor /\ reader'.got = rows
        BY <1>2, <4>3 DEF Reading
      <4>5. reader' \in Reading
        <5>1. rows \in Seq(Sizes) /\ r \in 0..Revision
          BY <2>2 DEF rows
        <5> QED
          BY <1>3, <1>w, <4>3, <5>1
      <4> QED
        BY <1>4, <2>2, <2>3, <4>4, <4>5 DEF WalkHasTheEnd, NewKnowsWhatItKept, DoneHasAll, rows
    <3> QED
      BY <3>7, <3>8
  <2> QED
    BY <2>4, <2>5, <2>6
<1>7. CASE ReadAgain
  <2>1. /\ reader' = [reader EXCEPT !.state = "new", !.kept = reader.got, !.got = <<>>]
        /\ reader.state = "done" /\ transcripts' = transcripts
    BY <1>7 DEF ReadAgain
  <2>2. reader' \in Reading
    BY <1>2, <1>3, <2>1 DEF Reading
  <2>3. /\ reader'.state = "new" /\ reader'.kept = reader.got /\ reader'.got = <<>>
        /\ reader'.cursor = reader.cursor /\ reader'.revision = reader.revision
    BY <1>2, <2>1 DEF Reading
  <2> QED
    BY <1>1, <1>4, <2>1, <2>2, <2>3 DEF WalkHasTheEnd, NewKnowsWhatItKept, DoneHasAll
<1>8. CASE GiveUp
  <2>1. /\ reader' = [got |-> <<>>, cursor |-> NoCursor, revision |-> 0, state |-> "new", kept |-> <<>>]
        /\ transcripts' = transcripts
    BY <1>8 DEF GiveUp
  <2>2. reader' \in Reading
    BY <1>2, <1>3, <2>1 DEF Reading
  <2> QED
    BY <1>4, <2>1, <2>2 DEF WalkHasTheEnd, NewKnowsWhatItKept, DoneHasAll
<1>9. CASE UNCHANGED pagingVars
  BY <1>1, <1>2, <1>4, <1>9 DEF pagingVars, WalkHasTheEnd, NewKnowsWhatItKept, DoneHasAll
<1> QED
  BY <1>5, <1>6, <1>7, <1>8, <1>9 DEF PagingNext

LEMMA PagingInvImplies == PagingInv => PagingTypeOK /\ WalkIsOneTranscript /\ PagesAdvance
<1> SUFFICES ASSUME PagingInv PROVE PagingTypeOK /\ WalkIsOneTranscript /\ PagesAdvance
  OBVIOUS
<1> USE PagingConstantsAssumption
<1>1. PagingTypeOK
  BY DEF PagingInv, PagingTyped, PagingTypeOK, Reading
<1>2. WalkIsOneTranscript
  BY DEF PagingInv, DoneHasAll, WalkIsOneTranscript
<1>3. PagesAdvance
  <2> DEFINE rows == Last(transcripts)
  <2>1. rows \in Seq(Sizes) /\ Len(rows) \in Nat
    BY DEF PagingInv, PagingTyped, Revision, Last
  <2> HIDE DEF rows
  <2>2. ASSUME NEW offset \in 0..MaxHistory
        PROVE  LET page == PageAt(rows, offset)
               IN  /\ page.more => page.next > offset
                   /\ ~page.more => page.loaded = Len(rows)
                   /\ Len(page.items) <= PageLimit
    <3> DEFINE page == PageAt(rows, offset)
               end == IF offset > Len(rows) THEN 0 ELSE Len(rows) - offset
    <3>0. offset \in Nat /\ end \in Nat /\ end <= Len(rows)
      BY <2>1
    <3>1. PICK start \in 0..end :
               /\ end - start <= PageLimit /\ (end > 0 => start < end)
               /\ page.items = SubSeq(rows, start + 1, end)
               /\ page.more <=> start > 0
               /\ page.loaded = Len(rows) - start
               /\ start > 0 => page.next = Len(rows) - start
      BY <2>1, <3>0, PageProperties
    <3>2. Len(page.items) = IF start + 1 <= end THEN end - (start + 1) + 1 ELSE 0
      <4>1. \A i \in (start + 1)..end : rows[i] \in Sizes
        BY <2>1, <3>0, <3>1
      <4> HIDE DEF page, end
      <4> QED
        BY <3>0, <3>1, <4>1, SubSeqProperties
    <3> HIDE DEF page
    <3>3. Len(page.items) <= PageLimit
      BY <3>0, <3>1, <3>2
    <3>4. page.more => page.next > offset
      BY <2>1, <3>0, <3>1
    <3>5. ~page.more => page.loaded = Len(rows)
      BY <2>1, <3>0, <3>1
    <3> QED
      BY <3>3, <3>4, <3>5 DEF page
  <2> QED
    BY <2>2 DEF PagesAdvance, rows
<1> QED
  BY <1>1, <1>2, <1>3
-----------------------------------------------------------------------------
(* Syncs.  A call that is under way was made for a revision there was, and *)
(* what it has read is not older; a sync that waits has the call of its    *)
(* own base.                                                               *)

SyncTyped ==
    /\ commits \in 1..MaxCommits /\ head \in [rev : 0..MaxCommits, seen : 0..MaxCommits]
    /\ shared \in [0..MaxCommits -> [state : {"none", "asked", "read"}, rev : 0..MaxCommits]]
    /\ syncs \in [Syncs -> [state : {"idle", "waits", "done", "failed"}, base : 0..MaxCommits,
                            from : 0..MaxCommits, rev : 0..MaxCommits]]

CallsAreOfRevisions ==
    \A k \in 0..MaxCommits :
        /\ shared[k].state # "none" => k <= commits
        /\ shared[k].state = "read" => shared[k].rev >= k

WaitsForItsBase ==
    \A s \in Syncs : syncs[s].state = "waits" =>
        syncs[s].from = syncs[s].base /\ shared[syncs[s].from].state \in {"asked", "read"}

SyncInv == SyncTyped /\ CallsAreOfRevisions /\ WaitsForItsBase /\ SyncAnswersBase

LEMMA SyncStart == SyncInit => SyncInv
BY SyncConstantsAssumption
   DEF SyncInit, SyncInv, SyncTyped, CallsAreOfRevisions, WaitsForItsBase, SyncAnswersBase, NoCall

LEMMA SyncStep ==
  ASSUME SyncInv, [SyncNext]_syncVars
  PROVE  SyncInv'
<1> USE SyncConstantsAssumption
<1>1. SyncTyped /\ CallsAreOfRevisions /\ WaitsForItsBase /\ SyncAnswersBase
  BY DEF SyncInv
<1>2. CASE Commit
  BY <1>1, <1>2, SMTT(40) DEF Commit, SyncInv, SyncTyped, CallsAreOfRevisions, WaitsForItsBase, SyncAnswersBase
<1>3. CASE CommittedEvent
  <2>1. head' \in [rev : 0..MaxCommits, seen : 0..MaxCommits]
    BY <1>1, <1>3 DEF CommittedEvent, SyncTyped
  <2> QED
    BY <1>1, <1>3, <2>1
       DEF CommittedEvent, SyncInv, SyncTyped, CallsAreOfRevisions, WaitsForItsBase, SyncAnswersBase
<1>4. ASSUME NEW s \in Syncs, NEW b \in 0..MaxCommits, StartSync(s, b)
      PROVE  SyncInv'
  <2> DEFINE asks == [state |-> "waits", base |-> b, from |-> b, rev |-> 0]
  <2>1. syncs' = [syncs EXCEPT ![s] = asks] /\ b <= commits /\ UNCHANGED <<commits, head>>
    BY <1>4 DEF StartSync, KeyOf
  <2>2. asks \in [state : {"idle", "waits", "done", "failed"}, base : 0..MaxCommits,
                  from : 0..MaxCommits, rev : 0..MaxCommits]
    OBVIOUS
  <2>3. /\ shared' \in [0..MaxCommits -> [state : {"none", "asked", "read"}, rev : 0..MaxCommits]]
        /\ shared'[b].state \in {"asked", "read"}
        /\ \A k \in 0..MaxCommits : shared[k].state # "none" => shared'[k] = shared[k]
        /\ \A k \in 0..MaxCommits : k # b => shared'[k] = shared[k]
        /\ shared[b].state = "none" => shared'[b].state = "asked"
    <3>1. CASE shared[b].state # "none"
      <4>1. shared' = shared
        BY <1>4, <3>1 DEF StartSync, KeyOf
      <4>2. shared[b].state \in {"none", "asked", "read"}
        BY <1>1 DEF SyncTyped
      <4> QED
        BY <1>1, <3>1, <4>1, <4>2 DEF SyncTyped
    <3>2. CASE shared[b].state = "none"
      <4>1. shared' = [shared EXCEPT ![b] = [state |-> "asked", rev |-> b]]
        BY <1>4, <3>2 DEF StartSync, KeyOf
      <4> QED
        BY <1>1, <3>2, <4>1 DEF SyncTyped
    <3> QED
      BY <3>1, <3>2
  <2>4. CallsAreOfRevisions'
    BY <1>1, <2>1, <2>3 DEF CallsAreOfRevisions
  <2>5. SyncTyped'
    BY <1>1, <2>1, <2>2, <2>3 DEF SyncTyped
  <2> HIDE DEF asks
  <2>6. asks.state = "waits" /\ asks.base = b /\ asks.from = b
    BY DEF asks
  <2>7. \A x \in Syncs : syncs'[x] = IF x = s THEN asks ELSE syncs[x]
    BY <1>1, <2>1 DEF SyncTyped
  <2>8. WaitsForItsBase'
    <3>1. ASSUME NEW x \in Syncs, x # s, syncs[x].state = "waits"
          PROVE  syncs[x].from = syncs[x].base /\ shared'[syncs[x].from].state \in {"asked", "read"}
      <4>1. syncs[x].from = syncs[x].base /\ shared[syncs[x].from].state \in {"asked", "read"}
        BY <1>1, <3>1 DEF WaitsForItsBase
      <4>2. syncs[x].from \in 0..MaxCommits
        BY <1>1 DEF SyncTyped
      <4> QED
        BY <2>3, <4>1, <4>2
    <3> QED
      BY <2>3, <2>6, <2>7, <3>1 DEF WaitsForItsBase
  <2>9. SyncAnswersBase'
    BY <1>1, <2>6, <2>7 DEF SyncAnswersBase
  <2> QED
    BY <2>4, <2>5, <2>8, <2>9 DEF SyncInv
<1>5. ASSUME NEW k \in 0..MaxCommits, GatewayReads(k)
      PROVE  SyncInv'
  <2>1. /\ shared' = [shared EXCEPT ![k] = [state |-> "read", rev |-> commits]]
        /\ shared[k].state = "asked" /\ UNCHANGED <<commits, syncs, head>>
    BY <1>5 DEF GatewayReads
  <2>2. /\ shared' \in [0..MaxCommits -> [state : {"none", "asked", "read"}, rev : 0..MaxCommits]]
        /\ \A j \in 0..MaxCommits : shared'[j] = IF j = k THEN [state |-> "read", rev |-> commits] ELSE shared[j]
    <3>1. [state |-> "read", rev |-> commits] \in [state : {"none", "asked", "read"}, rev : 0..MaxCommits]
      BY <1>1 DEF SyncTyped
    <3>2. shared \in [0..MaxCommits -> [state : {"none", "asked", "read"}, rev : 0..MaxCommits]]
      BY <1>1 DEF SyncTyped
    <3> QED
      BY <2>1, <3>1, <3>2, Zenon
  <2>3. k <= commits
    BY <1>1, <2>1 DEF CallsAreOfRevisions
  <2>4. CallsAreOfRevisions'
    BY <1>1, <2>1, <2>2, <2>3 DEF CallsAreOfRevisions, SyncTyped
  <2>5. WaitsForItsBase'
    BY <1>1, <2>1, <2>2 DEF WaitsForItsBase, SyncTyped
  <2> QED
    BY <1>1, <2>1, <2>2, <2>4, <2>5 DEF SyncInv, SyncTyped, SyncAnswersBase
<1>6. ASSUME NEW k \in 0..MaxCommits, NEW state \in {"done", "failed"}, NEW rev \in [Syncs -> 0..MaxCommits],
             shared' = [shared EXCEPT ![k] = NoCall], shared[k].state # "none",
             \A s \in WaitersOf(k) : state = "done" => rev[s] >= k,
             syncs' = [s \in Syncs |-> IF s \in WaitersOf(k)
                                       THEN [syncs[s] EXCEPT !.state = state, !.rev = rev[s]] ELSE syncs[s]],
             commits' = commits, head' \in [rev : 0..MaxCommits, seen : 0..MaxCommits]
      PROVE  SyncInv'
  <2> DEFINE After(s) == IF s \in WaitersOf(k)
                         THEN [syncs[s] EXCEPT !.state = state, !.rev = rev[s]] ELSE syncs[s]
             Sync == [state : {"idle", "waits", "done", "failed"}, base : 0..MaxCommits,
                      from : 0..MaxCommits, rev : 0..MaxCommits]
  <2>1. ASSUME NEW s \in Syncs
        PROVE  /\ After(s) \in Sync
               /\ After(s).state = "waits" => s \notin WaitersOf(k) /\ After(s) = syncs[s]
               /\ After(s).state = "done" => After(s).rev >= After(s).base
    <3>1. syncs[s] \in Sync
      BY <1>1 DEF SyncTyped
    <3>2. CASE s \in WaitersOf(k)
      <4>1. syncs[s].state = "waits" /\ syncs[s].from = k /\ syncs[s].base = k
        BY <1>1, <3>2 DEF WaitersOf, WaitsForItsBase
      <4>2. After(s) = [syncs[s] EXCEPT !.state = state, !.rev = rev[s]] /\ rev[s] \in 0..MaxCommits
        BY <3>2
      <4>3. After(s) \in Sync /\ After(s).state = state /\ After(s).rev = rev[s] /\ After(s).base = k
        BY <3>1, <4>1, <4>2
      <4> QED
        BY <1>6, <3>2, <4>3
    <3>3. CASE s \notin WaitersOf(k)
      BY <1>1, <3>1, <3>3 DEF SyncAnswersBase
    <3> QED
      BY <3>2, <3>3
  <2>2. syncs' = [s \in Syncs |-> After(s)]
    BY <1>6
  <2> HIDE DEF After
  <2>3. syncs' \in [Syncs -> Sync] /\ \A s \in Syncs : syncs'[s] = After(s)
    BY <2>1, <2>2
  <2>4. /\ shared' \in [0..MaxCommits -> [state : {"none", "asked", "read"}, rev : 0..MaxCommits]]
        /\ \A j \in 0..MaxCommits : shared'[j] = IF j = k THEN NoCall ELSE shared[j]
    <3>1. NoCall \in [state : {"none", "asked", "read"}, rev : 0..MaxCommits]
      BY DEF NoCall
    <3>2. shared \in [0..MaxCommits -> [state : {"none", "asked", "read"}, rev : 0..MaxCommits]]
      BY <1>1 DEF SyncTyped
    <3> QED
      BY <1>6, <3>1, <3>2, Zenon
  <2>5. WaitsForItsBase'
    <3>1. ASSUME NEW s \in Syncs, syncs'[s].state = "waits"
          PROVE  syncs'[s].from = syncs'[s].base /\ shared'[syncs'[s].from].state \in {"asked", "read"}
      <4>1. s \notin WaitersOf(k) /\ syncs'[s] = syncs[s]
        BY <2>1, <2>3, <3>1
      <4>2. syncs[s].from # k /\ syncs[s].from \in 0..MaxCommits
        BY <1>1, <3>1, <4>1 DEF WaitersOf, SyncTyped
      <4> QED
        BY <1>1, <2>4, <3>1, <4>1, <4>2, ZenonT(40) DEF WaitsForItsBase
    <3> QED
      BY <3>1 DEF WaitsForItsBase
  <2>6. CallsAreOfRevisions'
    BY <1>1, <1>6, <2>4 DEF CallsAreOfRevisions, NoCall
  <2>7. SyncAnswersBase'
    BY <2>1, <2>3 DEF SyncAnswersBase
  <2>8. SyncTyped'
    BY <1>1, <1>6, <2>3, <2>4 DEF SyncTyped
  <2> QED
    BY <2>5, <2>6, <2>7, <2>8 DEF SyncInv
<1>7. ASSUME NEW k \in 0..MaxCommits, SyncCompletes(k)
      PROVE  SyncInv'
  <2> DEFINE rev == [s \in Syncs |-> shared[k].rev]
  <2>1. shared[k] \in [state : {"none", "asked", "read"}, rev : 0..MaxCommits] /\ shared[k].state = "read"
    BY <1>1, <1>7 DEF SyncTyped, SyncCompletes
  <2>2. rev \in [Syncs -> 0..MaxCommits] /\ \A s \in Syncs : rev[s] = shared[k].rev
    BY <2>1
  <2>3. shared[k].rev >= k
    BY <1>1, <2>1 DEF CallsAreOfRevisions
  <2>4. head' \in [rev : 0..MaxCommits, seen : 0..MaxCommits]
    BY <1>1, <1>7, <2>1 DEF SyncCompletes, SyncTyped
  <2>5. syncs' = [s \in Syncs |-> IF s \in WaitersOf(k)
                                  THEN [syncs[s] EXCEPT !.state = "done", !.rev = rev[s]] ELSE syncs[s]]
    BY <1>7 DEF SyncCompletes
  <2>6. shared' = [shared EXCEPT ![k] = NoCall] /\ commits' = commits
    BY <1>7 DEF SyncCompletes, AfterCall
  <2>7. \A s \in WaitersOf(k) : rev[s] >= k
    BY <2>2, <2>3 DEF WaitersOf
  <2> HIDE DEF rev
  <2> QED
    BY <1>6, <2>1, <2>2, <2>4, <2>5, <2>6, <2>7
<1>8. ASSUME NEW k \in 0..MaxCommits, SyncFails(k)
      PROVE  SyncInv'
  <2> DEFINE rev == [s \in Syncs |-> syncs[s].rev]
  <2>1. rev \in [Syncs -> 0..MaxCommits] /\ \A s \in Syncs : rev[s] = syncs[s].rev
    BY <1>1 DEF SyncTyped
  <2>2. \A s \in Syncs : [syncs[s] EXCEPT !.state = "failed"]
                          = [syncs[s] EXCEPT !.state = "failed", !.rev = rev[s]]
    <3>1. ASSUME NEW s \in Syncs
          PROVE  [syncs[s] EXCEPT !.state = "failed"] = [syncs[s] EXCEPT !.state = "failed", !.rev = rev[s]]
      <4>1. syncs[s] \in [state : {"idle", "waits", "done", "failed"}, base : 0..MaxCommits,
                          from : 0..MaxCommits, rev : 0..MaxCommits]
        BY <1>1 DEF SyncTyped
      <4> QED
        BY <2>1, <4>1
    <3> QED
      BY <3>1
  <2>3. syncs' = [s \in Syncs |-> IF s \in WaitersOf(k)
                                  THEN [syncs[s] EXCEPT !.state = "failed"] ELSE syncs[s]]
    BY <1>8 DEF SyncFails
  <2>4. syncs' = [s \in Syncs |-> IF s \in WaitersOf(k)
                                  THEN [syncs[s] EXCEPT !.state = "failed", !.rev = rev[s]] ELSE syncs[s]]
    <3> HIDE DEF rev
    <3> QED
      BY <2>2, <2>3, Zenon
  <2>5. shared' = [shared EXCEPT ![k] = NoCall] /\ commits' = commits /\ head' = head /\ shared[k].state # "none"
    BY <1>8 DEF SyncFails, AfterCall
  <2>6. head' \in [rev : 0..MaxCommits, seen : 0..MaxCommits]
    BY <1>1, <2>5 DEF SyncTyped
  <2> HIDE DEF rev
  <2> QED
    BY <1>6, <2>1, <2>4, <2>5, <2>6
<1>9. CASE UNCHANGED syncVars
  BY <1>1, <1>9 DEF syncVars, SyncInv, SyncTyped, CallsAreOfRevisions, WaitsForItsBase, SyncAnswersBase
<1> QED
  BY <1>2, <1>3, <1>4, <1>5, <1>7, <1>8, <1>9 DEF SyncNext

-----------------------------------------------------------------------------
(* Reconciliation.  An index that was taken has its result, or the worker  *)
(* that took it is still at it.                                            *)

PoolTyped ==
    /\ nextIndex \in 1..(Items + 1)
    /\ worker \in [Workers -> [at : 0..Items, step : {"free", "waits", "thrown"}]]
    /\ \A w \in Workers : worker[w].step = "waits" => worker[w].at > 0
    /\ results \in [1..Items -> {"none", "unchanged", "changed", "deleted", "error"}]
    /\ reply \in {0, 200, 409}

TakenIsHeldOrCompared ==
    \A i \in 1..Items : i < nextIndex =>
        \/ results[i] = StateOf(hermesHas[i])
        \/ \E w \in Workers : worker[w].at = i /\ worker[w].step # "free"

RepliedWhenAllEnded == reply = 200 => \A w \in Workers : WorkerEnded(w)

PoolInv == PoolTyped /\ TakenIsHeldOrCompared /\ RepliedWhenAllEnded

LEMMA PoolStart == PoolInit => PoolInv
BY PoolConstantsAssumption
   DEF PoolInit, PoolInv, PoolTyped, TakenIsHeldOrCompared, RepliedWhenAllEnded, WorkerEnded

LEMMA PoolStep ==
  ASSUME PoolInv, [PoolSteps]_poolVars
  PROVE  PoolInv'
<1> USE PoolConstantsAssumption DEF PoolInv, PoolTyped, RepliedWhenAllEnded
<1>1. ASSUME NEW w \in Workers, TakeItem(w)
      PROVE  PoolInv'
  <2>1. /\ worker[w].step = "free" /\ nextIndex <= Items
        /\ nextIndex' = nextIndex + 1 /\ UNCHANGED <<results, hermesHas>>
    BY <1>1 DEF TakeItem, WorkerEnded
  <2>2. reply # 200
    BY <2>1 DEF WorkerEnded
  <2>3. PICK step \in {"waits", "thrown"} : worker' = [worker EXCEPT ![w] = [at |-> nextIndex, step |-> step]]
    BY <1>1 DEF TakeItem
  <2>4. reply' \in {0, 409}
    BY <1>1, <2>2 DEF TakeItem
  <2>5. \A v \in Workers : worker'[v] = IF v = w THEN [at |-> nextIndex, step |-> step] ELSE worker[v]
    BY <2>3
  <2>6. PoolTyped'
    BY <2>1, <2>3, <2>4, <2>5
  <2>7. TakenIsHeldOrCompared'
    <3>1. ASSUME NEW i \in 1..Items, i < nextIndex + 1
          PROVE  \/ results[i] = StateOf(hermesHas[i])
                 \/ \E v \in Workers : worker'[v].at = i /\ worker'[v].step # "free"
      <4>1. CASE i < nextIndex
        BY <2>1, <2>5, <4>1 DEF TakenIsHeldOrCompared
      <4>2. CASE i = nextIndex
        <5>1. worker'[w].at = i /\ worker'[w].step = step
          BY <2>5, <4>2
        <5> QED
          BY <5>1
      <4> QED
        BY <3>1, <4>1, <4>2
    <3> QED
      BY <2>1, <3>1 DEF TakenIsHeldOrCompared
  <2> QED
    BY <2>4, <2>6, <2>7
<1>2. ASSUME NEW w \in Workers, Compared(w)
      PROVE  PoolInv'
  <2> DEFINE i == worker[w].at
  <2>1. /\ worker[w].step = "waits" /\ i \in 1..Items
        /\ results' = [results EXCEPT ![i] = StateOf(hermesHas[i])]
        /\ worker' = [worker EXCEPT ![w].step = "free"]
        /\ UNCHANGED <<nextIndex, hermesHas, reply>>
    BY <1>2 DEF Compared, Result
  <2>2. reply # 200
    BY <2>1 DEF WorkerEnded
  <2>3. StateOf(hermesHas[i]) \in {"none", "unchanged", "changed", "deleted", "error"}
    BY DEF StateOf
  <2>4. PoolTyped'
    BY <2>1, <2>3
  <2>5. TakenIsHeldOrCompared'
    <3>1. \A j \in 1..Items : results'[j] = IF j = i THEN StateOf(hermesHas[i]) ELSE results[j]
      BY <2>1
    <3>2. \A v \in Workers : v # w => worker'[v] = worker[v]
      BY <2>1
    <3> QED
      BY <2>1, <3>1, <3>2 DEF TakenIsHeldOrCompared
  <2> QED
    BY <2>1, <2>2, <2>4, <2>5
<1>3. CASE ReconcileReplies
  BY <1>3 DEF ReconcileReplies, TakenIsHeldOrCompared, WorkerEnded
<1>4. CASE UNCHANGED poolVars
  BY <1>4 DEF poolVars, TakenIsHeldOrCompared, WorkerEnded
<1> QED
  BY <1>1, <1>2, <1>3, <1>4 DEF PoolSteps

LEMMA PoolInvImplies == PoolInv => PoolTypeOK /\ EveryItemCompared
<1> SUFFICES ASSUME PoolInv PROVE PoolTypeOK /\ EveryItemCompared
  OBVIOUS
<1>1. PoolTypeOK
  BY DEF PoolInv, PoolTyped, PoolTypeOK
<1>2. ASSUME reply = 200
      PROVE  \A i \in 1..Items : results[i] = StateOf(hermesHas[i])
  <2>1. PICK w \in Workers : TRUE
    BY PoolConstantsAssumption
  <2>2. nextIndex > Items /\ \A v \in Workers : worker[v].step = "free"
    BY <1>2, <2>1 DEF PoolInv, RepliedWhenAllEnded, WorkerEnded
  <2>3. \A i \in 1..Items : i < nextIndex
    BY <2>2, PoolConstantsAssumption DEF PoolInv, PoolTyped
  <2> QED
    BY <2>2, <2>3 DEF PoolInv, TakenIsHeldOrCompared
<1> QED
  BY <1>1, <1>2 DEF EveryItemCompared

(* What a client has read is a transcript there was, whole; an answer to   *)
(* the question it asked, also when it shared the call of another; and its *)
(* own conversation in a reconciliation, in whatever order calls come back.*)
THEOREM ReadsAlwaysWhole == PagingSpec /\ SyncSpec /\ PoolSpec => []ReadsAreWhole
<1>1. PagingInit => PagingInv
  BY PagingStart
<1>2. PagingInv /\ [PagingNext]_pagingVars => PagingInv'
  BY PagingStep
<1>3. SyncInit => SyncInv
  BY SyncStart
<1>4. SyncInv /\ [SyncNext]_syncVars => SyncInv'
  BY SyncStep
<1>5. PoolInit => PoolInv
  BY PoolStart
<1>6. PoolInv /\ [PoolSteps]_poolVars => PoolInv'
  BY PoolStep
<1>7. SyncInv => SyncTypeOK /\ SyncAnswersBase /\ JoinedIsUnderWay
  BY DEF SyncInv, SyncTyped, SyncTypeOK, WaitsForItsBase, JoinedIsUnderWay
<1>8. PagingInv /\ SyncInv /\ PoolInv => ReadsAreWhole
  BY <1>7, PagingInvImplies, PoolInvImplies DEF ReadsAreWhole
<1> QED
  BY <1>1, <1>2, <1>3, <1>4, <1>5, <1>6, <1>8, PTL DEF PagingSpec, SyncSpec, PoolSpec

-----------------------------------------------------------------------------
(* Lineages.  The recursive functions of SessionLineage are followed round *)
(* by round: what their values are after each round is proved by induction *)
(* over the rounds, and from that what they return.                        *)

(* What holds at 0 and is kept holds up to N. *)
LEMMA UpTo ==
  ASSUME NEW N \in Nat, NEW T, 0 \in T, \A i \in 1..N : i - 1 \in T => i \in T
  PROVE  \A i \in 0..N : i \in T
<1> DEFINE B == {i \in 0..N : i \notin T}
<1> SUFFICES ASSUME B # {} PROVE FALSE
  OBVIOUS
<1>1. B \in SUBSET Nat
  OBVIOUS
<1>2. PICK n \in B : \A k \in B : n <= k
  <2> HIDE DEF B
  <2> QED
    BY <1>1, LeastNat
<1>3. n \in 1..N /\ n - 1 \in 0..N /\ ~(n <= n - 1)
  BY <1>2
<1>4. n - 1 \in T
  BY <1>2, <1>3
<1> QED
  BY <1>2, <1>3, <1>4

(* A value that changes in N rounds, the i-th as d says, has a history. *)
IsHistory(g, S, N, x, d) ==
    g \in [0..N -> S] /\ g[0] = x /\ \A i \in 1..N : g[i] = d[i][g[i - 1]]

(* Such a history exists; a recursive function is one.                     *)
LEMMA HistoryExists ==
  ASSUME NEW S, NEW N \in Nat, NEW x \in S, NEW d \in [1..N -> [S -> S]]
  PROVE  \E g : IsHistory(g, S, N, x, d)
<1> DEFINE Up(n) == \E g \in [0..n -> S] : g[0] = x /\ \A i \in 1..n : g[i] = d[i][g[i - 1]]
           T == {n \in 0..N : Up(n)}
<1>1. 0 \in T
  <2> DEFINE g == [i \in 0..0 |-> x]
  <2>1. g \in [0..0 -> S] /\ g[0] = x /\ 1..0 = {}
    OBVIOUS
  <2>2. Up(0)
    <3> HIDE DEF g
    <3> QED
      BY <2>1
  <2> QED
    BY <2>2
<1>2. ASSUME NEW n \in 1..N, n - 1 \in T PROVE n \in T
  <2>1. PICK g \in [0..(n - 1) -> S] : g[0] = x /\ \A i \in 1..(n - 1) : g[i] = d[i][g[i - 1]]
    BY <1>2
  <2> DEFINE h == [i \in 0..n |-> IF i = n THEN d[n][g[n - 1]] ELSE g[i]]
  <2>2. g[n - 1] \in S /\ d[n][g[n - 1]] \in S
    <3>1. n - 1 \in 0..(n - 1)
      OBVIOUS
    <3>2. g[n - 1] \in S
      BY <2>1, <3>1
    <3> QED
      BY <3>2
  <2>3. h \in [0..n -> S]
    <3>1. \A i \in 0..n : i # n => i \in 0..(n - 1)
      OBVIOUS
    <3> QED
      BY <2>1, <2>2, <3>1
  <2>4. h[0] = x
    BY <2>1
  <2>5. ASSUME NEW i \in 1..n PROVE h[i] = d[i][h[i - 1]]
    <3>1. i \in 0..n /\ i - 1 \in 0..n /\ i - 1 # n
      OBVIOUS
    <3>2. h[i - 1] = g[i - 1]
      BY <3>1
    <3>3. CASE i = n
      BY <3>1, <3>2, <3>3
    <3>4. CASE i # n
      <4>1. i \in 1..(n - 1)
        BY <3>4
      <4>2. h[i] = g[i]
        BY <3>1, <3>4
      <4>3. g[i] = d[i][g[i - 1]]
        BY <2>1, <4>1
      <4> QED
        BY <3>2, <4>2, <4>3
    <3> QED
      BY <3>3, <3>4
  <2>6. Up(n)
    <3> HIDE DEF h
    <3> QED
      BY <2>3, <2>4, <2>5
  <2> QED
    BY <2>6, SMTT(40)
<1>3. N \in T
  <2>1. N \in 0..N
    OBVIOUS
  <2> HIDE DEF T
  <2> QED
    BY <1>1, <1>2, <2>1, UpTo
<1>4. Up(N)
  BY <1>3
<1> QED
  BY <1>4, Zenon DEF IsHistory

(* The rows at some positions are these rows, as many as positions.        *)
LEMMA RowsAtIs ==
  ASSUME NEW S, NEW rows \in Seq(S), NEW I
  PROVE  /\ RowsAt(rows, I) \in Seq(S)
         /\ ToSet(RowsAt(rows, I)) = {rows[i] : i \in I \cap DOMAIN rows}
         /\ IsFiniteSet(I \cap DOMAIN rows)
         /\ Len(RowsAt(rows, I)) = Cardinality(I \cap DOMAIN rows)
<1> DEFINE N == Len(rows)
           d == [i \in 1..N |-> [q \in Seq(S) |-> IF i \in I THEN Append(q, rows[i]) ELSE q]]
           h == CHOOSE h : h = [i \in 0..N |->
                    IF i = 0 THEN <<>>
                    ELSE IF i \in I THEN Append(h[i - 1], rows[i]) ELSE h[i - 1]]
<1>1. N \in Nat /\ DOMAIN rows = 1..N /\ \A i \in 1..N : rows[i] \in S
  OBVIOUS
<1>2. d \in [1..N -> [Seq(S) -> Seq(S)]]
  BY <1>1
<1>3. PICK g \in [0..N -> Seq(S)] : g[0] = <<>> /\ \A i \in 1..N : g[i] = d[i][g[i - 1]]
  <2>1. <<>> \in Seq(S)
    OBVIOUS
  <2>2. \E g : IsHistory(g, Seq(S), N, <<>>, d)
    <3> HIDE DEF N, d
    <3> QED
      BY <1>1, <1>2, <2>1, HistoryExists
  <2> HIDE DEF N, d
  <2> QED
    BY <2>2, Zenon DEF IsHistory
<1>4. \A i \in 1..N : i \in 0..N /\ i - 1 \in 0..N /\ i # 0
  BY <1>1
<1>5. \A i \in 1..N : g[i] = IF i \in I THEN Append(g[i - 1], rows[i]) ELSE g[i - 1]
  <2> SUFFICES ASSUME NEW i \in 1..N
               PROVE  g[i] = IF i \in I THEN Append(g[i - 1], rows[i]) ELSE g[i - 1]
    OBVIOUS
  <2>1. i \in 1..N /\ g[i - 1] \in Seq(S)
    BY <1>3, <1>4
  <2>2. g[i] = d[i][g[i - 1]]
    BY <1>3
  <2> QED
    BY <2>1, <2>2
<1>6. g = [i \in 0..N |->
              IF i = 0 THEN <<>> ELSE IF i \in I THEN Append(g[i - 1], rows[i]) ELSE g[i - 1]]
  <2>1. \A i \in 0..N : i # 0 => i \in 1..N
    BY <1>1
  <2>2. \A i \in 0..N : g[i] = IF i = 0 THEN <<>>
                               ELSE IF i \in I THEN Append(g[i - 1], rows[i]) ELSE g[i - 1]
    <3> HIDE DEF d, N
    <3> QED
      BY <1>3, <1>5, <2>1, Zenon
  <2> HIDE DEF d, N
  <2> QED
    BY <1>3, <2>2
<1>7. h = [i \in 0..N |->
              IF i = 0 THEN <<>> ELSE IF i \in I THEN Append(h[i - 1], rows[i]) ELSE h[i - 1]]
  BY <1>6, Zenon
<1>8. RowsAt(rows, I) = h[N]
  BY Zenon DEF RowsAt
<1> HIDE DEF h, d, N
<1> DEFINE T == {i \in 0..N :
                   /\ h[i] \in Seq(S)
                   /\ {h[i][j] : j \in 1..Len(h[i])} = {rows[j] : j \in I \cap (1..i)}
                   /\ IsFiniteSet(I \cap (1..i))
                   /\ Len(h[i]) = Cardinality(I \cap (1..i))}
<1>9. 0 \in T
  <2>1. 0 \in 0..N /\ 1..0 = {}
    BY <1>1
  <2>2. h[0] = <<>>
    BY <1>7, <2>1
  <2>3. h[0] \in Seq(S) /\ Len(h[0]) = 0 /\ I \cap (1..0) = {}
    BY <2>1, <2>2
  <2> QED
    BY <2>1, <2>2, <2>3, FS_EmptySet
<1>10. ASSUME NEW i \in 1..N, i - 1 \in T PROVE i \in T
  <2>1. i \in 0..N /\ i # 0 /\ i \in Nat /\ i - 1 \in 0..N /\ rows[i] \in S
    BY <1>1, <1>4
  <2>2. h[i] = IF i \in I THEN Append(h[i - 1], rows[i]) ELSE h[i - 1]
    BY <1>7, <2>1
  <2>3. CASE i \notin I
    <3>1. I \cap (1..i) = I \cap (1..(i - 1)) /\ h[i] = h[i - 1]
      BY <2>1, <2>2, <2>3
    <3> QED
      BY <1>10, <2>1, <3>1
  <2>4. CASE i \in I
    <3> DEFINE q == h[i - 1]
               L == Len(q)
               J == I \cap (1..(i - 1))
    <3>1. /\ q \in Seq(S) /\ L \in Nat /\ IsFiniteSet(J) /\ L = Cardinality(J)
          /\ {q[j] : j \in 1..L} = {rows[j] : j \in J}
      <4>1. /\ q \in Seq(S) /\ IsFiniteSet(J) /\ L = Cardinality(J)
            /\ {q[j] : j \in 1..L} = {rows[j] : j \in J}
        BY <1>10, Zenon
      <4>2. q \in Seq(S)
        BY <4>1
      <4>3. L \in Nat
        BY <4>2
      <4> QED
        BY <4>1, <4>3, Zenon
    <3>2. I \cap (1..i) = J \cup {i} /\ i \notin J
      BY <2>1, <2>4
    <3>3. IsFiniteSet(I \cap (1..i)) /\ Cardinality(I \cap (1..i)) = L + 1
      <4> HIDE DEF q, L, J
      <4> QED
        BY <3>1, <3>2, FS_AddElement, SMTT(40)
    <3>4. h[i] = Append(q, rows[i]) /\ h[i] \in Seq(S) /\ Len(h[i]) = L + 1
      <4>1. h[i] = Append(q, rows[i])
        BY <2>2, <2>4
      <4> HIDE DEF q, L
      <4>2. L = Len(q)
        BY DEF L
      <4> QED
        BY <2>1, <3>1, <4>1, <4>2
    <3>5. h[i][L + 1] = rows[i] /\ \A j \in 1..L : h[i][j] = q[j]
      <4>1. q \in Seq(S) /\ rows[i] \in S /\ h[i] = Append(q, rows[i]) /\ L = Len(q)
        BY <2>1, <3>1, <3>4, Zenon
      <4> HIDE DEF q, L
      <4> QED
        BY <4>1
    <3>6. {h[i][j] : j \in 1..Len(h[i])} = {rows[j] : j \in I \cap (1..i)}
      <4>1. 1..(L + 1) = (1..L) \cup {L + 1}
        BY <3>1
      <4>2. {h[i][j] : j \in 1..(L + 1)} = {q[j] : j \in 1..L} \cup {rows[i]}
        <5> HIDE DEF q, L
        <5> QED
          BY <3>5, <4>1, ZenonT(40)
      <4>3. {rows[j] : j \in J \cup {i}} = {rows[j] : j \in J} \cup {rows[i]}
        OBVIOUS
      <4> HIDE DEF q, L, J
      <4> QED
        BY <3>1, <3>2, <3>4, <4>2, <4>3
    <3> HIDE DEF q, L, J
    <3> QED
      BY <2>1, <3>3, <3>4, <3>6
  <2> QED
    BY <2>3, <2>4
<1>11. N \in T
  <2>1. N \in 0..N
    BY <1>1
  <2> HIDE DEF T
  <2> QED
    BY <1>1, <1>9, <1>10, <2>1, UpTo
<1>12. RowsAt(rows, I) = h[N] /\ I \cap DOMAIN rows = I \cap (1..N)
  BY <1>1, <1>8
<1>13. /\ h[N] \in Seq(S) /\ DOMAIN h[N] = 1..Len(h[N])
       /\ {h[N][j] : j \in 1..Len(h[N])} = {rows[j] : j \in I \cap (1..N)}
       /\ IsFiniteSet(I \cap (1..N)) /\ Len(h[N]) = Cardinality(I \cap (1..N))
  <2>1. /\ h[N] \in Seq(S)
        /\ {h[N][j] : j \in 1..Len(h[N])} = {rows[j] : j \in I \cap (1..N)}
        /\ IsFiniteSet(I \cap (1..N)) /\ Len(h[N]) = Cardinality(I \cap (1..N))
    BY <1>11, Zenon
  <2>2. h[N] \in Seq(S)
    BY <2>1
  <2>3. DOMAIN h[N] = 1..Len(h[N])
    BY <2>2
  <2> QED
    BY <2>1, <2>3, Zenon
<1> QED
  BY <1>12, <1>13, Zenon DEF ToSet

(* uniqueIds leaves out repetitions and nothing else. *)
LEMMA UniqueIs ==
  ASSUME NEW S, NEW s \in Seq(S)
  PROVE  Unique(s) \in Seq(S) /\ ToSet(Unique(s)) = ToSet(s)
<1> DEFINE N == Len(s)
           d == [i \in 1..N |-> [q \in Seq(S) |-> AppendNew(q, s[i])]]
           h == CHOOSE h : h = [i \in 0..N |-> IF i = 0 THEN <<>> ELSE AppendNew(h[i - 1], s[i])]
<1>1. N \in Nat /\ DOMAIN s = 1..N /\ \A i \in 1..N : s[i] \in S
  OBVIOUS
<1>2. \A q \in Seq(S), x \in S : AppendNew(q, x) \in Seq(S) /\ ToSet(AppendNew(q, x)) = ToSet(q) \cup {x}
  <2> SUFFICES ASSUME NEW q \in Seq(S), NEW x \in S
               PROVE  AppendNew(q, x) \in Seq(S) /\ ToSet(AppendNew(q, x)) = ToSet(q) \cup {x}
    OBVIOUS
  <2>1. CASE x \in ToSet(q)
    BY <2>1 DEF AppendNew
  <2>2. CASE x \notin ToSet(q)
    <3> DEFINE p == Append(q, x)
    <3>1. p \in Seq(S) /\ DOMAIN p = (DOMAIN q) \cup {Len(q) + 1} /\ p[Len(q) + 1] = x
      OBVIOUS
    <3>2. \A i \in DOMAIN q : p[i] = q[i]
      OBVIOUS
    <3> HIDE DEF p
    <3>3. ToSet(p) = ToSet(q) \cup {x}
      BY <3>1, <3>2 DEF ToSet
    <3>4. AppendNew(q, x) = p
      BY <2>2 DEF AppendNew, p
    <3> QED
      BY <3>1, <3>3, <3>4
  <2> QED
    BY <2>1, <2>2
<1>3. d \in [1..N -> [Seq(S) -> Seq(S)]]
  <2> HIDE DEF N
  <2> QED
    BY <1>1, <1>2
<1>4. PICK g : IsHistory(g, Seq(S), N, <<>>, d)
  <2>1. <<>> \in Seq(S)
    OBVIOUS
  <2> HIDE DEF N, d, h
  <2> QED
    BY <1>1, <1>3, <2>1, HistoryExists
<1>5. \A i \in 1..N : i \in 0..N /\ i - 1 \in 0..N /\ i # 0
  BY <1>1
<1>6. g \in [0..N -> Seq(S)] /\ g[0] = <<>> /\ \A i \in 1..N : g[i] = AppendNew(g[i - 1], s[i])
  <2>1. g \in [0..N -> Seq(S)] /\ g[0] = <<>> /\ \A i \in 1..N : g[i] = d[i][g[i - 1]]
    <3> HIDE DEF N, d, h
    <3> QED
      BY <1>4, Zenon DEF IsHistory
  <2>2. ASSUME NEW i \in 1..N PROVE g[i] = AppendNew(g[i - 1], s[i])
    <3>1. g[i - 1] \in Seq(S) /\ g[i] = d[i][g[i - 1]]
      <4> HIDE DEF N, d, h
      <4> QED
        BY <1>5, <2>1
    <3> HIDE DEF N, h
    <3> QED
      BY <3>1
  <2> QED
    BY <2>1, <2>2
<1>7. g = [i \in 0..N |-> IF i = 0 THEN <<>> ELSE AppendNew(g[i - 1], s[i])]
  <2>1. \A i \in 0..N : i # 0 => i \in 1..N
    BY <1>1
  <2> HIDE DEF d, N, h
  <2>2. \A i \in 0..N : g[i] = IF i = 0 THEN <<>> ELSE AppendNew(g[i - 1], s[i])
    BY <1>6, <2>1, Zenon
  <2> QED
    BY <1>6, <2>2
<1>8. h = [i \in 0..N |-> IF i = 0 THEN <<>> ELSE AppendNew(h[i - 1], s[i])]
  BY <1>7, Zenon
<1>9. Unique(s) = h[N]
  BY Zenon DEF Unique
<1> HIDE DEF h, d, N
<1> DEFINE Seen(i) == {s[j] : j \in 1..i}
           T == {i \in 0..N : h[i] \in Seq(S) /\ ToSet(h[i]) = Seen(i)}
<1>10. 0 \in T
  <2>1. 0 \in 0..N /\ 1..0 = {} /\ <<>> \in Seq(S) /\ DOMAIN <<>> = {}
    BY <1>1
  <2>2. h[0] = <<>>
    BY <1>8, <2>1
  <2>3. ToSet(<<>>) = {}
    BY <2>1 DEF ToSet
  <2> QED
    BY <2>1, <2>2, <2>3
<1>11. ASSUME NEW i \in 1..N, i - 1 \in T PROVE i \in T
  <2>1. i \in 0..N /\ i # 0 /\ s[i] \in S /\ 1..i = (1..(i - 1)) \cup {i}
    BY <1>1, <1>5
  <2>2. h[i] = AppendNew(h[i - 1], s[i])
    BY <1>8, <2>1
  <2>3. h[i - 1] \in Seq(S) /\ ToSet(h[i - 1]) = Seen(i - 1)
    BY <1>11, Zenon
  <2>4. h[i] \in Seq(S) /\ ToSet(h[i]) = ToSet(h[i - 1]) \cup {s[i]}
    <3> HIDE DEF T, Seen
    <3> QED
      BY <1>2, <2>1, <2>2, <2>3, ZenonT(40)
  <2>5. Seen(i) = Seen(i - 1) \cup {s[i]}
    BY <2>1
  <2> HIDE DEF Seen
  <2> QED
    BY <2>1, <2>3, <2>4, <2>5
<1>12. N \in T
  <2>1. N \in 0..N
    BY <1>1
  <2> HIDE DEF T
  <2> QED
    BY <1>1, <1>10, <1>11, <2>1, UpTo
<1>13. h[N] \in Seq(S) /\ ToSet(h[N]) = Seen(N)
  BY <1>12, Zenon
<1>14. ToSet(s) = Seen(N)
  BY <1>1 DEF ToSet
<1> QED
  BY <1>9, <1>13, <1>14, Zenon

-----------------------------------------------------------------------------
(* The rows of a directory *)

(* Rows of one session are equal: the last one is the one that is found.   *)
LEMMA RowsAreFound ==
  ASSUME NEW rows, IsDirectory(rows)
  PROVE  /\ DOMAIN RowsById(rows) = Listed(rows)
         /\ \A i \in DOMAIN rows : /\ rows[i] \in SessionRow
                                   /\ RowIn(rows, rows[i].id) = rows[i]
                                   /\ RowsById(rows)[rows[i].id] = rows[i]
         /\ \A x \in Listed(rows) : /\ RowIn(rows, x) \in ToSet(rows) /\ RowIn(rows, x).id = x
                                    /\ RowsById(rows)[x] = RowIn(rows, x)
                                    /\ x \in Nat /\ x # 0
<1>1. DOMAIN RowsById(rows) = Listed(rows)
  BY DEF RowsById, Listed
<1>2. /\ Len(rows) \in Nat /\ DOMAIN rows = 1..Len(rows)
      /\ \A i \in DOMAIN rows : rows[i] \in SessionRow
      /\ \A i, j \in DOMAIN rows : rows[i].id = rows[j].id => rows[i] = rows[j]
  BY DEF IsDirectory
<1>3. ASSUME NEW i \in DOMAIN rows
      PROVE  /\ RowIn(rows, rows[i].id) = rows[i]
             /\ RowsById(rows)[rows[i].id] = rows[i]
  <2> DEFINE x == rows[i].id
             A == {j \in DOMAIN rows : rows[j].id = x}
             B == {n \in 0..Len(rows) : Len(rows) - n \in A}
  <2>1. RowIn(rows, x) = rows[i]
    <3> DEFINE c == CHOOSE j \in DOMAIN rows : rows[j].id = x
    <3>1. c \in DOMAIN rows /\ rows[c].id = x
      OBVIOUS
    <3>2. rows[c] = rows[i]
      <4> HIDE DEF c
      <4> QED
        BY <1>2, <3>1
    <3> QED
      BY <3>2 DEF RowIn
  <2>2. Len(rows) - i \in B
    BY <1>2
  <2>3. PICK n \in B : \A m \in B : n <= m
    <3>1. B \in SUBSET Nat /\ B # {}
      BY <1>2, <2>2
    <3> HIDE DEF B
    <3> QED
      BY <3>1, LeastNat
  <2>4. Len(rows) - n \in A /\ \A j \in A : j <= Len(rows) - n
    <3>1. n \in 0..Len(rows) /\ Len(rows) - n \in A
      BY <2>3
    <3>2. ASSUME NEW j \in A PROVE j <= Len(rows) - n
      <4>1. j \in 1..Len(rows) /\ Len(rows) - j \in 0..Len(rows) /\ Len(rows) - (Len(rows) - j) = j
        BY <1>2
      <4>2. Len(rows) - j \in B
        BY <4>1
      <4>3. n <= Len(rows) - j
        BY <2>3, <4>2
      <4> HIDE DEF A, B
      <4> QED
        BY <1>2, <3>1, <4>1, <4>3
    <3> QED
      BY <3>1, <3>2
  <2> DEFINE Latest(j) == rows[j].id = x /\ \A k \in DOMAIN rows : rows[k].id = x => k <= j
             c == CHOOSE j \in DOMAIN rows : Latest(j)
  <2>5. Len(rows) - n \in DOMAIN rows /\ Latest(Len(rows) - n)
    BY <2>4
  <2>6. c \in DOMAIN rows /\ rows[c].id = x
    <3>1. \E j \in DOMAIN rows : Latest(j)
      BY <2>5
    <3>2. c \in DOMAIN rows /\ Latest(c)
      <4> HIDE DEF Latest
      <4> QED
        BY <3>1
    <3> QED
      BY <3>2
  <2>7. rows[c] = rows[i]
    <3> HIDE DEF c
    <3> QED
      BY <1>2, <2>6
  <2>8. RowsById(rows)[x] = rows[c]
    <3>1. x \in {rows[j].id : j \in DOMAIN rows}
      OBVIOUS
    <3> QED
      BY <3>1, Zenon DEF RowsById
  <2> QED
    BY <2>1, <2>7, <2>8
<1>4. ASSUME NEW x \in Listed(rows)
      PROVE  /\ RowIn(rows, x) \in ToSet(rows) /\ RowIn(rows, x).id = x
             /\ RowsById(rows)[x] = RowIn(rows, x)
             /\ x \in Nat /\ x # 0
  <2>1. PICK i \in DOMAIN rows : x = rows[i].id
    BY DEF Listed
  <2>2. RowIn(rows, x) = rows[i] /\ RowsById(rows)[x] = rows[i] /\ rows[i] \in SessionRow
    BY <1>2, <1>3, <2>1
  <2>3. rows[i] \in ToSet(rows)
    BY DEF ToSet
  <2>4. x \in Nat /\ x # 0
    BY <2>1, <2>2 DEF SessionRow
  <2> QED
    BY <2>1, <2>2, <2>3, <2>4
<1> QED
  BY <1>1, <1>2, <1>3, <1>4

(* The code's continuations are the rows that follow another. *)
LEMMA ContinuesIs ==
  ASSUME NEW rows, IsDirectory(rows), NEW i \in DOMAIN rows
  PROVE  Continues(rows, rows[i]) <=> Follows(rows, rows[i].id)
<1> DEFINE r == rows[i]
           p == RowIn(rows, r.parent)
<1>1. r \in SessionRow /\ RowIn(rows, r.id) = r /\ DOMAIN RowsById(rows) = Listed(rows)
  BY RowsAreFound
<1>2. CASE r.parent \notin Listed(rows)
  BY <1>1, <1>2 DEF Continues, Follows
<1>3. CASE r.parent \in Listed(rows)
  <2>1. p \in ToSet(rows) /\ p.id = r.parent /\ RowsById(rows)[r.parent] = p
    BY <1>3, RowsAreFound
  <2>2. p \in SessionRow
    BY <2>1 DEF ToSet, IsDirectory
  <2> HIDE DEF p, r
  <2>3. Continues(rows, r) <=> IsContinuation(p, r)
    BY <1>1, <1>3, <2>1 DEF Continues
  <2>4. Follows(rows, r.id) <=>
            /\ ~r.fork /\ p.ends
            /\ 0 \in {p.source, r.source} \/ p.source = r.source
            /\ 0 \in {p.profile, r.profile} \/ p.profile = r.profile
            /\ ~(0 < r.startedAt /\ r.startedAt < p.endedAt)
    BY <1>1, <1>3 DEF Follows, p
  <2>5. /\ Agree(p.source, r.source) <=> 0 \in {p.source, r.source} \/ p.source = r.source
        /\ Agree(p.profile, r.profile) <=> 0 \in {p.profile, r.profile} \/ p.profile = r.profile
    BY DEF Agree
  <2>6. (p.endedAt = 0 \/ r.startedAt = 0 \/ r.startedAt >= p.endedAt)
            <=> ~(0 < r.startedAt /\ r.startedAt < p.endedAt)
    <3>1. p.endedAt \in Nat /\ r.startedAt \in Nat
      BY <1>1, <2>2 DEF SessionRow
    <3> QED
      BY <3>1
  <2>7. IsContinuation(p, r) <=> Follows(rows, r.id)
    BY <2>1, <2>4, <2>5, <2>6 DEF IsContinuation
  <2> QED
    BY <2>3, <2>7 DEF r
<1> QED
  BY <1>2, <1>3

(* What came of a session: the least closed set with it, and all in it but *)
(* that session follow another one of the set.                             *)
LEMMA DescendantsAre ==
  ASSUME NEW rows, NEW x \in Listed(rows)
  PROVE  /\ Descendants(rows, x) \subseteq Listed(rows)
         /\ x \in Descendants(rows, x) /\ Closed(rows, Descendants(rows, x))
         /\ \A S \in SUBSET Listed(rows) : x \in S /\ Closed(rows, S) => Descendants(rows, x) \subseteq S
         /\ \A y \in Descendants(rows, x) :
               y # x => Follows(rows, y) /\ RowIn(rows, y).parent \in Descendants(rows, x)
<1> DEFINE D == Descendants(rows, x)
<1>1. D \subseteq Listed(rows) /\ x \in D
  BY DEF Descendants
<1>2. \A S \in SUBSET Listed(rows) : x \in S /\ Closed(rows, S) => D \subseteq S
  BY DEF Descendants
<1>3. Closed(rows, D)
  <2> SUFFICES ASSUME NEW y \in Listed(rows), Follows(rows, y), RowIn(rows, y).parent \in D
               PROVE  y \in D
    BY DEF Closed
  <2> SUFFICES ASSUME NEW S \in SUBSET Listed(rows), x \in S, Closed(rows, S) PROVE y \in S
    BY DEF Descendants
  <2>1. D \subseteq S
    BY <1>2
  <2> HIDE DEF D
  <2> QED
    BY <2>1 DEF Closed
<1>4. ASSUME NEW y \in D, y # x, ~(Follows(rows, y) /\ RowIn(rows, y).parent \in D) PROVE FALSE
  <2> DEFINE S == D \ {y}
  <2>1. S \in SUBSET Listed(rows) /\ x \in S
    BY <1>1, <1>4
  <2>2. Closed(rows, S)
    <3> SUFFICES ASSUME NEW z \in Listed(rows), Follows(rows, z), RowIn(rows, z).parent \in S
                 PROVE  z \in S
      BY DEF Closed
    <3>1. z \in D
      BY <1>3 DEF Closed
    <3> HIDE DEF D
    <3> QED
      BY <1>4, <3>1
  <2>3. D \subseteq S
    <3> HIDE DEF D, S
    <3> QED
      BY <1>2, <2>1, <2>2
  <2> QED
    BY <1>4, <2>3
<1> QED
  BY <1>1, <1>2, <1>3, <1>4

(* Two sessions that follow none have nothing that came of both. *)
LEMMA DescendantsApart ==
  ASSUME NEW rows, NEW x \in Listed(rows), NEW y \in Listed(rows), x # y,
         ~Follows(rows, x), ~Follows(rows, y)
  PROVE  Descendants(rows, x) \cap Descendants(rows, y) = {}
<1> DEFINE D == Descendants(rows, x)
           E == Descendants(rows, y)
           S == D \ E
<1>1. /\ D \subseteq Listed(rows) /\ x \in D /\ Closed(rows, D)
      /\ \A T \in SUBSET Listed(rows) : x \in T /\ Closed(rows, T) => D \subseteq T
  BY DescendantsAre
<1>2. /\ \A z \in E : z # y => Follows(rows, z) /\ RowIn(rows, z).parent \in E
  BY DescendantsAre
<1> HIDE DEF D, E
<1>3. S \in SUBSET Listed(rows) /\ x \in S
  BY <1>1, <1>2
<1>4. Closed(rows, S)
  <2> SUFFICES ASSUME NEW z \in Listed(rows), Follows(rows, z), RowIn(rows, z).parent \in S
               PROVE  z \in S
    BY DEF Closed
  <2>1. z \in D
    BY <1>1 DEF Closed
  <2>2. z \notin E
    BY <1>2
  <2> QED
    BY <2>1, <2>2
<1>5. D \subseteq S
  <2> HIDE DEF S
  <2> QED
    BY <1>1, <1>3, <1>4
<1> QED
  BY <1>5 DEF D, E

-----------------------------------------------------------------------------
(* The walk from a root.  What it has seen came of the root; what follows  *)
(* a session it has seen was seen or is on the stack; the paths lead from  *)
(* the root; and no session seen is better than the best.                  *)

ChildRows(rows, x) == {i \in DOMAIN rows : rows[i].parent = x /\ Follows(rows, rows[i].id)}

Unseen(rows, seen) == {i \in DOMAIN rows : Follows(rows, rows[i].id) /\ rows[i].parent \notin seen}

StackEntry(rows) == [row : ToSet(rows), path : Seq(Nat)]

WalkState(rows) == [stack : Seq(StackEntry(rows)), all : Seq(Listed(rows)), best : StackEntry(rows)]

PathFrom(rows, x, e) ==
    /\ e.path # <<>> /\ e.path[1] = x /\ e.path[Len(e.path)] = e.row.id
    /\ \A i \in 2..Len(e.path) : RowIn(rows, e.path[i]).parent = e.path[i - 1]

NoWorse(r, y) ==
    /\ y.importable => r.importable
    /\ y.importable = r.importable => y.activityAt <= r.activityAt

Stacked(w, y) == \E i \in DOMAIN w.stack : w.stack[i].row.id = y

WalkInv(rows, x, w) ==
    /\ w \in WalkState(rows)
    /\ ToSet(w.all) \subseteq Descendants(rows, x)
    /\ \A i \in DOMAIN w.stack :
          w.stack[i].row.id \in Descendants(rows, x) /\ PathFrom(rows, x, w.stack[i])
    /\ \A y \in Listed(rows) :
          Follows(rows, y) /\ RowIn(rows, y).parent \in ToSet(w.all) => y \in ToSet(w.all) \/ Stacked(w, y)
    /\ x \in ToSet(w.all) \/ Stacked(w, x)
    /\ PathFrom(rows, x, w.best) /\ w.best.row.id \in ToSet(w.all) \cup {x}
    /\ \A y \in ToSet(w.all) : NoWorse(w.best.row, RowIn(rows, y))

LEMMA DirectoryRows ==
  ASSUME NEW rows, IsDirectory(rows)
  PROVE  /\ rows \in Seq(ToSet(rows)) /\ Len(rows) \in Nat /\ DOMAIN rows = 1..Len(rows)
         /\ ToSet(rows) \subseteq SessionRow
         /\ \A r \in ToSet(rows) : r.id \in Listed(rows) /\ RowIn(rows, r.id) = r /\ r.id \in Nat
<1>1. rows \in Seq(SessionRow) /\ Len(rows) \in Nat /\ DOMAIN rows = 1..Len(rows)
  BY DEF IsDirectory
<1>2. \A i \in 1..Len(rows) : rows[i] \in ToSet(rows)
  BY <1>1 DEF ToSet
<1>3. rows \in Seq(ToSet(rows))
  BY <1>1, <1>2, SeqDef
<1>4. ASSUME NEW r \in ToSet(rows)
      PROVE  r \in SessionRow /\ r.id \in Listed(rows) /\ RowIn(rows, r.id) = r /\ r.id \in Nat
  <2>1. PICK i \in DOMAIN rows : r = rows[i]
    BY DEF ToSet
  <2>2. r.id \in Listed(rows)
    BY <2>1 DEF Listed
  <2> QED
    BY <2>1, <2>2, RowsAreFound
<1> QED
  BY <1>1, <1>3, <1>4

LEMMA ChildrenAre ==
  ASSUME NEW rows, IsDirectory(rows), NEW x
  PROVE  LET c == ContinuationChildren(rows, x)
         IN  /\ c \in Seq(ToSet(rows))
             /\ ToSet(c) = {rows[i] : i \in ChildRows(rows, x)}
             /\ IsFiniteSet(ChildRows(rows, x)) /\ Len(c) = Cardinality(ChildRows(rows, x))
<1> DEFINE I == {i \in DOMAIN rows : rows[i].parent = x /\ Continues(rows, rows[i])}
<1>1. I = ChildRows(rows, x)
  BY ContinuesIs DEF ChildRows
<1>2. I \cap DOMAIN rows = I
  OBVIOUS
<1>3. ContinuationChildren(rows, x) = RowsAt(rows, I)
  BY DEF ContinuationChildren
<1>4. rows \in Seq(ToSet(rows))
  BY DirectoryRows
<1> HIDE DEF I
<1>5. /\ RowsAt(rows, I) \in Seq(ToSet(rows))
      /\ ToSet(RowsAt(rows, I)) = {rows[i] : i \in I}
      /\ IsFiniteSet(I) /\ Len(RowsAt(rows, I)) = Cardinality(I)
  <2>1. /\ RowsAt(rows, I) \in Seq(ToSet(rows))
        /\ ToSet(RowsAt(rows, I)) = {rows[i] : i \in I \cap DOMAIN rows}
        /\ IsFiniteSet(I \cap DOMAIN rows)
        /\ Len(RowsAt(rows, I)) = Cardinality(I \cap DOMAIN rows)
    BY <1>4, RowsAtIs, Zenon
  <2> QED
    BY <1>2, <2>1, Zenon
<1> QED
  BY <1>1, <1>3, <1>5, Zenon

(* A session that was seen is dropped from the stack.                      *)
LEMMA VisitSeen ==
  ASSUME NEW rows, NEW w \in WalkState(rows), w.stack # <<>>,
         w.stack[Len(w.stack)].row.id \in ToSet(w.all)
  PROVE  LET v == Visit(rows, w)
         IN  /\ v \in WalkState(rows)
             /\ Len(v.stack) = Len(w.stack) - 1 /\ DOMAIN v.stack = 1..(Len(w.stack) - 1)
             /\ \A i \in DOMAIN v.stack : v.stack[i] = w.stack[i]
             /\ v.all = w.all /\ v.best = w.best
<1> DEFINE s == w.stack
           n == Len(s)
           rest == SubSeq(s, 1, n - 1)
<1>1. s \in Seq(StackEntry(rows)) /\ s # <<>>
  BY DEF WalkState
<1> HIDE DEF s
<1>2. n \in Nat /\ n >= 1 /\ Last(s) = s[n] /\ Front(s) = rest
  BY <1>1 DEF Last, Front
<1>3. /\ rest \in Seq(StackEntry(rows)) /\ Len(rest) = n - 1 /\ DOMAIN rest = 1..(n - 1)
      /\ \A i \in 1..(n - 1) : rest[i] = s[i]
  <2>1. 1 \in 1..n /\ n - 1 \in 0..n /\ n - 1 \in Nat
    BY <1>2
  <2>2. rest \in Seq(StackEntry(rows)) /\ Len(rest) = n - 1
    <3>1. \A i \in 1..(n - 1) : s[i] \in StackEntry(rows)
      BY <1>1
    <3> HIDE DEF n
    <3>2. 1 \in Int /\ n - 1 \in Int /\ (1 <= n - 1 => (n - 1) - 1 + 1 = n - 1) /\ (~(1 <= n - 1) => n - 1 = 0)
      BY <1>2
    <3>3. /\ rest \in Seq(StackEntry(rows))
          /\ Len(rest) = IF 1 <= n - 1 THEN (n - 1) - 1 + 1 ELSE 0
      BY <3>1, <3>2, SubSeqProperties
    <3> QED
      BY <3>2, <3>3
  <2>3. \A i \in 1..(n - 1) : rest[i] = s[i]
    BY <1>1, <1>2
  <2> HIDE DEF rest, n
  <2> QED
    BY <2>2, <2>3
<1> HIDE DEF rest, n
<1>4. Visit(rows, w) = [w EXCEPT !.stack = rest]
  BY <1>2 DEF Visit, s, n
<1>5. [w EXCEPT !.stack = rest] \in WalkState(rows)
  BY <1>3 DEF WalkState
<1>6. /\ [w EXCEPT !.stack = rest].stack = rest
      /\ [w EXCEPT !.stack = rest].all = w.all
      /\ [w EXCEPT !.stack = rest].best = w.best
  BY DEF WalkState
<1> QED
  BY <1>3, <1>4, <1>5, <1>6 DEF s, n

(* A new session is appended, and what follows it is put on the stack.     *)
LEMMA VisitNew ==
  ASSUME NEW rows, IsDirectory(rows), NEW w \in WalkState(rows), w.stack # <<>>,
         w.stack[Len(w.stack)].row.id \notin ToSet(w.all)
  PROVE  LET v == Visit(rows, w)
             n == Len(w.stack) - 1
             e == w.stack[Len(w.stack)]
             c == ContinuationChildren(rows, e.row.id)
         IN  /\ v \in WalkState(rows)
             /\ Len(v.stack) = n + Len(c) /\ DOMAIN v.stack = 1..(n + Len(c))
             /\ \A i \in 1..n : v.stack[i] = w.stack[i]
             /\ \A i \in 1..Len(c) : v.stack[n + i] = [row |-> c[i], path |-> Append(e.path, c[i].id)]
             /\ v.all = Append(w.all, e.row.id)
             /\ v.best = IF BetterTip(e, w.best) THEN e ELSE w.best
<1> DEFINE s == w.stack
           n == Len(s) - 1
           e == s[Len(s)]
           rest == SubSeq(s, 1, n)
           c == ContinuationChildren(rows, e.row.id)
           kids == [i \in DOMAIN c |-> [row |-> c[i], path |-> Append(e.path, c[i].id)]]
           all == Append(w.all, e.row.id)
           best == IF BetterTip(e, w.best) THEN e ELSE w.best
<1>1. /\ s \in Seq(StackEntry(rows)) /\ s # <<>>
      /\ w.all \in Seq(Listed(rows)) /\ w.best \in StackEntry(rows)
  BY DEF WalkState
<1>2. /\ c \in Seq(ToSet(rows)) /\ Len(c) \in Nat /\ DOMAIN c = 1..Len(c)
      /\ \A i \in 1..Len(c) : c[i] \in ToSet(rows)
  <2>1. c \in Seq(ToSet(rows))
    BY ChildrenAre
  <2> HIDE DEF c
  <2> QED
    BY <2>1
<1> HIDE DEF s, c
<1>3. /\ n \in Nat /\ Len(s) = n + 1 /\ Last(s) = e /\ Front(s) = rest /\ e \in StackEntry(rows)
      /\ rest \in Seq(StackEntry(rows)) /\ Len(rest) = n /\ \A i \in 1..n : rest[i] = s[i]
  <2>1. /\ n \in Nat /\ Len(s) = n + 1 /\ Last(s) = e /\ Front(s) = rest
    BY <1>1 DEF Last, Front
  <2>2. e \in StackEntry(rows)
    BY <1>1
  <2>3. rest \in Seq(StackEntry(rows)) /\ Len(rest) = n
    BY <1>1, <2>1
  <2>4. \A i \in 1..n : rest[i] = s[i]
    BY <1>1, <2>1
  <2> QED
    BY <2>1, <2>2, <2>3, <2>4
<1>4. e.row \in ToSet(rows) /\ e.path \in Seq(Nat) /\ e.row.id \in Listed(rows)
  BY <1>3, DirectoryRows DEF StackEntry
<1> HIDE DEF n, rest, e
<1>5. kids \in Seq(StackEntry(rows)) /\ Len(kids) = Len(c)
  <2>1. ASSUME NEW i \in 1..Len(c) PROVE kids[i] \in StackEntry(rows)
    <3>1. c[i] \in ToSet(rows) /\ c[i].id \in Nat
      BY <1>2, DirectoryRows
    <3>2. Append(e.path, c[i].id) \in Seq(Nat)
      BY <1>4, <3>1
    <3>3. kids[i] = [row |-> c[i], path |-> Append(e.path, c[i].id)]
      BY <1>2
    <3> HIDE DEF kids
    <3> QED
      BY <3>1, <3>2, <3>3 DEF StackEntry
  <2>2. DOMAIN kids = 1..Len(c) /\ kids = [i \in 1..Len(c) |-> kids[i]]
    BY <1>2
  <2> HIDE DEF kids
  <2> QED
    BY <1>2, <2>1, <2>2, SeqDef
<1>6. \A i \in 1..Len(c) : kids[i] = [row |-> c[i], path |-> Append(e.path, c[i].id)]
  BY <1>2
<1> HIDE DEF kids
<1> DEFINE stack == rest \o kids
<1>7. /\ stack \in Seq(StackEntry(rows)) /\ Len(stack) = n + Len(c) /\ DOMAIN stack = 1..(n + Len(c))
      /\ \A i \in 1..n : stack[i] = rest[i]
      /\ \A i \in 1..Len(c) : stack[n + i] = kids[i]
  BY <1>2, <1>3, <1>5
<1>8. all \in Seq(Listed(rows)) /\ best \in StackEntry(rows)
  BY <1>1, <1>3, <1>4
<1>9. Visit(rows, w) = [stack |-> stack, all |-> all, best |-> best]
  <2>1. e.row.id \notin ToSet(w.all) /\ Last(w.stack) = e /\ Front(w.stack) = rest
    BY <1>3 DEF s, e
  <2>2. kids = [i \in DOMAIN c |-> [row |-> c[i], path |-> Append(e.path, c[i].id)]]
    BY DEF kids
  <2> QED
    BY <2>1, <2>2, Zenon DEF Visit, c
<1> HIDE DEF stack, all, best
<1>10. [stack |-> stack, all |-> all, best |-> best] \in WalkState(rows)
  BY <1>7, <1>8 DEF WalkState
<1>11. /\ Visit(rows, w).stack = stack /\ Visit(rows, w).all = all /\ Visit(rows, w).best = best
       /\ Visit(rows, w) \in WalkState(rows)
  BY <1>9, <1>10
<1>12. /\ \A i \in 1..n : stack[i] = s[i]
       /\ \A i \in 1..Len(c) : stack[n + i] = [row |-> c[i], path |-> Append(e.path, c[i].id)]
  <2>1. \A i \in 1..n : stack[i] = s[i]
    BY <1>3, <1>7, Zenon
  <2>2. \A i \in 1..Len(c) : stack[n + i] = [row |-> c[i], path |-> Append(e.path, c[i].id)]
    BY <1>6, <1>7, Zenon
  <2> QED
    BY <2>1, <2>2, Zenon
<1> QED
  BY <1>7, <1>11, <1>12, Zenon DEF s, n, e, c, all, best

(* Each of the two rounds keeps the invariant of the walk.                 *)
LEMMA SeenKeeps ==
  ASSUME NEW rows, NEW x, NEW w, WalkInv(rows, x, w), w.stack # <<>>,
         w.stack[Len(w.stack)].row.id \in ToSet(w.all)
  PROVE  /\ WalkInv(rows, x, Visit(rows, w))
         /\ Len(Visit(rows, w).stack) = Len(w.stack) - 1
         /\ Unseen(rows, ToSet(Visit(rows, w).all)) = Unseen(rows, ToSet(w.all))
<1> DEFINE v == Visit(rows, w)
           n == Len(w.stack)
<1>1. /\ v \in WalkState(rows)
      /\ Len(v.stack) = n - 1 /\ DOMAIN v.stack = 1..(n - 1)
      /\ \A i \in DOMAIN v.stack : v.stack[i] = w.stack[i]
      /\ v.all = w.all /\ v.best = w.best
  BY VisitSeen DEF WalkInv
<1>2. n \in Nat /\ DOMAIN w.stack = 1..n
  BY DEF WalkInv, WalkState
<1> HIDE DEF v, n
<1>3. \A y : Stacked(w, y) => y \in ToSet(w.all) \/ Stacked(v, y)
  <2> SUFFICES ASSUME NEW y, NEW i \in 1..n, w.stack[i].row.id = y
               PROVE  y \in ToSet(w.all) \/ Stacked(v, y)
    BY <1>2 DEF Stacked
  <2>1. CASE i = n
    BY <2>1 DEF n
  <2>2. CASE i # n
    <3>1. i \in DOMAIN v.stack
      BY <1>1, <1>2, <2>2
    <3> QED
      BY <1>1, <3>1 DEF Stacked
  <2> QED
    BY <2>1, <2>2
<1>4. \A i \in DOMAIN v.stack : i \in DOMAIN w.stack /\ v.stack[i] = w.stack[i]
  BY <1>1, <1>2
<1>5. WalkInv(rows, x, v)
  BY <1>1, <1>3, <1>4 DEF WalkInv
<1> QED
  BY <1>1, <1>5 DEF v, n

(* The best so far is as good as what was seen, after the next is seen too. *)
LEMMA BestStaysBest ==
  ASSUME NEW rows, IsDirectory(rows), NEW e \in StackEntry(rows), NEW b \in StackEntry(rows)
  PROVE  LET best == IF BetterTip(e, b) THEN e ELSE b
         IN  /\ NoWorse(best.row, e.row)
             /\ \A r \in ToSet(rows) : NoWorse(b.row, r) => NoWorse(best.row, r)
<1>1. /\ e.row \in SessionRow /\ b.row \in SessionRow /\ e.path \in Seq(Nat) /\ b.path \in Seq(Nat)
      /\ ToSet(rows) \subseteq SessionRow
  BY DirectoryRows DEF StackEntry
<1>2. /\ e.row.importable \in BOOLEAN /\ b.row.importable \in BOOLEAN
      /\ e.row.activityAt \in Nat /\ b.row.activityAt \in Nat
      /\ \A r \in ToSet(rows) : r.importable \in BOOLEAN /\ r.activityAt \in Nat
  BY <1>1 DEF SessionRow
<1>3. CASE BetterTip(e, b)
  <2>1. \/ e.row.importable /\ ~b.row.importable
        \/ e.row.importable = b.row.importable /\ e.row.activityAt >= b.row.activityAt
    BY <1>2, <1>3 DEF BetterTip
  <2>2. NoWorse(e.row, e.row)
    BY <1>2 DEF NoWorse
  <2>3. \A r \in ToSet(rows) : NoWorse(b.row, r) => NoWorse(e.row, r)
    BY <1>2, <2>1 DEF NoWorse
  <2> QED
    BY <1>3, <2>2, <2>3
<1>4. CASE ~BetterTip(e, b)
  <2>1. \/ ~e.row.importable /\ b.row.importable
        \/ e.row.importable = b.row.importable /\ ~(e.row.activityAt > b.row.activityAt)
    BY <1>2, <1>4 DEF BetterTip
  <2>2. NoWorse(b.row, e.row)
    BY <1>2, <2>1 DEF NoWorse
  <2> QED
    BY <1>4, <2>2
<1> QED
  BY <1>3, <1>4

LEMMA PathGrows ==
  ASSUME NEW rows, NEW x, NEW e, PathFrom(rows, x, e), e.path \in Seq(Nat),
         NEW r, r.id \in Nat, RowIn(rows, r.id).parent = e.row.id
  PROVE  PathFrom(rows, x, [row |-> r, path |-> Append(e.path, r.id)])
<1> DEFINE q == e.path
           p == Append(q, r.id)
           n == Len(q)
<1>1. q \in Seq(Nat) /\ q # <<>> /\ n \in Nat /\ n >= 1
  BY DEF PathFrom
<1>2. q[1] = x /\ q[n] = e.row.id /\ \A i \in 2..n : RowIn(rows, q[i]).parent = q[i - 1]
  BY DEF PathFrom
<1> HIDE DEF q
<1>3. p # <<>> /\ Len(p) = n + 1 /\ p[n + 1] = r.id /\ \A i \in 1..n : p[i] = q[i]
  BY <1>1
<1> HIDE DEF p, n
<1>4. p[1] = x
  <2>1. 1 \in 1..n
    BY <1>1
  <2> QED
    BY <1>2, <1>3, <2>1
<1>5. ASSUME NEW i \in 2..(n + 1) PROVE RowIn(rows, p[i]).parent = p[i - 1]
  <2>1. i - 1 \in 1..n /\ p[i - 1] = q[i - 1]
    BY <1>1, <1>3
  <2>2. CASE i = n + 1
    <3>1. p[i] = r.id /\ q[i - 1] = e.row.id
      BY <1>1, <1>2, <1>3, <2>2
    <3> QED
      BY <2>1, <3>1
  <2>3. CASE i # n + 1
    <3>1. i \in 2..n /\ i \in 1..n
      BY <1>1, <2>3
    <3>2. p[i] = q[i] /\ RowIn(rows, q[i]).parent = q[i - 1]
      BY <1>2, <1>3, <3>1
    <3> QED
      BY <2>1, <3>2
  <2> QED
    BY <2>2, <2>3
<1> DEFINE f == [row |-> r, path |-> p]
<1>6. f.path = p /\ f.row = r
  OBVIOUS
<1> HIDE DEF f
<1>7. PathFrom(rows, x, f)
  BY <1>3, <1>4, <1>5, <1>6 DEF PathFrom
<1> QED
  BY <1>7 DEF f, p, q

(* The second: what follows the new session is on the stack now.           *)
LEMMA NewKeeps ==
  ASSUME NEW rows, IsDirectory(rows), NEW x \in Listed(rows),
         NEW w, WalkInv(rows, x, w), w.stack # <<>>,
         w.stack[Len(w.stack)].row.id \notin ToSet(w.all)
  PROVE  /\ WalkInv(rows, x, Visit(rows, w))
         /\ Len(Visit(rows, w).stack) + Cardinality(Unseen(rows, ToSet(Visit(rows, w).all)))
               = Len(w.stack) + Cardinality(Unseen(rows, ToSet(w.all))) - 1
<1> DEFINE v == Visit(rows, w)
           n == Len(w.stack) - 1
           e == w.stack[Len(w.stack)]
           z == e.row.id
           c == ContinuationChildren(rows, z)
           D == Descendants(rows, x)
<1>1. /\ v \in WalkState(rows)
      /\ Len(v.stack) = n + Len(c) /\ DOMAIN v.stack = 1..(n + Len(c))
      /\ \A i \in 1..n : v.stack[i] = w.stack[i]
      /\ \A i \in 1..Len(c) : v.stack[n + i] = [row |-> c[i], path |-> Append(e.path, c[i].id)]
      /\ v.all = Append(w.all, z)
      /\ v.best = IF BetterTip(e, w.best) THEN e ELSE w.best
  BY VisitNew DEF WalkInv
<1>2. /\ w \in WalkState(rows)
      /\ ToSet(w.all) \subseteq D
      /\ \A i \in DOMAIN w.stack : w.stack[i].row.id \in D /\ PathFrom(rows, x, w.stack[i])
      /\ \A y \in Listed(rows) :
          Follows(rows, y) /\ RowIn(rows, y).parent \in ToSet(w.all) => y \in ToSet(w.all) \/ Stacked(w, y)
      /\ x \in ToSet(w.all) \/ Stacked(w, x)
      /\ PathFrom(rows, x, w.best) /\ w.best.row.id \in ToSet(w.all) \cup {x}
      /\ \A y \in ToSet(w.all) : NoWorse(w.best.row, RowIn(rows, y))
  BY DEF WalkInv
<1>3. /\ w.stack \in Seq(StackEntry(rows)) /\ Len(w.stack) \in Nat /\ n \in Nat /\ Len(w.stack) = n + 1
      /\ DOMAIN w.stack = 1..(n + 1) /\ e \in StackEntry(rows) /\ w.best \in StackEntry(rows)
      /\ w.all \in Seq(Listed(rows))
  BY <1>2 DEF WalkState
<1>4. /\ c \in Seq(ToSet(rows)) /\ Len(c) \in Nat /\ DOMAIN c = 1..Len(c)
      /\ ToSet(c) = {rows[i] : i \in ChildRows(rows, z)}
      /\ IsFiniteSet(ChildRows(rows, z)) /\ Len(c) = Cardinality(ChildRows(rows, z))
  <2>1. /\ c \in Seq(ToSet(rows))
        /\ ToSet(c) = {rows[i] : i \in ChildRows(rows, z)}
        /\ IsFiniteSet(ChildRows(rows, z)) /\ Len(c) = Cardinality(ChildRows(rows, z))
    BY ChildrenAre
  <2>2. Len(c) \in Nat /\ DOMAIN c = 1..Len(c)
    <3> HIDE DEF c
    <3> QED
      BY <2>1
  <2> QED
    BY <2>1, <2>2, Zenon
<1>5. /\ D \subseteq Listed(rows) /\ Closed(rows, D)
  BY DescendantsAre
<1>6. e.row \in ToSet(rows) /\ e.path \in Seq(Nat) /\ z \in Listed(rows) /\ RowIn(rows, z) = e.row
  BY <1>3, DirectoryRows DEF StackEntry
<1>7. z \in D /\ PathFrom(rows, x, e) /\ z \notin ToSet(w.all)
  BY <1>2, <1>3
<1> HIDE DEF v, n, e, c, D
<1>8. ToSet(v.all) = ToSet(w.all) \cup {z}
  <2> DEFINE q == w.all
             p == Append(q, z)
  <2>1. q \in Seq(Listed(rows))
    BY <1>3
  <2> HIDE DEF q, z
  <2>2. p \in Seq(Listed(rows) \cup {z}) /\ DOMAIN p = (DOMAIN q) \cup {Len(q) + 1} /\ p[Len(q) + 1] = z
    BY <2>1
  <2>3. \A i \in DOMAIN q : p[i] = q[i]
    BY <2>1
  <2> HIDE DEF p
  <2>4. ToSet(p) = ToSet(q) \cup {z}
    BY <2>2, <2>3 DEF ToSet
  <2> QED
    BY <1>1, <2>4 DEF p, q
<1>9. \A i \in 1..Len(c) :
         /\ c[i] \in ToSet(rows) /\ c[i].id \in Nat /\ c[i].id \in Listed(rows)
         /\ RowIn(rows, c[i].id) = c[i] /\ Follows(rows, c[i].id) /\ c[i].parent = z
  <2> SUFFICES ASSUME NEW i \in 1..Len(c)
               PROVE  /\ c[i] \in ToSet(rows) /\ c[i].id \in Nat /\ c[i].id \in Listed(rows)
                      /\ RowIn(rows, c[i].id) = c[i] /\ Follows(rows, c[i].id) /\ c[i].parent = z
    OBVIOUS
  <2>1. c[i] \in ToSet(c)
    BY <1>4 DEF ToSet
  <2>2. PICK j \in ChildRows(rows, z) : c[i] = rows[j]
    BY <1>4, <2>1
  <2>3. c[i] \in ToSet(rows) /\ Follows(rows, c[i].id) /\ c[i].parent = z
    BY <2>2 DEF ChildRows, ToSet
  <2> QED
    BY <2>3, DirectoryRows
<1>10. \A i \in DOMAIN v.stack : i \in 1..n \/ \E j \in 1..Len(c) : i = n + j
  <2> SUFFICES ASSUME NEW i \in DOMAIN v.stack, i \notin 1..n PROVE \E j \in 1..Len(c) : i = n + j
    OBVIOUS
  <2>1. i - n \in 1..Len(c) /\ i = n + (i - n)
    BY <1>1, <1>3, <1>4
  <2> QED
    BY <2>1
<1>11. ASSUME NEW i \in DOMAIN v.stack
       PROVE  v.stack[i].row.id \in D /\ PathFrom(rows, x, v.stack[i])
  <2>1. CASE i \in 1..n
    <3>1. i \in DOMAIN w.stack
      BY <1>3, <2>1
    <3> QED
      BY <1>1, <1>2, <2>1, <3>1
  <2>2. ASSUME NEW j \in 1..Len(c), i = n + j
        PROVE  v.stack[i].row.id \in D /\ PathFrom(rows, x, v.stack[i])
    <3>1. v.stack[i] = [row |-> c[j], path |-> Append(e.path, c[j].id)]
      BY <1>1, <2>2
    <3>2. /\ c[j].id \in Nat /\ c[j].id \in Listed(rows)
          /\ RowIn(rows, c[j].id) = c[j] /\ Follows(rows, c[j].id) /\ c[j].parent = z
      BY <1>9
    <3>3. c[j].id \in D
      BY <1>5, <1>7, <3>2 DEF Closed
    <3>4. PathFrom(rows, x, [row |-> c[j], path |-> Append(e.path, c[j].id)])
      BY <1>6, <1>7, <3>2, PathGrows
    <3> QED
      BY <3>1, <3>3, <3>4
  <2> QED
    BY <1>10, <2>1, <2>2
<1>12. \A y : Stacked(w, y) => y \in ToSet(v.all) \/ Stacked(v, y)
  <2> SUFFICES ASSUME NEW y, NEW i \in DOMAIN w.stack, w.stack[i].row.id = y
               PROVE  y \in ToSet(v.all) \/ Stacked(v, y)
    BY DEF Stacked
  <2>1. CASE i = n + 1
    BY <1>3, <1>8, <2>1 DEF e
  <2>2. CASE i # n + 1
    <3>1. i \in 1..n /\ i \in DOMAIN v.stack
      BY <1>1, <1>3, <1>4, <2>2
    <3> QED
      BY <1>1, <3>1 DEF Stacked
  <2> QED
    BY <2>1, <2>2
<1>13. ASSUME NEW y \in Listed(rows), Follows(rows, y), RowIn(rows, y).parent \in ToSet(v.all)
       PROVE  y \in ToSet(v.all) \/ Stacked(v, y)
  <2>1. CASE RowIn(rows, y).parent \in ToSet(w.all)
    BY <1>2, <1>8, <1>12, <1>13, <2>1
  <2>2. CASE RowIn(rows, y).parent = z
    <3>1. PICK j \in DOMAIN rows : rows[j].id = y
      BY DEF Listed
    <3>2. RowIn(rows, y) = rows[j]
      BY <3>1, RowsAreFound
    <3>3. j \in ChildRows(rows, z)
      BY <1>13, <2>2, <3>1, <3>2 DEF ChildRows
    <3>4. rows[j] \in ToSet(c)
      BY <1>4, <3>3
    <3>5. PICK i \in 1..Len(c) : c[i] = rows[j]
      BY <1>4, <3>4 DEF ToSet
    <3>6. n + i \in DOMAIN v.stack
      BY <1>1, <1>3, <1>4
    <3>7. v.stack[n + i].row = c[i]
      <4>1. v.stack[n + i] = [row |-> c[i], path |-> Append(e.path, c[i].id)]
        BY <1>1
      <4> QED
        BY <4>1
    <3> QED
      BY <3>1, <3>5, <3>6, <3>7 DEF Stacked
  <2> QED
    BY <1>8, <1>13, <2>1, <2>2
<1>14. x \in ToSet(v.all) \/ Stacked(v, x)
  BY <1>2, <1>8, <1>12
<1>15. /\ PathFrom(rows, x, v.best) /\ v.best.row.id \in ToSet(v.all) \cup {x}
       /\ \A y \in ToSet(v.all) : NoWorse(v.best.row, RowIn(rows, y))
  <2>1. v.best \in {e, w.best}
    BY <1>1
  <2>2. PathFrom(rows, x, v.best) /\ v.best.row.id \in ToSet(v.all) \cup {x}
    BY <1>2, <1>7, <1>8, <2>1
  <2>3. NoWorse(v.best.row, e.row) /\ \A r \in ToSet(rows) : NoWorse(w.best.row, r) => NoWorse(v.best.row, r)
    BY <1>1, <1>3, BestStaysBest
  <2>4. \A y \in ToSet(w.all) : RowIn(rows, y) \in ToSet(rows)
    BY <1>2, <1>5, RowsAreFound
  <2> QED
    BY <1>2, <1>6, <1>8, <2>2, <2>3, <2>4
<1>16. WalkInv(rows, x, v)
  <2>1. ToSet(v.all) \subseteq D
    BY <1>2, <1>7, <1>8
  <2> QED
    BY <1>1, <1>11, <1>13, <1>14, <1>15, <2>1 DEF WalkInv, D
<1>17. Len(v.stack) + Cardinality(Unseen(rows, ToSet(v.all)))
           = Len(w.stack) + Cardinality(Unseen(rows, ToSet(w.all))) - 1
  <2> DEFINE U == Unseen(rows, ToSet(w.all))
             K == ChildRows(rows, z)
  <2>1. Unseen(rows, ToSet(v.all)) = U \ K /\ U \cap K = K
    BY <1>7, <1>8 DEF Unseen, ChildRows
  <2>2. IsFiniteSet(U)
    <3>1. IsFiniteSet(DOMAIN rows)
      BY DirectoryRows, FS_Interval
    <3>2. U \in SUBSET DOMAIN rows
      BY DEF Unseen
    <3> HIDE DEF U
    <3> QED
      BY <3>1, <3>2, FS_Subset
  <2> HIDE DEF U, K
  <2>3. Cardinality(U \ K) = Cardinality(U) - Len(c) /\ Cardinality(U) \in Nat
    <3>1. Cardinality(U \ K) = Cardinality(U) - Cardinality(U \cap K)
      BY <2>2, FS_Difference
    <3>2. Cardinality(U) \in Nat
      BY <2>2, FS_CardinalityType
    <3>3. Cardinality(U \cap K) = Len(c)
      BY <1>4, <2>1 DEF K
    <3> QED
      BY <3>1, <3>2, <3>3
  <2> QED
    BY <1>1, <1>3, <1>4, <2>1, <2>3 DEF U
<1> QED
  BY <1>16, <1>17 DEF v

(* What is still to be pushed is bounded by the number of rows.            *)
LEMMA UnseenIsFinite ==
  ASSUME NEW rows, IsDirectory(rows), NEW seen
  PROVE  Cardinality(Unseen(rows, seen)) \in Nat /\ Cardinality(Unseen(rows, seen)) <= Len(rows)
<1>1. Len(rows) \in Nat /\ DOMAIN rows = 1..Len(rows)
  BY DirectoryRows
<1>2. IsFiniteSet(DOMAIN rows) /\ Cardinality(DOMAIN rows) = Len(rows)
  <2> DEFINE L == Len(rows)
  <2> HIDE DEF L
  <2>1. L \in Nat /\ 1 \in Int /\ L \in Int
    BY <1>1 DEF L
  <2>2. IsFiniteSet(1..L) /\ Cardinality(1..L) = IF 1 > L THEN 0 ELSE L - 1 + 1
    BY <2>1, FS_Interval
  <2>3. Cardinality(1..L) = L
    BY <2>1, <2>2
  <2> QED
    BY <1>1, <2>2, <2>3 DEF L
<1>3. Unseen(rows, seen) \in SUBSET DOMAIN rows
  BY DEF Unseen
<1>4. IsFiniteSet(Unseen(rows, seen)) /\ Cardinality(Unseen(rows, seen)) <= Cardinality(DOMAIN rows)
  BY <1>2, <1>3, FS_Subset
<1> QED
  BY <1>2, <1>4, FS_CardinalityType

(* The walk ends, and keeps its invariant to the end. *)
LEMMA WalkEnds ==
  ASSUME NEW rows, IsDirectory(rows), NEW x \in Listed(rows)
  PROVE  LET w == Walk(rows, RowIn(rows, x))
         IN  WalkInv(rows, x, w) /\ w.stack = <<>>
<1> DEFINE r == RowIn(rows, x)
           N == 1 + Len(rows)
           start == [row |-> r, path |-> <<r.id>>]
           w0 == [stack |-> <<start>>, all |-> <<>>, best |-> start]
           d == [n \in 1..N |-> [w \in WalkState(rows) |-> Round(rows, w)]]
           h == CHOOSE h : h = [n \in 0..N |-> IF n = 0 THEN w0 ELSE Round(rows, h[n - 1])]
<1>1. r \in ToSet(rows) /\ r.id = x /\ x \in Nat
  BY RowsAreFound
<1>2. N \in Nat /\ Len(rows) \in Nat
  BY DirectoryRows
<1>3. start \in StackEntry(rows)
  BY <1>1 DEF StackEntry
<1>4. w0 \in WalkState(rows)
  <2> HIDE DEF start
  <2>1. <<start>> \in Seq(StackEntry(rows)) /\ <<>> \in Seq(Listed(rows))
    BY <1>3
  <2> QED
    BY <1>3, <2>1 DEF WalkState
<1>5. \A w \in WalkState(rows) : Round(rows, w) \in WalkState(rows)
  BY VisitSeen, VisitNew DEF Round
<1>6. d \in [1..N -> [WalkState(rows) -> WalkState(rows)]]
  <2> HIDE DEF N
  <2> QED
    BY <1>5
<1>7. PICK g : IsHistory(g, WalkState(rows), N, w0, d)
  <2> HIDE DEF N, d, h, w0
  <2> QED
    BY <1>2, <1>4, <1>6, HistoryExists
<1>8. \A n \in 1..N : n \in 0..N /\ n - 1 \in 0..N /\ n # 0
  BY <1>2
<1>9. g \in [0..N -> WalkState(rows)] /\ g[0] = w0 /\ \A n \in 1..N : g[n] = Round(rows, g[n - 1])
  <2>1. g \in [0..N -> WalkState(rows)] /\ g[0] = w0 /\ \A n \in 1..N : g[n] = d[n][g[n - 1]]
    <3> HIDE DEF N, d, h, w0
    <3> QED
      BY <1>7, Zenon DEF IsHistory
  <2>2. ASSUME NEW n \in 1..N PROVE g[n] = Round(rows, g[n - 1])
    <3>1. g[n - 1] \in WalkState(rows) /\ g[n] = d[n][g[n - 1]]
      <4> HIDE DEF N, d, h, w0
      <4> QED
        BY <1>8, <2>1
    <3> HIDE DEF N, h, w0
    <3> QED
      BY <3>1
  <2> QED
    BY <2>1, <2>2, Zenon
<1>10. g = [n \in 0..N |-> IF n = 0 THEN w0 ELSE Round(rows, g[n - 1])]
  <2>1. \A n \in 0..N : n # 0 => n \in 1..N
    BY <1>2
  <2> HIDE DEF d, N, h, w0
  <2>2. \A n \in 0..N : g[n] = IF n = 0 THEN w0 ELSE Round(rows, g[n - 1])
    BY <1>9, <2>1, Zenon
  <2> QED
    BY <1>9, <2>2
<1>11. h = [n \in 0..N |-> IF n = 0 THEN w0 ELSE Round(rows, h[n - 1])]
  BY <1>10, Zenon
<1>12. Walk(rows, r) = h[N]
  BY Zenon DEF Walk
<1> HIDE DEF h, d, N
<1> DEFINE Left(w) == Len(w.stack) + Cardinality(Unseen(rows, ToSet(w.all)))
           T == {n \in 0..N : WalkInv(rows, x, h[n]) /\ (h[n].stack # <<>> => Left(h[n]) + n <= N)}
<1>13. 0 \in T
  <2>1. h[0] = w0 /\ 0 \in 0..N
    BY <1>2, <1>11
  <2>2. w0.stack = <<start>> /\ w0.all = <<>> /\ w0.best = start /\ Len(w0.stack) = 1
        /\ start.row = r /\ start.path = <<x>> /\ start.path # <<>> /\ start.path[1] = x
        /\ Len(start.path) = 1
    BY <1>1
  <2>3. ToSet(w0.all) = {}
    BY <2>2 DEF ToSet
  <2>4. PathFrom(rows, x, start)
    <3> HIDE DEF start
    <3> QED
      BY <1>1, <2>2 DEF PathFrom
  <2>5. DOMAIN w0.stack = {1} /\ w0.stack[1] = start
    <3> HIDE DEF start
    <3>1. DOMAIN <<start>> = {1} /\ <<start>>[1] = start
      OBVIOUS
    <3> QED
      BY <2>2, <3>1
  <2> HIDE DEF w0, start
  <2>6. Stacked(w0, x)
    BY <1>1, <2>2, <2>5 DEF Stacked
  <2>7. x \in Descendants(rows, x)
    BY DescendantsAre
  <2>8. WalkInv(rows, x, w0)
    BY <1>1, <1>4, <2>2, <2>3, <2>4, <2>5, <2>6, <2>7 DEF WalkInv
  <2>9. Left(w0) + 0 <= N
    BY <1>2, <2>2, UnseenIsFinite DEF N
  <2> HIDE DEF Left
  <2> QED
    BY <2>1, <2>8, <2>9
<1> HIDE DEF w0, start
<1>14. ASSUME NEW n \in 1..N, n - 1 \in T PROVE n \in T
  <2> DEFINE u == h[n - 1]
             v == h[n]
  <2>1. n \in 0..N /\ n # 0 /\ n \in Nat
    BY <1>2, <1>8
  <2>2. v = Round(rows, u)
    BY <1>11, <2>1
  <2>3. WalkInv(rows, x, u) /\ (u.stack # <<>> => Left(u) + (n - 1) <= N)
    BY <1>14, Zenon
  <2> HIDE DEF u, v
  <2>4. CASE u.stack = <<>>
    <3>1. v = u
      BY <2>2, <2>4 DEF Round
    <3> HIDE DEF Left
    <3> QED
      BY <2>1, <2>3, <2>4, <3>1 DEF v
  <2>5. CASE u.stack # <<>>
    <3>1. v = Visit(rows, u)
      BY <2>2, <2>5 DEF Round
    <3>2. WalkInv(rows, x, v) /\ Left(v) = Left(u) - 1
      <4>1. CASE u.stack[Len(u.stack)].row.id \in ToSet(u.all)
        <5>1. /\ WalkInv(rows, x, v) /\ Len(v.stack) = Len(u.stack) - 1
              /\ Unseen(rows, ToSet(v.all)) = Unseen(rows, ToSet(u.all))
          BY <2>3, <2>5, <3>1, <4>1, SeenKeeps
        <5>2. Len(u.stack) \in Nat
          BY <2>3 DEF WalkInv, WalkState
        <5> QED
          BY <5>1, <5>2, UnseenIsFinite
      <4>2. CASE u.stack[Len(u.stack)].row.id \notin ToSet(u.all)
        <5>1. /\ WalkInv(rows, x, Visit(rows, u))
              /\ Left(Visit(rows, u)) = Left(u) - 1
          <6> HIDE DEF T, r
          <6>1. WalkInv(rows, x, Visit(rows, u))
            BY <2>3, <2>5, <4>2, NewKeeps
          <6>2. Len(Visit(rows, u).stack) + Cardinality(Unseen(rows, ToSet(Visit(rows, u).all)))
                   = Len(u.stack) + Cardinality(Unseen(rows, ToSet(u.all))) - 1
            BY <2>3, <2>5, <4>2, NewKeeps
          <6>3. Len(u.stack) \in Nat /\ Cardinality(Unseen(rows, ToSet(u.all))) \in Nat
            <7>1. Len(u.stack) \in Nat
              BY <2>3 DEF WalkInv, WalkState
            <7> QED
              BY <7>1, UnseenIsFinite
          <6> QED
            BY <6>1, <6>2, <6>3
        <5> HIDE DEF Left
        <5> QED
          BY <3>1, <5>1
      <4> QED
        BY <4>1, <4>2
    <3>3. Left(u) \in Nat
      <4>1. Len(u.stack) \in Nat
        BY <2>3 DEF WalkInv, WalkState
      <4> QED
        BY <4>1, UnseenIsFinite
    <3> HIDE DEF Left
    <3>4. Left(v) + n <= N
      BY <1>2, <2>1, <2>3, <2>5, <3>2, <3>3
    <3> QED
      BY <2>1, <3>2, <3>4 DEF v
  <2> QED
    BY <2>4, <2>5
<1>15. N \in T
  <2>1. N \in 0..N
    BY <1>2
  <2> HIDE DEF T
  <2> QED
    BY <1>2, <1>13, <1>14, <2>1, UpTo
<1>16. WalkInv(rows, x, h[N]) /\ (h[N].stack # <<>> => Left(h[N]) + N <= N)
  BY <1>15, Zenon
<1>17. h[N].stack = <<>>
  <2>1. h[N].stack \in Seq(StackEntry(rows))
    BY <1>16 DEF WalkInv, WalkState
  <2>2. Len(h[N].stack) \in Nat /\ (h[N].stack # <<>> => Len(h[N].stack) > 0)
    BY <2>1
  <2> QED
    BY <1>2, <1>16, <2>2, UnseenIsFinite
<1> QED
  BY <1>12, <1>16, <1>17, Zenon

(* What a walk from a listed session finds. *)
GoodLineage(rows, x, f) ==
    /\ f = Lineage(f.root, f.tip, f.path, f.all)
    /\ f.root = x /\ f.path \in Seq(Nat) /\ f.all \in Seq(Nat) /\ f.tip \in ToSet(f.all)
    /\ ToSet(f.all) = Descendants(rows, x)
    /\ \A y \in ToSet(f.all) : NoWorse(RowIn(rows, f.tip), RowIn(rows, y))
    /\ f.path # <<>> /\ f.path[1] = x /\ Last(f.path) = f.tip
    /\ \A i \in 2..Len(f.path) : RowIn(rows, f.path[i]).parent = f.path[i - 1]

(* The lineage of a walk is what came of its root.                         *)
LEMMA WalkedIs ==
  ASSUME NEW rows, IsDirectory(rows), NEW x \in Listed(rows)
  PROVE  GoodLineage(rows, x, WalkedLineage(rows, RowIn(rows, x)))
<1> DEFINE r == RowIn(rows, x)
           w == Walk(rows, r)
           f == WalkedLineage(rows, r)
           D == Descendants(rows, x)
<1>1. WalkInv(rows, x, w) /\ w.stack = <<>>
  BY WalkEnds
<1>2. r.id = x
  BY RowsAreFound
<1> HIDE DEF w
<1>3. f = [root |-> x, tip |-> w.best.row.id, path |-> w.best.path, all |-> w.all]
  BY <1>2 DEF WalkedLineage, Lineage, w
<1> HIDE DEF f
<1>4. /\ f.root = x /\ f.tip = w.best.row.id /\ f.path = w.best.path /\ f.all = w.all
      /\ f = Lineage(f.root, f.tip, f.path, f.all)
  BY <1>3 DEF Lineage
<1>5. \A y : ~Stacked(w, y)
  BY <1>1 DEF Stacked
<1>6. /\ w.best \in StackEntry(rows) /\ w.all \in Seq(Listed(rows))
      /\ ToSet(w.all) \subseteq Listed(rows)
  BY <1>1 DEF WalkInv, WalkState, ToSet
<1>7. ToSet(w.all) = D
  <2>1. x \in ToSet(w.all) /\ Closed(rows, ToSet(w.all))
    BY <1>1, <1>5 DEF WalkInv, Closed
  <2> QED
    BY <1>1, <1>6, <2>1, DescendantsAre DEF WalkInv
<1>8. x \in D
  BY DescendantsAre
<1>9. w.best.row \in ToSet(rows) /\ w.best.path \in Seq(Nat) /\ RowIn(rows, w.best.row.id) = w.best.row
  BY <1>6, DirectoryRows DEF StackEntry
<1>10. f.path \in Seq(Nat) /\ f.all \in Seq(Nat)
  <2>1. Listed(rows) \subseteq Nat
    BY RowsAreFound
  <2>2. w.all \in Seq(Nat)
    BY <1>6, <2>1, SeqDef
  <2> QED
    BY <1>4, <1>9, <2>2
<1>11. \A y \in D : NoWorse(RowIn(rows, f.tip), RowIn(rows, y))
  BY <1>1, <1>4, <1>7, <1>9 DEF WalkInv
<1>12. /\ f.path # <<>> /\ f.path[1] = x /\ f.path[Len(f.path)] = f.tip
       /\ \A i \in 2..Len(f.path) : RowIn(rows, f.path[i]).parent = f.path[i - 1]
  BY <1>1, <1>4 DEF WalkInv, PathFrom
<1>13. f.tip \in D
  BY <1>1, <1>4, <1>7, <1>8 DEF WalkInv
<1> QED
  BY <1>4, <1>7, <1>10, <1>11, <1>12, <1>13, Zenon DEF GoodLineage, Last, f

-----------------------------------------------------------------------------
(* The hints: each joins its row with the lineage of the root it names *)

LineageRecord == [root : Nat, tip : Nat, path : Seq(Nat), all : Seq(Nat)]

LineageMaps == UNION {[Q -> LineageRecord] : Q \in SUBSET Nat}

HintRow == {r \in SessionRow : r.rootHint # 0}

HintTip(row) == IF row.tipHint # 0 THEN row.tipHint ELSE row.id

LEMMA LineageMapIs ==
  ASSUME NEW m \in LineageMaps
  PROVE  DOMAIN m \subseteq Nat /\ \A x \in DOMAIN m : m[x] \in LineageRecord
<1>1. PICK Q \in SUBSET Nat : m \in [Q -> LineageRecord]
  BY DEF LineageMaps
<1> QED
  BY <1>1

LEMMA AllOfSeveral ==
  ASSUME NEW p \in Seq(Nat), NEW q \in Seq(Nat), NEW a \in Nat, NEW b \in Nat, NEW c \in Nat
  PROVE  /\ p \o q \o <<a, b, c>> \in Seq(Nat)
         /\ ToSet(p \o q \o <<a, b, c>>) = ToSet(p) \cup ToSet(q) \cup {a, b, c}
<1>1. \A s, t \in Seq(Nat) : s \o t \in Seq(Nat) /\ ToSet(s \o t) = ToSet(s) \cup ToSet(t)
  <2> SUFFICES ASSUME NEW s \in Seq(Nat), NEW t \in Seq(Nat)
               PROVE  s \o t \in Seq(Nat) /\ ToSet(s \o t) = ToSet(s) \cup ToSet(t)
    OBVIOUS
  <2> DEFINE u == s \o t
  <2>1. /\ u \in Seq(Nat) /\ Len(s) \in Nat /\ Len(t) \in Nat
        /\ DOMAIN s = 1..Len(s) /\ DOMAIN t = 1..Len(t) /\ DOMAIN u = 1..(Len(s) + Len(t))
    OBVIOUS
  <2>2. /\ \A i \in 1..Len(s) : u[i] = s[i]
        /\ \A i \in 1..Len(t) : u[Len(s) + i] = t[i]
    OBVIOUS
  <2> HIDE DEF u
  <2>3. \A i \in DOMAIN s : i \in DOMAIN u
    BY <2>1
  <2>4. \A i \in DOMAIN t : Len(s) + i \in DOMAIN u
    BY <2>1, SMTT(40)
  <2>5. \A i \in DOMAIN u : i \in DOMAIN s \/ \E j \in DOMAIN t : i = Len(s) + j
    <3> SUFFICES ASSUME NEW i \in DOMAIN u, i \notin DOMAIN s
                 PROVE  \E j \in DOMAIN t : i = Len(s) + j
      OBVIOUS
    <3>1. i - Len(s) \in DOMAIN t /\ i = Len(s) + (i - Len(s))
      BY <2>1
    <3> QED
      BY <3>1
  <2>6. ToSet(u) \subseteq ToSet(s) \cup ToSet(t)
    <3> SUFFICES ASSUME NEW i \in DOMAIN u PROVE u[i] \in ToSet(s) \cup ToSet(t)
      BY DEF ToSet
    <3>1. CASE i \in DOMAIN s
      BY <2>1, <2>2, <3>1 DEF ToSet
    <3>2. ASSUME NEW j \in DOMAIN t, i = Len(s) + j PROVE u[i] \in ToSet(t)
      BY <2>1, <2>2, <3>2 DEF ToSet
    <3> QED
      BY <2>5, <3>1, <3>2
  <2>7. ToSet(s) \subseteq ToSet(u)
    BY <2>1, <2>2, <2>3 DEF ToSet
  <2>8. ToSet(t) \subseteq ToSet(u)
    BY <2>1, <2>2, <2>4 DEF ToSet
  <2> QED
    BY <2>1, <2>6, <2>7, <2>8 DEF u
<1>2. <<a, b, c>> \in Seq(Nat)
  OBVIOUS
<1>3. ToSet(<<a, b, c>>) = {a, b, c}
  <2> DEFINE s == <<a, b, c>>
  <2>1. DOMAIN s = {1, 2, 3} /\ s[1] = a /\ s[2] = b /\ s[3] = c
    <3>1. Len(s) = 3
      OBVIOUS
    <3> QED
      BY <3>1
  <2> HIDE DEF s
  <2>2. ToSet(s) = {a, b, c}
    BY <2>1 DEF ToSet
  <2> QED
    BY <2>2 DEF s
<1> DEFINE s3 == <<a, b, c>>
<1> HIDE DEF s3
<1>4. s3 \in Seq(Nat) /\ ToSet(s3) = {a, b, c}
  BY <1>2, <1>3 DEF s3
<1>5. p \o q \in Seq(Nat) /\ ToSet(p \o q) = ToSet(p) \cup ToSet(q)
  BY <1>1
<1> DEFINE pq == p \o q
<1> HIDE DEF pq
<1>6. pq \o s3 \in Seq(Nat) /\ ToSet(pq \o s3) = ToSet(pq) \cup ToSet(s3)
  BY <1>1, <1>4, <1>5 DEF pq
<1> QED
  BY <1>4, <1>5, <1>6 DEF pq, s3

(* One hint: the root it names has a lineage with the row in it.           *)
LEMMA TakeHintIs ==
  ASSUME NEW m \in LineageMaps, NEW row \in HintRow
  PROVE  LET t == TakeHint(m, row)
             h == row.rootHint
         IN  /\ t \in LineageMaps
             /\ DOMAIN t = IF h = row.id THEN DOMAIN m \cup {h} ELSE (DOMAIN m \cup {h}) \ {row.id}
             /\ t[h].root = h /\ t[h].tip = HintTip(row)
             /\ ToSet(t[h].all) = (IF h \in DOMAIN m THEN ToSet(m[h].all) ELSE {})
                                  \cup (IF h # row.id /\ row.id \in DOMAIN m THEN ToSet(m[row.id].all) ELSE {})
                                  \cup {h, row.id, HintTip(row)}
             /\ \A x \in DOMAIN t : x # h => t[x] = m[x]
<1> DEFINE h == row.rootHint
           x == row.id
           tip == HintTip(row)
           at(z) == IF z \in DOMAIN m THEN m[z] ELSE Lineage(z, z, <<>>, <<>>)
           old == at(h)
           own == IF h = x THEN Lineage(x, x, <<>>, <<>>) ELSE at(x)
           path == Unique(<<h>> \o old.path \o own.path \o <<tip>>)
           all == Unique(old.all \o own.all \o <<h, x, tip>>)
           hinted == Lineage(h, tip, path, all)
           joined == [y \in DOMAIN m \cup {h} |-> IF y = h THEN hinted ELSE m[y]]
           t == TakeHint(m, row)
<1>1. h \in Nat /\ x \in Nat /\ row.tipHint \in Nat /\ h # 0
  BY DEF HintRow, SessionRow
<1>2. tip \in Nat
  BY <1>1 DEF HintTip
<1>3. DOMAIN m \subseteq Nat /\ \A y \in DOMAIN m : m[y] \in LineageRecord
  BY LineageMapIs
<1>4. <<>> \in Seq(Nat) /\ ToSet(<<>>) = {}
  BY DEF ToSet
<1>5. \A z \in Nat : Lineage(z, z, <<>>, <<>>) \in LineageRecord /\ Lineage(z, z, <<>>, <<>>).all = <<>>
  BY <1>4 DEF Lineage, LineageRecord
<1>6. t = WithoutSingleton(joined, row)
  BY Zenon DEF TakeHint, HintTip
<1> HIDE DEF h, x, tip, t
<1>7. \A z \in Nat : at(z) \in LineageRecord
  BY <1>3, <1>5
<1>8. \A z \in Nat : ToSet(at(z).all) = IF z \in DOMAIN m THEN ToSet(m[z].all) ELSE {}
  BY <1>4, <1>5
<1> HIDE DEF at
<1>9. old \in LineageRecord /\ own \in LineageRecord
  BY <1>1, <1>5, <1>7
<1>10. ToSet(old.all) = IF h \in DOMAIN m THEN ToSet(m[h].all) ELSE {}
  BY <1>1, <1>8
<1>11. ToSet(own.all) = IF h # x /\ x \in DOMAIN m THEN ToSet(m[x].all) ELSE {}
  BY <1>1, <1>4, <1>5, <1>8
<1> HIDE DEF old, own
<1>12. old.all \in Seq(Nat) /\ own.all \in Seq(Nat) /\ old.path \in Seq(Nat) /\ own.path \in Seq(Nat)
  BY <1>9 DEF LineageRecord
<1>13. all \in Seq(Nat) /\ ToSet(all) = ToSet(old.all) \cup ToSet(own.all) \cup {h, x, tip}
  <2> DEFINE s == old.all \o own.all \o <<h, x, tip>>
  <2>1. s \in Seq(Nat) /\ ToSet(s) = ToSet(old.all) \cup ToSet(own.all) \cup {h, x, tip}
    <3> DEFINE p == old.all
               q == own.all
    <3>1. h \in Nat /\ x \in Nat /\ tip \in Nat /\ p \in Seq(Nat) /\ q \in Seq(Nat)
      BY <1>1, <1>2, <1>12
    <3> HIDE DEF p, q
    <3>2. /\ p \o q \o <<h, x, tip>> \in Seq(Nat)
          /\ ToSet(p \o q \o <<h, x, tip>>) = ToSet(p) \cup ToSet(q) \cup {h, x, tip}
      BY <3>1, AllOfSeveral
    <3> QED
      BY <3>2 DEF p, q
  <2> HIDE DEF s
  <2>2. Unique(s) \in Seq(Nat) /\ ToSet(Unique(s)) = ToSet(s)
    BY <2>1, UniqueIs
  <2> QED
    BY <2>1, <2>2 DEF s
<1>14. path \in Seq(Nat)
  <2> DEFINE s == <<h>> \o old.path \o own.path \o <<tip>>
  <2>1. s \in Seq(Nat)
    BY <1>1, <1>2, <1>12
  <2> HIDE DEF s
  <2>2. Unique(s) \in Seq(Nat)
    BY <2>1, UniqueIs
  <2> QED
    BY <2>2 DEF s
<1> HIDE DEF path, all
<1>15. hinted \in LineageRecord /\ hinted.root = h /\ hinted.tip = tip /\ hinted.all = all
  BY <1>1, <1>2, <1>13, <1>14 DEF Lineage, LineageRecord
<1> HIDE DEF hinted
<1>16. /\ DOMAIN joined = DOMAIN m \cup {h} /\ joined[h] = hinted
       /\ \A y \in DOMAIN joined : joined[y] \in LineageRecord /\ (y # h => joined[y] = m[y])
  BY <1>3, <1>15
<1> HIDE DEF joined
<1> DEFINE Q == IF h = x THEN DOMAIN m \cup {h} ELSE (DOMAIN m \cup {h}) \ {x}
<1>17. DOMAIN t = Q /\ \A y \in Q : t[y] = joined[y]
  BY <1>6, <1>16 DEF WithoutSingleton, h, x
<1>18. t \in [Q -> LineageRecord]
  <2>1. t = [y \in DOMAIN t |-> t[y]]
    BY <1>6 DEF WithoutSingleton, joined
  <2> QED
    BY <1>16, <1>17, <2>1
<1>19. Q \in SUBSET Nat /\ h \in Q
  BY <1>1, <1>3
<1>20. t \in LineageMaps
  <2> HIDE DEF Q
  <2> QED
    BY <1>18, <1>19 DEF LineageMaps
<1>21. t[h] = hinted /\ \A y \in Q : y # h => t[y] = m[y]
  BY <1>16, <1>17, <1>19
<1> QED
  BY <1>10, <1>11, <1>13, <1>15, <1>17, <1>20, <1>21 DEF h, x, tip, t

(* The hints are taken one after the other. *)
LEMMA WithHintsIs ==
  ASSUME NEW m \in LineageMaps, NEW hinted \in Seq(HintRow)
  PROVE  \E g : /\ g \in [0..Len(hinted) -> LineageMaps] /\ g[0] = m
                /\ \A i \in 1..Len(hinted) : g[i] = TakeHint(g[i - 1], hinted[i])
                /\ WithHints(m, hinted) = g[Len(hinted)]
<1> DEFINE N == Len(hinted)
           d == [i \in 1..N |-> [l \in LineageMaps |-> TakeHint(l, hinted[i])]]
           h == CHOOSE h : h = [i \in 0..N |-> IF i = 0 THEN m ELSE TakeHint(h[i - 1], hinted[i])]
<1>1. N \in Nat /\ \A i \in 1..N : hinted[i] \in HintRow
  OBVIOUS
<1>2. \A l \in LineageMaps, r \in HintRow : TakeHint(l, r) \in LineageMaps
  BY TakeHintIs
<1>3. d \in [1..N -> [LineageMaps -> LineageMaps]]
  <2> HIDE DEF N
  <2> QED
    BY <1>1, <1>2
<1>4. PICK g : IsHistory(g, LineageMaps, N, m, d)
  <2> HIDE DEF N, d, h
  <2> QED
    BY <1>1, <1>3, HistoryExists
<1>5. \A i \in 1..N : i \in 0..N /\ i - 1 \in 0..N /\ i # 0
  BY <1>1
<1>6. g \in [0..N -> LineageMaps] /\ g[0] = m /\ \A i \in 1..N : g[i] = TakeHint(g[i - 1], hinted[i])
  <2>1. g \in [0..N -> LineageMaps] /\ g[0] = m /\ \A i \in 1..N : g[i] = d[i][g[i - 1]]
    <3> HIDE DEF N, d, h
    <3> QED
      BY <1>4, Zenon DEF IsHistory
  <2>2. ASSUME NEW i \in 1..N PROVE g[i] = TakeHint(g[i - 1], hinted[i])
    <3>1. g[i - 1] \in LineageMaps /\ g[i] = d[i][g[i - 1]]
      <4> HIDE DEF N, d, h
      <4> QED
        BY <1>5, <2>1
    <3> HIDE DEF N, h
    <3> QED
      BY <3>1
  <2> QED
    BY <2>1, <2>2, Zenon
<1>7. g = [i \in 0..N |-> IF i = 0 THEN m ELSE TakeHint(g[i - 1], hinted[i])]
  <2>1. \A i \in 0..N : i # 0 => i \in 1..N
    BY <1>1
  <2> HIDE DEF d, N, h
  <2>2. \A i \in 0..N : g[i] = IF i = 0 THEN m ELSE TakeHint(g[i - 1], hinted[i])
    BY <1>6, <2>1, Zenon
  <2> QED
    BY <1>6, <2>2
<1>8. h = [i \in 0..N |-> IF i = 0 THEN m ELSE TakeHint(h[i - 1], hinted[i])]
  BY <1>7, Zenon
<1>9. WithHints(m, hinted) = h[N]
  BY Zenon DEF WithHints
<1> HIDE DEF h, d, N
<1> DEFINE T == {i \in 0..N : h[i] = g[i]}
<1>10. 0 \in T
  <2>1. 0 \in 0..N /\ h[0] = m
    BY <1>1, <1>8
  <2> QED
    BY <1>6, <2>1
<1>11. ASSUME NEW i \in 1..N, i - 1 \in T PROVE i \in T
  <2>1. i \in 0..N /\ h[i] = TakeHint(h[i - 1], hinted[i])
    BY <1>5, <1>8
  <2>2. h[i - 1] = g[i - 1]
    BY <1>11
  <2> QED
    BY <1>6, <2>1, <2>2
<1>12. N \in T
  <2>1. N \in 0..N
    BY <1>1
  <2> HIDE DEF T
  <2> QED
    BY <1>1, <1>10, <1>11, <2>1, UpTo
<1>13. WithHints(m, hinted) = g[N]
  BY <1>9, <1>12
<1> QED
  BY <1>6, <1>13, Zenon DEF N

-----------------------------------------------------------------------------
(* The lineages of a directory *)

Roots(rows) == {x \in Listed(rows) : ~Follows(rows, x)}

(* The roots of the walks are the sessions that follow no other.           *)
LEMMA WalkedAre ==
  ASSUME NEW rows, IsDirectory(rows)
  PROVE  /\ DOMAIN WalkedLineages(rows) = Roots(rows)
         /\ \A x \in Roots(rows) : WalkedLineages(rows)[x] = WalkedLineage(rows, RowIn(rows, x))
         /\ WalkedLineages(rows) \in LineageMaps
<1> DEFINE byId == RowsById(rows)
           roots == {x \in DOMAIN byId : \A i \in DOMAIN rows : rows[i].id = x => ~Continues(rows, rows[i])}
           m == WalkedLineages(rows)
<1>1. roots = Roots(rows)
  <2>1. DOMAIN byId = Listed(rows)
    BY RowsAreFound
  <2>2. ASSUME NEW x \in Listed(rows)
        PROVE  (\A i \in DOMAIN rows : rows[i].id = x => ~Continues(rows, rows[i])) <=> ~Follows(rows, x)
    <3>1. PICK i \in DOMAIN rows : rows[i].id = x
      BY DEF Listed
    <3> QED
      BY <3>1, ContinuesIs
  <2> HIDE DEF byId
  <2> QED
    BY <2>1, <2>2 DEF Roots
<1>2. \A x \in Roots(rows) : x \in Listed(rows) /\ byId[x] = RowIn(rows, x)
  BY RowsAreFound DEF Roots
<1>3. m = [x \in roots |-> WalkedLineage(rows, byId[x])]
  BY Zenon DEF WalkedLineages
<1> HIDE DEF byId, roots, m
<1>4. DOMAIN m = Roots(rows) /\ \A x \in Roots(rows) : m[x] = WalkedLineage(rows, RowIn(rows, x))
  BY <1>1, <1>2, <1>3
<1>5. \A x \in Roots(rows) : m[x] \in LineageRecord
  <2> SUFFICES ASSUME NEW x \in Roots(rows) PROVE m[x] \in LineageRecord
    OBVIOUS
  <2> DEFINE f == WalkedLineage(rows, RowIn(rows, x))
  <2>1. x \in Listed(rows) /\ x \in Nat
    BY <1>2, RowsAreFound
  <2>2. /\ f = Lineage(f.root, f.tip, f.path, f.all)
        /\ f.root = x /\ f.path \in Seq(Nat) /\ f.all \in Seq(Nat) /\ f.tip \in ToSet(f.all)
    BY <2>1, WalkedIs, Zenon DEF GoodLineage
  <2> HIDE DEF f
  <2>3. f.tip \in Nat
    BY <2>2 DEF ToSet
  <2>4. f \in LineageRecord
    BY <2>1, <2>2, <2>3 DEF Lineage, LineageRecord
  <2> QED
    BY <1>4, <2>4 DEF f
<1>6. m = [x \in Roots(rows) |-> m[x]] /\ Roots(rows) \in SUBSET Nat
  BY <1>1, <1>2, <1>3, RowsAreFound
<1>7. m \in [Roots(rows) -> LineageRecord]
  BY <1>5, <1>6
<1>8. m \in LineageMaps
  BY <1>6, <1>7 DEF LineageMaps
<1> QED
  BY <1>4, <1>8 DEF m

LEMMA HintedAre ==
  ASSUME NEW rows, IsDirectory(rows)
  PROVE  LET I == {i \in DOMAIN rows : rows[i].rootHint # 0}
             s == RowsAt(rows, I)
         IN  /\ Lineages(rows) = WithHints(WalkedLineages(rows), s)
             /\ s \in Seq(HintRow) /\ Len(s) = Cardinality(I)
             /\ ToSet(s) = {rows[i] : i \in I}
<1> DEFINE I == {i \in DOMAIN rows : rows[i].rootHint # 0}
           s == RowsAt(rows, I)
<1>1. rows \in Seq(SessionRow) /\ I \cap DOMAIN rows = I
  BY DEF IsDirectory
<1>2. Lineages(rows) = WithHints(WalkedLineages(rows), s)
  BY DEF Lineages
<1> HIDE DEF I
<1>3. /\ s \in Seq(SessionRow) /\ ToSet(s) = {rows[i] : i \in I \cap DOMAIN rows}
      /\ Len(s) = Cardinality(I \cap DOMAIN rows)
  BY <1>1, RowsAtIs, Zenon
<1>4. ToSet(s) = {rows[i] : i \in I} /\ Len(s) = Cardinality(I)
  BY <1>1, <1>3, Zenon
<1> HIDE DEF s
<1>5. \A i \in I : rows[i] \in HintRow
  BY <1>1 DEF I, HintRow
<1>6. \A i \in 1..Len(s) : s[i] \in HintRow
  <2> SUFFICES ASSUME NEW i \in 1..Len(s) PROVE s[i] \in HintRow
    OBVIOUS
  <2>1. DOMAIN s = 1..Len(s)
    <3>1. s \in Seq(SessionRow)
      BY <1>3
    <3> QED
      BY <3>1
  <2>2. s[i] \in {rows[j] : j \in I}
    BY <1>4, <2>1 DEF ToSet
  <2> QED
    BY <1>5, <2>2
<1>7. s \in Seq(HintRow)
  <2>1. s \in Seq(SessionRow)
    BY <1>3
  <2>2. Len(s) \in Nat /\ s = [i \in 1..Len(s) |-> s[i]]
    BY <2>1
  <2>3. s \in [1..Len(s) -> HintRow]
    BY <1>6, <2>2
  <2> QED
    BY <2>2, <2>3, SeqDef
<1> QED
  BY <1>2, <1>4, <1>7, Zenon DEF I, s

(* Without hints the lineages are those that the walks find. *)
LEMMA PlainLineages ==
  ASSUME NEW rows, IsDirectory(rows), Plain(rows)
  PROVE  Lineages(rows) = WalkedLineages(rows)
<1> DEFINE I == {i \in DOMAIN rows : rows[i].rootHint # 0}
           s == RowsAt(rows, I)
           m == WalkedLineages(rows)
<1>1. I = {}
  BY DEF Plain
<1>2. Lineages(rows) = WithHints(m, s) /\ s \in Seq(HintRow) /\ Len(s) = Cardinality(I)
  BY HintedAre, Zenon
<1> HIDE DEF I, s
<1>3. Len(s) = 0
  BY <1>1, <1>2, FS_EmptySet
<1>4. m \in LineageMaps
  BY WalkedAre
<1> HIDE DEF m
<1>5. PICK g : /\ g \in [0..Len(s) -> LineageMaps] /\ g[0] = m
               /\ \A i \in 1..Len(s) : g[i] = TakeHint(g[i - 1], s[i])
               /\ WithHints(m, s) = g[Len(s)]
  BY <1>2, <1>4, WithHintsIs, Zenon
<1> QED
  BY <1>2, <1>3, <1>5 DEF m

LEMMA PartitionHolds == IsDirectory(directory) => LineagesPartition
<1> DEFINE rows == directory
           found == Lineages(rows)
<1> SUFFICES ASSUME IsDirectory(rows), Plain(rows)
             PROVE  /\ DOMAIN found = Roots(rows)
                    /\ \A x \in DOMAIN found : ToSet(found[x].all) = Descendants(rows, x)
                    /\ \A x, y \in DOMAIN found :
                          x # y => ToSet(found[x].all) \cap ToSet(found[y].all) = {}
  BY DEF LineagesPartition, Roots
<1>1. /\ DOMAIN found = Roots(rows)
      /\ \A x \in Roots(rows) : found[x] = WalkedLineage(rows, RowIn(rows, x))
  BY PlainLineages, WalkedAre, Zenon
<1> HIDE DEF found, rows
<1>2. ASSUME NEW x \in Roots(rows) PROVE ToSet(found[x].all) = Descendants(rows, x)
  <2>1. x \in Listed(rows)
    BY DEF Roots
  <2>2. ToSet(WalkedLineage(rows, RowIn(rows, x)).all) = Descendants(rows, x)
    BY <2>1, WalkedIs, Zenon DEF GoodLineage
  <2> QED
    BY <1>1, <2>2, Zenon
<1>3. ASSUME NEW x \in Roots(rows), NEW y \in Roots(rows), x # y
      PROVE  ToSet(found[x].all) \cap ToSet(found[y].all) = {}
  <2>1. Descendants(rows, x) \cap Descendants(rows, y) = {}
    BY <1>3, DescendantsApart DEF Roots
  <2> QED
    BY <1>2, <2>1
<1> QED
  BY <1>1, <1>2, <1>3

LEMMA TipHolds == IsDirectory(directory) => TipIsNewest
<1> DEFINE rows == directory
           found == Lineages(rows)
           Tip(x) == RowIn(rows, found[x].tip)
<1> SUFFICES ASSUME IsDirectory(rows), Plain(rows), NEW x \in DOMAIN found
             PROVE  /\ found[x].tip \in ToSet(found[x].all)
                    /\ \A y \in ToSet(found[x].all) :
                          /\ RowIn(rows, y).importable => Tip(x).importable
                          /\ RowIn(rows, y).importable = Tip(x).importable
                                => RowIn(rows, y).activityAt <= Tip(x).activityAt
                    /\ found[x].path[1] = x /\ Last(found[x].path) = found[x].tip
                    /\ \A i \in 2..Len(found[x].path) :
                          RowIn(rows, found[x].path[i]).parent = found[x].path[i - 1]
  BY Zenon DEF TipIsNewest
<1>1. /\ DOMAIN found = Roots(rows)
      /\ \A z \in Roots(rows) : found[z] = WalkedLineage(rows, RowIn(rows, z))
  BY PlainLineages, WalkedAre, Zenon
<1>2. x \in Listed(rows)
  BY <1>1 DEF Roots
<1>3. found[x] = WalkedLineage(rows, RowIn(rows, x))
  BY <1>1
<1> HIDE DEF found, rows
<1>4. /\ found[x].tip \in ToSet(found[x].all)
      /\ \A y \in ToSet(found[x].all) : NoWorse(RowIn(rows, found[x].tip), RowIn(rows, y))
      /\ found[x].path[1] = x /\ Last(found[x].path) = found[x].tip
      /\ \A i \in 2..Len(found[x].path) : RowIn(rows, found[x].path[i]).parent = found[x].path[i - 1]
  <2> DEFINE f == WalkedLineage(rows, RowIn(rows, x))
  <2>1. GoodLineage(rows, x, f)
    BY <1>2, WalkedIs
  <2>2. found[x] = f
    BY <1>3
  <2> HIDE DEF f
  <2> QED
    BY <2>1, <2>2, Zenon DEF GoodLineage
<1> QED
  BY <1>4 DEF NoWorse

(* A later hint keeps what an earlier one has joined.                      *)
LEMMA HintsHold == IsDirectory(directory) => HintedRowsJoin
<1> DEFINE rows == directory
           found == Lineages(rows)
           I == {i \in DOMAIN rows : rows[i].rootHint # 0}
           s == RowsAt(rows, I)
           m == WalkedLineages(rows)
           Joined(r, l) == /\ r.rootHint \in DOMAIN l /\ r.id \in ToSet(l[r.rootHint].all)
                           /\ r.rootHint # r.id => r.id \notin DOMAIN l
<1> SUFFICES ASSUME IsDirectory(rows), HintsNameRoots(rows), NEW i \in DOMAIN rows, rows[i].rootHint # 0
             PROVE  Joined(rows[i], found)
  BY Zenon DEF HintedRowsJoin
<1>1. /\ found = WithHints(m, s) /\ s \in Seq(HintRow) /\ ToSet(s) = {rows[j] : j \in I}
  BY HintedAre, Zenon
<1>2. m \in LineageMaps
  BY WalkedAre
<1>3. \A a, b \in ToSet(s) : a.rootHint = b.id => b.rootHint = b.id
  <2> SUFFICES ASSUME NEW a \in ToSet(s), NEW b \in ToSet(s), a.rootHint = b.id
               PROVE  b.rootHint = b.id
    OBVIOUS
  <2>1. PICK j \in I : a = rows[j]
    BY <1>1
  <2>2. PICK k \in I : b = rows[k]
    BY <1>1
  <2> QED
    BY <2>1, <2>2 DEF HintsNameRoots
<1>4. rows[i] \in ToSet(s)
  BY <1>1
<1> HIDE DEF found, s, m, rows, I
<1> DEFINE N == Len(s)
<1>5. PICK g : /\ g \in [0..N -> LineageMaps] /\ g[0] = m
               /\ \A n \in 1..N : g[n] = TakeHint(g[n - 1], s[n])
               /\ WithHints(m, s) = g[N]
  BY <1>1, <1>2, WithHintsIs, Zenon
<1>6. N \in Nat /\ DOMAIN s = 1..N /\ \A n \in 1..N : s[n] \in HintRow /\ s[n] \in ToSet(s)
  BY <1>1 DEF ToSet
<1> HIDE DEF N
<1> DEFINE T == {n \in 0..N : \A k \in 1..n : Joined(s[k], g[n])}
<1>7. 0 \in T
  <2>1. 0 \in 0..N /\ 1..0 = {}
    BY <1>6
  <2> HIDE DEF Joined
  <2> QED
    BY <2>1
<1>8. ASSUME NEW n \in 1..N, n - 1 \in T PROVE n \in T
  <2> DEFINE u == g[n - 1]
             v == g[n]
             r == s[n]
             h == r.rootHint
  <2>1. n \in 0..N /\ n - 1 \in 0..N /\ n \in Nat
    BY <1>6
  <2>2. u \in LineageMaps /\ r \in HintRow /\ v = TakeHint(u, r)
    BY <1>5, <1>6, <2>1
  <2> HIDE DEF u, v, r
  <2>3. /\ DOMAIN v = IF h = r.id THEN DOMAIN u \cup {h} ELSE (DOMAIN u \cup {h}) \ {r.id}
        /\ ToSet(v[h].all) = (IF h \in DOMAIN u THEN ToSet(u[h].all) ELSE {})
                             \cup (IF h # r.id /\ r.id \in DOMAIN u THEN ToSet(u[r.id].all) ELSE {})
                             \cup {h, r.id, HintTip(r)}
        /\ \A x \in DOMAIN v : x # h => v[x] = u[x]
    BY <2>2, TakeHintIs, ZenonT(40)
  <2>4. Joined(r, v)
    BY <2>3
  <2>5. ASSUME NEW k \in 1..(n - 1) PROVE Joined(s[k], v)
    <3> DEFINE q == s[k]
    <3>1. Joined(q, u)
      <4> HIDE DEF Joined
      <4> QED
        BY <1>8, Zenon DEF u
    <3>2. q \in ToSet(s) /\ r \in ToSet(s)
      <4>1. k \in 1..N
        BY <1>6
      <4> QED
        BY <1>6, <4>1 DEF r
    <3>3. (r.rootHint = q.id => q.rootHint = q.id) /\ (q.rootHint = r.id => r.rootHint = r.id)
      BY <1>3, <3>2
    <3> HIDE DEF q
    <3>4. q.rootHint \in DOMAIN v
      BY <2>3, <3>1, <3>3
    <3>5. q.id \in ToSet(v[q.rootHint].all)
      <4>1. CASE q.rootHint = h
        BY <2>3, <3>1, <4>1
      <4>2. CASE q.rootHint # h
        BY <2>3, <3>1, <3>4, <4>2
      <4> QED
        BY <4>1, <4>2
    <3>6. q.rootHint # q.id => q.id \notin DOMAIN v
      BY <2>3, <3>1, <3>3
    <3> QED
      BY <3>4, <3>5, <3>6 DEF q
  <2>6. \A k \in 1..n : k \in 1..(n - 1) \/ k = n
    BY <2>1
  <2> HIDE DEF Joined
  <2> QED
    BY <2>1, <2>4, <2>5, <2>6 DEF v, r
<1>9. N \in T
  <2>1. N \in 0..N
    BY <1>6
  <2> HIDE DEF T
  <2> QED
    BY <1>6, <1>7, <1>8, <2>1, UpTo
<1>10. \A k \in 1..N : Joined(s[k], found)
  <2> HIDE DEF Joined
  <2> QED
    BY <1>1, <1>5, <1>9
<1>11. PICK k \in 1..N : s[k] = rows[i]
  BY <1>4, <1>6 DEF ToSet
<1> HIDE DEF Joined
<1> QED
  BY <1>10, <1>11

LEMMA DirectorySound == IsDirectory(directory) => LineagesSound
BY PartitionHolds, TipHolds, HintsHold DEF LineagesSound

(* Every directory is divided into lineages that no session is missing     *)
(* from or in twice, and each is continued at its newest session, whatever *)
(* the number of its rows and their parents.                               *)
THEOREM LineagesAlwaysSound == SessionsSpec => []LineagesSound
<1>1. SessionsInit => IsDirectory(directory)
  <2> SUFFICES ASSUME SessionsInit PROVE IsDirectory(directory)
    OBVIOUS
  <2>1. directory \in Directories \/ directory = <<Row(1, 0)>>
    BY DEF SessionsInit
  <2>2. IsDirectory(<<Row(1, 0)>>)
    <3>1. Row(1, 0) \in SessionRow
      BY DEF Row, SessionRow
    <3> DEFINE r == Row(1, 0)
    <3> HIDE DEF r
    <3>2. <<r>> \in Seq(SessionRow) /\ DOMAIN <<r>> = {1} /\ <<r>>[1] = r
      BY <3>1 DEF r
    <3> QED
      BY <3>2 DEF IsDirectory, r
  <2> QED
    BY <2>1, <2>2, DirectoriesAssumption
<1>2. IsDirectory(directory) /\ [SessionsNext]_sessionsVars => IsDirectory(directory)'
  BY DEF SessionsNext, sessionsVars, IsDirectory
<1> QED
  BY <1>1, <1>2, DirectorySound, PTL DEF SessionsSpec

-----------------------------------------------------------------------------
(* The chain of one conversation in a directory that shows it from its     *)
(* root: one lineage, continued at its last session.                       *)

ChainOf(r) == IF r.kind = "tip" THEN {1, r.high} ELSE 1..r.high

LEMMA ChainRowIs ==
  ASSUME NEW n \in Nat \ {0}, NEW high \in Nat
  PROVE  /\ ChainRow(n, high) \in SessionRow
         /\ ChainRow(n, high).id = n /\ ChainRow(n, high).parent = n - 1
         /\ ChainRow(n, high).rootHint = 0 /\ ~ChainRow(n, high).fork
         /\ ChainRow(n, high).ends = (n < high)
         /\ ChainRow(n, high).source = 1 /\ ChainRow(n, high).profile = 1
         /\ ChainRow(n, high).startedAt = 0 /\ ChainRow(n, high).endedAt = 0
         /\ ChainRow(n, high).activityAt = n /\ ChainRow(n, high).importable
<1> DEFINE p == n - 1
           e == n < high
<1>1. ChainRow(n, high) = [Row(n, p) EXCEPT !.ends = e, !.activityAt = n]
  BY Zenon DEF ChainRow
<1>2. p \in Nat /\ e \in BOOLEAN /\ n \in Nat \ {0}
  OBVIOUS
<1>4. p = n - 1 /\ e = (n < high)
  OBVIOUS
<1> HIDE DEF p, e
<1>3. Row(n, p) \in SessionRow
  BY <1>2 DEF Row, SessionRow
<1>5. /\ ChainRow(n, high) \in SessionRow
      /\ ChainRow(n, high).ends = e /\ ChainRow(n, high).activityAt = n
  BY <1>1, <1>2, <1>3 DEF SessionRow
<1>6. /\ ChainRow(n, high).id = n /\ ChainRow(n, high).parent = p
      /\ ChainRow(n, high).rootHint = 0 /\ ~ChainRow(n, high).fork
      /\ ChainRow(n, high).source = 1 /\ ChainRow(n, high).profile = 1
      /\ ChainRow(n, high).startedAt = 0 /\ ChainRow(n, high).endedAt = 0
      /\ ChainRow(n, high).importable
  BY <1>1, <1>2, <1>3 DEF Row, SessionRow
<1> QED
  BY <1>4, <1>5, <1>6

(* Row by row, the chain is one lineage with its last session as tip.      *)
LEMMA WholeChain ==
  ASSUME NEW high \in Nat \ {0}
  PROVE  LET rows == [i \in 1..(high - 1 + 1) |-> ChainRow(high + 1 - i, high)]
             found == Lineages(rows)
         IN  /\ DOMAIN found = {1} /\ found[1].root = 1 /\ found[1].tip = high
             /\ ToSet(found[1].all) = 1..high
<1> DEFINE rows == [i \in 1..(high - 1 + 1) |-> ChainRow(high + 1 - i, high)]
           found == Lineages(rows)
<1>1. DOMAIN rows = 1..high /\ \A i \in 1..high : rows[i] = ChainRow(high + 1 - i, high)
  OBVIOUS
<1>2. rows \in Seq(SessionRow)
  <2>1. \A i \in 1..high : high + 1 - i \in Nat \ {0}
    OBVIOUS
  <2>2. \A i \in 1..high : rows[i] \in SessionRow
    BY <1>1, <2>1, ChainRowIs
  <2>3. rows \in [1..high -> SessionRow]
    <3>1. rows = [i \in 1..high |-> rows[i]]
      OBVIOUS
    <3> HIDE DEF rows
    <3> QED
      BY <2>2, <3>1
  <2> HIDE DEF rows
  <2> QED
    BY <2>3, SeqDef
<1>3. \A i \in 1..high : rows[i].id = high + 1 - i /\ rows[i].rootHint = 0
  <2>1. \A i \in 1..high : high + 1 - i \in Nat \ {0}
    OBVIOUS
  <2> HIDE DEF rows
  <2> QED
    BY <1>1, <2>1, ChainRowIs
<1> HIDE DEF rows
<1>4. IsDirectory(rows) /\ Plain(rows)
  <2>1. \A i, j \in 1..high : high + 1 - i = high + 1 - j => i = j
    OBVIOUS
  <2> QED
    BY <1>1, <1>2, <1>3, <2>1 DEF IsDirectory, Plain
<1>5. Listed(rows) = 1..high
  <2>1. \A i \in 1..high : high + 1 - i \in 1..high /\ high + 1 - (high + 1 - i) = i
    OBVIOUS
  <2>2. Listed(rows) \subseteq 1..high
    BY <1>1, <1>3, <2>1 DEF Listed
  <2>3. ASSUME NEW x \in 1..high PROVE x \in Listed(rows)
    <3>1. high + 1 - x \in DOMAIN rows /\ rows[high + 1 - x].id = x
      BY <1>1, <1>3, <2>1
    <3> QED
      BY <3>1 DEF Listed
  <2> QED
    BY <2>2, <2>3
<1>6. ASSUME NEW x \in 1..high PROVE RowIn(rows, x) = ChainRow(x, high)
  <2>1. high + 1 - x \in 1..high /\ high + 1 - (high + 1 - x) = x
    OBVIOUS
  <2>2. rows[high + 1 - x] = ChainRow(x, high) /\ rows[high + 1 - x].id = x
    BY <1>1, <1>3, <2>1
  <2> DEFINE i == high + 1 - x
  <2> HIDE DEF i
  <2>3. i \in DOMAIN rows /\ rows[i] = ChainRow(x, high) /\ rows[i].id = x
    BY <1>1, <2>1, <2>2 DEF i
  <2>4. RowIn(rows, rows[i].id) = rows[i]
    BY <1>4, <2>3, RowsAreFound
  <2> QED
    BY <2>3, <2>4
<1>7. ASSUME NEW x \in 1..high PROVE Follows(rows, x) <=> x # 1
  <2>1. RowIn(rows, x) = ChainRow(x, high) /\ x \in Nat \ {0}
    BY <1>6
  <2> DEFINE q == ChainRow(x, high)
             p == ChainRow(x - 1, high)
  <2>2. /\ q.parent = x - 1 /\ ~q.fork /\ q.source = 1 /\ q.profile = 1 /\ q.startedAt = 0
    BY <2>1, ChainRowIs
  <2>3. CASE x = 1
    <3>1. x - 1 \notin 1..high
      BY <2>3
    <3> HIDE DEF q
    <3> QED
      BY <1>5, <2>1, <2>2, <2>3, <3>1 DEF Follows, q
  <2>4. CASE x # 1
    <3>1. x - 1 \in 1..high /\ x - 1 \in Nat \ {0} /\ x - 1 < high
      BY <2>4
    <3>2. RowIn(rows, x - 1) = p /\ p.ends /\ p.source = 1 /\ p.profile = 1
      <4>1. RowIn(rows, x - 1) = p
        BY <1>6, <3>1
      <4>2. p.ends = (x - 1 < high) /\ p.source = 1 /\ p.profile = 1
        BY <3>1, ChainRowIs
      <4> QED
        BY <3>1, <4>1, <4>2
    <3> HIDE DEF q, p
    <3>3. RowIn(rows, x) = q /\ RowIn(rows, q.parent) = p /\ q.parent \in Listed(rows)
      BY <1>5, <2>1, <2>2, <3>1, <3>2 DEF q
    <3>4. ~(0 < q.startedAt)
      BY <2>2
    <3> QED
      BY <2>2, <2>4, <3>2, <3>3, <3>4 DEF Follows
  <2> QED
    BY <2>3, <2>4
<1>8. Roots(rows) = {1}
  <2>1. 1 \in 1..high
    OBVIOUS
  <2> QED
    BY <1>5, <1>7, <2>1 DEF Roots
<1>9. 1 \in Listed(rows)
  BY <1>5
<1>10. Descendants(rows, 1) = 1..high
  <2> DEFINE D == Descendants(rows, 1)
  <2>1. D \subseteq 1..high /\ 1 \in D /\ Closed(rows, D)
    BY <1>5, <1>9, DescendantsAre
  <2> HIDE DEF D
  <2> DEFINE T == D \cup {0}
  <2>2. ASSUME NEW n \in 1..high, n - 1 \in T PROVE n \in T
    <3>1. CASE n = 1
      BY <2>1, <3>1
    <3>2. CASE n # 1
      <4>1. n - 1 \in D
        BY <2>2, <3>2
      <4>2. RowIn(rows, n) = ChainRow(n, high) /\ Follows(rows, n)
        BY <1>6, <1>7, <3>2
      <4>3. RowIn(rows, n).parent = n - 1
        BY <4>2, ChainRowIs
      <4> QED
        BY <1>5, <2>1, <4>1, <4>2, <4>3 DEF Closed
    <3> QED
      BY <3>1, <3>2
  <2>3. \A n \in 0..high : n \in T
    <3> HIDE DEF T
    <3>1. 0 \in T
      BY DEF T
    <3> QED
      BY <2>2, <3>1, UpTo
  <2>4. \A n \in 1..high : n \in 0..high /\ n # 0
    OBVIOUS
  <2>5. 1..high \subseteq D
    BY <2>3, <2>4
  <2> QED
    BY <2>1, <2>5 DEF D
<1>11. /\ DOMAIN found = {1} /\ found[1] = WalkedLineage(rows, RowIn(rows, 1))
  <2>1. 1 \in Roots(rows)
    BY <1>8
  <2> QED
    BY <1>4, <1>8, <2>1, PlainLineages, WalkedAre
<1> HIDE DEF found
<1>12. GoodLineage(rows, 1, found[1])
  BY <1>4, <1>9, <1>11, WalkedIs
<1>13. /\ found[1].root = 1 /\ ToSet(found[1].all) = 1..high /\ found[1].tip \in 1..high
       /\ NoWorse(RowIn(rows, found[1].tip), RowIn(rows, high))
  <2>1. high \in 1..high
    OBVIOUS
  <2> QED
    BY <1>10, <1>12, <2>1 DEF GoodLineage
<1>14. found[1].tip = high
  <2> DEFINE t == found[1].tip
  <2>1. t \in 1..high /\ NoWorse(ChainRow(t, high), ChainRow(high, high)) /\ high \in 1..high
    BY <1>6, <1>13
  <2> HIDE DEF t
  <2>2. /\ ChainRow(t, high).importable /\ ChainRow(high, high).importable
        /\ ChainRow(t, high).activityAt = t /\ ChainRow(high, high).activityAt = high
    BY <2>1, ChainRowIs
  <2>3. high <= t
    BY <2>1, <2>2 DEF NoWorse
  <2> QED
    BY <2>1, <2>3 DEF t
<1> QED
  BY <1>11, <1>13, <1>14 DEF found, rows

LEMMA TipRowIs ==
  ASSUME NEW high \in Nat \ {0}
  PROVE  LET row == [ChainRow(high, high) EXCEPT !.parent = 0, !.rootHint = 1, !.tipHint = high]
         IN  /\ row \in SessionRow /\ row.id = high /\ row.parent = 0
             /\ row.rootHint = 1 /\ row.tipHint = high
<1>1. ChainRow(high, high) \in SessionRow /\ ChainRow(high, high).id = high
  BY ChainRowIs
<1> QED
  BY <1>1 DEF SessionRow

(* Shown by its last session with a hint, it is one lineage too.           *)
LEMMA ChainTip ==
  ASSUME NEW high \in Nat \ {0}
  PROVE  LET row == [ChainRow(high, high) EXCEPT !.parent = 0, !.rootHint = 1, !.tipHint = high]
             found == Lineages(<<row>>)
         IN  /\ DOMAIN found = {1} /\ found[1].root = 1 /\ found[1].tip = high
             /\ ToSet(found[1].all) = {1, high}
<1> DEFINE row == [ChainRow(high, high) EXCEPT !.parent = 0, !.rootHint = 1, !.tipHint = high]
           rows == <<row>>
           found == Lineages(rows)
<1>1. /\ row \in SessionRow /\ row.id = high /\ row.parent = 0
      /\ row.rootHint = 1 /\ row.tipHint = high
  BY TipRowIs, Zenon
<1> HIDE DEF row
<1>2. /\ DOMAIN rows = {1} /\ rows[1] = row /\ IsDirectory(rows)
  BY <1>1 DEF IsDirectory
<1> HIDE DEF rows
<1>3. Listed(rows) = {high}
  BY <1>1, <1>2 DEF Listed
<1>4. RowIn(rows, high) = row
  BY <1>1, <1>2, RowsAreFound
<1>5. Roots(rows) = {high}
  BY <1>1, <1>3, <1>4 DEF Roots, Follows
<1>6. Descendants(rows, high) = {high}
  BY <1>3, DescendantsAre
<1> DEFINE w == WalkedLineages(rows)
<1>7. w \in LineageMaps /\ DOMAIN w = {high} /\ ToSet(w[high].all) = {high}
  <2>1. /\ w \in LineageMaps /\ DOMAIN w = {high}
        /\ w[high] = WalkedLineage(rows, RowIn(rows, high))
    BY <1>2, <1>5, WalkedAre
  <2>2. GoodLineage(rows, high, w[high])
    BY <1>2, <1>3, <2>1, WalkedIs
  <2> QED
    BY <1>6, <2>1, <2>2 DEF GoodLineage
<1> HIDE DEF w
<1> DEFINE I == {i \in DOMAIN rows : rows[i].rootHint # 0}
           s == RowsAt(rows, I)
<1>8. I = {1}
  BY <1>1, <1>2
<1>9. /\ found = WithHints(w, s) /\ s \in Seq(HintRow) /\ Len(s) = Cardinality(I)
      /\ ToSet(s) = {rows[i] : i \in I}
  BY <1>2, HintedAre DEF w
<1> HIDE DEF I, s, found
<1>10. Len(s) = 1 /\ s[1] = row /\ row \in HintRow
  <2>1. Len(s) = 1
    BY <1>8, <1>9, FS_Singleton
  <2>2. s[1] \in ToSet(s)
    BY <1>9, <2>1 DEF ToSet
  <2>3. row \in HintRow
    BY <1>1 DEF HintRow
  <2>4. {rows[i] : i \in {1}} = {row}
    BY <1>2
  <2>5. s[1] = row
    BY <1>8, <1>9, <2>2, <2>4
  <2> QED
    BY <2>1, <2>3, <2>5
<1>11. found = TakeHint(w, row)
  <2>1. PICK g : /\ g[0] = w /\ \A i \in 1..Len(s) : g[i] = TakeHint(g[i - 1], s[i])
                 /\ WithHints(w, s) = g[Len(s)]
    BY <1>7, <1>9, WithHintsIs, SMTT(40)
  <2>2. 1 \in 1..1 /\ 1 - 1 = 0
    OBVIOUS
  <2>3. g[1] = TakeHint(g[0], s[1])
    BY <1>10, <2>1, <2>2
  <2> QED
    BY <1>9, <1>10, <2>1, <2>3
<1>12. HintTip(row) = high
  BY <1>1 DEF HintTip
<1>13. /\ DOMAIN found = IF 1 = high THEN {high} \cup {1} ELSE ({high} \cup {1}) \ {high}
       /\ found[1].root = 1 /\ found[1].tip = high
       /\ ToSet(found[1].all) = (IF 1 \in {high} THEN ToSet(w[1].all) ELSE {})
                                \cup (IF 1 # high /\ high \in {high} THEN ToSet(w[high].all) ELSE {})
                                \cup {1, high, high}
  <2> DEFINE h == row.rootHint
             x == row.id
             t == TakeHint(w, row)
  <2>1. /\ DOMAIN t = IF h = x THEN DOMAIN w \cup {h} ELSE (DOMAIN w \cup {h}) \ {x}
        /\ t[h].root = h /\ t[h].tip = HintTip(row)
        /\ ToSet(t[h].all) = (IF h \in DOMAIN w THEN ToSet(w[h].all) ELSE {})
                              \cup (IF h # x /\ x \in DOMAIN w THEN ToSet(w[x].all) ELSE {})
                              \cup {h, x, HintTip(row)}
    BY <1>7, <1>10, TakeHintIs, ZenonT(60)
  <2>2. h = 1 /\ x = high /\ t = found
    BY <1>1, <1>11
  <2> HIDE DEF h, x, t
  <2> QED
    BY <1>7, <1>12, <2>1, <2>2
<1>14. DOMAIN found = {1}
  BY <1>13
<1>15. ToSet(found[1].all) = {1, high}
  BY <1>7, <1>13
<1> QED
  BY <1>13, <1>14, <1>15 DEF found, rows, row

(* A response that shows the chain from its root has one lineage. *)
LEMMA ChainLineages ==
  ASSUME NEW r \in Responses, r.low = 1
  PROVE  /\ DOMAIN LineagesOf[r] = {1} /\ LineagesOf[r][1].root = 1
         /\ LineagesOf[r][1].tip = r.high
         /\ ToSet(LineagesOf[r][1].all) \cup {1} = ChainOf(r)
         /\ r.high \in Nat \ {0} /\ 1 \in ChainOf(r) /\ r.high \in ChainOf(r)
         /\ ChainOf(r) \subseteq 1..r.high
<1>1. /\ r.high \in Nat \ {0} /\ r.kind \in ResponseKinds /\ r.low <= r.high
  BY LaneConstantsAssumption DEF Responses, LaneSessions
<1>2. LineagesOf[r] = Lineages(RowsOf(r))
  BY <1>1 DEF LineagesOf
<1> DEFINE high == r.high
<1> HIDE DEF high
<1>3. high \in Nat \ {0}
  BY <1>1 DEF high
<1>4. CASE r.kind = "tip"
  <2>1. RowsOf(r) = <<[ChainRow(high, high) EXCEPT !.parent = 0, !.rootHint = 1, !.tipHint = high]>>
    BY <1>4 DEF RowsOf, high
  <2>2. ChainOf(r) = {1, high}
    BY <1>4 DEF ChainOf, high
  <2> DEFINE found == Lineages(RowsOf(r))
  <2>3. /\ DOMAIN found = {1} /\ found[1].root = 1 /\ found[1].tip = high
        /\ ToSet(found[1].all) = {1, high}
    BY <1>3, <2>1, ChainTip, Zenon
  <2> HIDE DEF found
  <2>4. found = LineagesOf[r]
    BY <1>2 DEF found
  <2> QED
    BY <1>3, <2>2, <2>3, <2>4 DEF high
<1>5. CASE r.kind # "tip"
  <2>1. RowsOf(r) = [i \in 1..(high - 1 + 1) |-> ChainRow(high + 1 - i, high)]
    BY <1>5, Zenon DEF RowsOf, high
  <2>2. ChainOf(r) = 1..high
    BY <1>5 DEF ChainOf, high
  <2> DEFINE found == Lineages(RowsOf(r))
  <2>3. /\ DOMAIN found = {1} /\ found[1].root = 1 /\ found[1].tip = high
        /\ ToSet(found[1].all) = 1..high
    BY <1>3, <2>1, WholeChain
  <2> HIDE DEF found
  <2>4. found = LineagesOf[r]
    BY <1>2 DEF found
  <2> QED
    BY <1>3, <2>2, <2>3, <2>4 DEF high
<1> QED
  BY <1>4, <1>5

-----------------------------------------------------------------------------
(* Conversations.  Where responses show whole chains, a conversation that  *)
(* was superseded and the one it was superseded by are known to stand for  *)
(* the first session of the chain, and the latter is not superseded; the   *)
(* lanes are what a reload would make of the records; and a submission is  *)
(* of a conversation that is not superseded, which its lane leads to.      *)

LaneCopies(cs) == [l \in DOMAIN cs |-> [id |-> Above(cs, l), rec |-> cs[Above(cs, l)]]]

SubRecord == [conv : Slots, lane : Slots, session : 0..MaxSession, state : {"pending", "accepted"}]

LanesTyped ==
    /\ conv \in Seq(Conversation) /\ Len(conv) <= MaxConversations
    /\ subs \in [DOMAIN subs -> SubRecord] /\ DOMAIN subs \subseteq Submissions
    /\ migrated \in BOOLEAN /\ hermes \in 0..MaxSession
    /\ \A r \in asked : r \in Responses /\ r.low = 1

AliasesMerged(cs) ==
    \A k \in DOMAIN cs :
        LET j == cs[k].super
        IN  j # 0 => j \in DOMAIN cs /\ cs[j].super = 0 /\ 1 \in cs[k].ids /\ 1 \in cs[j].ids

SubBound(cs, q) ==
    /\ q.conv \in DOMAIN cs /\ q.lane \in DOMAIN cs /\ cs[q.conv].super = 0
    /\ q.lane = q.conv \/ (1 \in cs[q.conv].ids /\ 1 \in cs[q.lane].ids)
    /\ cs[q.conv].adopted = 0 => Above(cs, q.lane) = q.conv

LanesInv ==
    /\ LanesTyped
    /\ AliasesMerged(conv)
    /\ lane = LaneCopies(conv)
    /\ \A s \in DOMAIN subs : SubBound(conv, subs[s])

LEMMA ConversationIs ==
  ASSUME NEW cs \in Seq(Conversation)
  PROVE  /\ Len(cs) \in Nat /\ DOMAIN cs = 1..Len(cs)
         /\ \A k \in DOMAIN cs : /\ cs[k] \in Conversation /\ k \in Nat /\ k # 0
                                 /\ cs[k].super \in Nat
                                 /\ cs[k].session \in Nat
<1>1. Len(cs) \in Nat /\ DOMAIN cs = 1..Len(cs) /\ \A k \in DOMAIN cs : cs[k] \in Conversation
  OBVIOUS
<1>2. MaxSession \in Nat /\ MaxConversations \in Nat
  BY LaneConstantsAssumption
<1>3. \A c \in Conversation : c.super \in Nat /\ c.session \in Nat
  BY <1>2 DEF Conversation
<1> QED
  BY <1>1, <1>3

LEMMA AboveIs ==
  ASSUME NEW cs \in Seq(Conversation), AliasesMerged(cs), NEW k \in DOMAIN cs
  PROVE  /\ Above(cs, k) \in DOMAIN cs /\ cs[Above(cs, k)].super = 0
         /\ Above(cs, Above(cs, k)) = Above(cs, k)
BY DEF Above, AliasesMerged

(* A chain of superseding ids is one step long at most. *)
LEMMA CanonicalIsAbove ==
  ASSUME NEW cs \in Seq(Conversation), AliasesMerged(cs), NEW k \in DOMAIN cs
  PROVE  Canonical(cs, k) = Above(cs, k)
<1> DEFINE N == Len(cs)
           A == Above(cs, k)
           h == CHOOSE h : h = [n \in 0..N |-> IF n = 0 THEN k ELSE Above(cs, h[n - 1])]
           g == [n \in 0..N |-> IF n = 0 THEN k ELSE A]
<1>1. N \in Nat /\ N # 0 /\ \A i \in 1..N : i \in 0..N /\ i - 1 \in 0..N /\ i # 0
  BY ConversationIs
<1>2. Above(cs, A) = A
  BY AboveIs
<1>3. \A n \in 0..N : n # 0 => n \in 1..N
  BY <1>1
<1> HIDE DEF N, A
<1>4. \A n \in 0..N : n # 0 => Above(cs, g[n - 1]) = A
  BY <1>1, <1>2, <1>3 DEF A
<1>5. g = [n \in 0..N |-> IF n = 0 THEN k ELSE Above(cs, g[n - 1])]
  <2>1. \A n \in 0..N : g[n] = IF n = 0 THEN k ELSE Above(cs, g[n - 1])
    BY <1>4
  <2>2. g = [n \in 0..N |-> g[n]]
    OBVIOUS
  <2> HIDE DEF g
  <2> QED
    BY <2>1, <2>2
<1>6. h = [n \in 0..N |-> IF n = 0 THEN k ELSE Above(cs, h[n - 1])]
  <2> HIDE DEF g
  <2> QED
    BY <1>5, Zenon
<1>7. Canonical(cs, k) = h[N]
  BY Zenon DEF Canonical, N
<1> HIDE DEF h, g
<1> DEFINE T == {n \in 0..N : h[n] = IF n = 0 THEN k ELSE A}
<1>8. 0 \in T
  BY <1>1, <1>6
<1>9. ASSUME NEW n \in 1..N, n - 1 \in T PROVE n \in T
  <2>1. h[n] = Above(cs, h[n - 1])
    BY <1>1, <1>6
  <2>2. h[n - 1] = k \/ h[n - 1] = A
    BY <1>9
  <2> QED
    BY <1>1, <1>2, <2>1, <2>2 DEF A
<1>10. N \in T
  <2>1. N \in 0..N
    BY <1>1
  <2> HIDE DEF T
  <2> QED
    BY <1>1, <1>8, <1>9, <2>1, UpTo
<1> QED
  BY <1>1, <1>7, <1>10 DEF A

LEMMA CopiesAre ==
  ASSUME NEW cs \in Seq(Conversation), AliasesMerged(cs), NEW l \in DOMAIN cs
  PROVE  /\ LaneCopies(cs)[l].id = Above(cs, l)
         /\ LaneCopies(cs)[l].rec = cs[Above(cs, l)]
         /\ Above(cs, l) \in DOMAIN cs
BY AboveIs DEF LaneCopies

LEMMA LanesStart == LanesInit => LanesInv
<1> SUFFICES ASSUME LanesInit PROVE LanesInv
  OBVIOUS
<1>1. PICK f \in LegacyFiles : conv = [k \in DOMAIN f |-> Bound(f[k])] /\ hermes = Len(f)
  BY DEF LanesInit
<1>2. /\ f \in Seq(1..Len(f)) /\ Len(f) <= MaxSession /\ Len(f) <= MaxConversations
      /\ MaxSession \in Nat /\ MaxConversations \in Nat
  BY LaneConstantsAssumption
<1>3. Len(f) \in Nat /\ DOMAIN f = 1..Len(f) /\ \A k \in DOMAIN f : f[k] \in 0..MaxSession
  BY <1>2
<1>4. \A x \in 0..MaxSession : Bound(x) \in Conversation /\ Bound(x).super = 0
  BY <1>2 DEF Bound, Conversation
<1>5. /\ conv \in Seq(Conversation) /\ Len(conv) = Len(f)
      /\ \A k \in DOMAIN conv : conv[k].super = 0
  <2>1. \A k \in DOMAIN f : Bound(f[k]) \in Conversation /\ Bound(f[k]).super = 0
    BY <1>3, <1>4
  <2>2. conv \in [1..Len(f) -> Conversation] /\ \A k \in DOMAIN conv : conv[k].super = 0
    BY <1>1, <1>3, <2>1
  <2> QED
    BY <1>3, <2>2, SeqDef
<1>6. LanesTyped
  <2>1. subs = <<>> /\ asked = {} /\ migrated = FALSE
    BY DEF LanesInit
  <2>2. DOMAIN subs = {} /\ subs \in [{} -> SubRecord]
    <3>1. <<>> \in Seq(SubRecord) /\ 1..0 = {} /\ Len(<<>>) = 0
      OBVIOUS
    <3>2. DOMAIN subs = 1..0 /\ subs \in [1..0 -> SubRecord]
      BY <2>1, <3>1
    <3> QED
      BY <3>1, <3>2
  <2> QED
    <3>1. hermes \in 0..MaxSession
      BY <1>1, <1>2, <1>3
    <3>2. subs \in [DOMAIN subs -> SubRecord] /\ DOMAIN subs \subseteq Submissions
      BY <2>2, Zenon
    <3>3. Len(conv) <= MaxConversations
      BY <1>2, <1>5
    <3> QED
      BY <1>5, <2>1, <3>1, <3>2, <3>3, Zenon DEF LanesTyped
<1>7. AliasesMerged(conv)
  BY <1>5 DEF AliasesMerged
<1>8. \A l \in DOMAIN conv : Above(conv, l) = l
  BY <1>5 DEF Above
<1>9. lane = LaneCopies(conv)
  BY <1>8 DEF LanesInit, Copies, LaneCopies
<1>10. \A s \in DOMAIN subs : SubBound(conv, subs[s])
  BY DEF LanesInit
<1> QED
  BY <1>6, <1>7, <1>9, <1>10 DEF LanesInv

(* A record that learns sessions and is bound anew stays the alias it is. *)
Grown(cs, ds) ==
    /\ DOMAIN ds = DOMAIN cs
    /\ \A k \in DOMAIN cs : /\ ds[k].super = cs[k].super /\ ds[k].adopted = cs[k].adopted
                            /\ cs[k].ids \subseteq ds[k].ids

(* Aliases and bound submissions are not concerned.                        *)
LEMMA GrownKeeps ==
  ASSUME NEW cs \in Seq(Conversation), NEW ds, AliasesMerged(cs), Grown(cs, ds)
  PROVE  /\ AliasesMerged(ds)
         /\ \A k \in DOMAIN cs : Above(ds, k) = Above(cs, k)
         /\ \A q : SubBound(cs, q) => SubBound(ds, q)
<1>1. AliasesMerged(ds)
  BY DEF AliasesMerged, Grown
<1>2. \A k \in DOMAIN cs : Above(ds, k) = Above(cs, k)
  BY DEF Above, Grown
<1>3. ASSUME NEW q, SubBound(cs, q) PROVE SubBound(ds, q)
  <2>1. /\ q.conv \in DOMAIN cs /\ q.lane \in DOMAIN cs /\ cs[q.conv].super = 0
        /\ q.lane = q.conv \/ (1 \in cs[q.conv].ids /\ 1 \in cs[q.lane].ids)
        /\ cs[q.conv].adopted = 0 => Above(cs, q.lane) = q.conv
    BY <1>3 DEF SubBound
  <2>2. Above(ds, q.lane) = Above(cs, q.lane)
    BY <1>2, <2>1
  <2> QED
    BY <2>1, <2>2 DEF SubBound, Grown
<1> QED
  BY <1>1, <1>2, <1>3

(* A record is replaced, and the lanes that hold it follow.                *)
LEMMA SetKeeps ==
  ASSUME LanesInv, NEW l \in DOMAIN lane, NEW rec \in Conversation,
         rec.super = lane[l].rec.super, rec.adopted = lane[l].rec.adopted,
         lane[l].rec.ids \subseteq rec.ids,
         SetConversation(lane[l].id, rec)
  PROVE  /\ conv' \in Seq(Conversation) /\ Len(conv') = Len(conv) /\ DOMAIN conv' = DOMAIN conv
         /\ AliasesMerged(conv') /\ lane' = LaneCopies(conv')
         /\ \A q : SubBound(conv, q) => SubBound(conv', q)
         /\ lane[l].id = Above(conv, l) /\ conv'[lane[l].id] = rec
         /\ \A k \in DOMAIN conv : k # lane[l].id => conv'[k] = conv[k]
<1> DEFINE k == lane[l].id
<1>1. conv \in Seq(Conversation) /\ AliasesMerged(conv) /\ lane = LaneCopies(conv)
  BY DEF LanesInv, LanesTyped
<1>2. DOMAIN lane = DOMAIN conv
  BY <1>1 DEF LaneCopies
<1>3. k = Above(conv, l) /\ k \in DOMAIN conv /\ lane[l].rec = conv[k]
  BY <1>1, <1>2, CopiesAre
<1>4. conv' = [conv EXCEPT ![k] = rec]
  BY DEF SetConversation
<1>5. \A j \in DOMAIN lane : lane'[j] = IF lane[j].id = k THEN [id |-> k, rec |-> rec] ELSE lane[j]
  BY DEF SetConversation
<1>6. lane' = [j \in DOMAIN lane |-> lane'[j]]
  BY DEF SetConversation
<1> HIDE DEF k
<1>7. /\ conv' \in Seq(Conversation) /\ Len(conv') = Len(conv) /\ DOMAIN conv' = DOMAIN conv
      /\ conv'[k] = rec /\ \A j \in DOMAIN conv : j # k => conv'[j] = conv[j]
  BY <1>1, <1>3, <1>4
<1>8. Grown(conv, conv')
  BY <1>3, <1>7 DEF Grown, k
<1>9. /\ AliasesMerged(conv')
      /\ \A j \in DOMAIN conv : Above(conv', j) = Above(conv, j)
      /\ \A q : SubBound(conv, q) => SubBound(conv', q)
  BY <1>1, <1>8, GrownKeeps
<1>10. \A j \in DOMAIN conv : lane'[j] = [id |-> Above(conv', j), rec |-> conv'[Above(conv', j)]]
  <2> SUFFICES ASSUME NEW j \in DOMAIN conv
               PROVE  lane'[j] = [id |-> Above(conv', j), rec |-> conv'[Above(conv', j)]]
    OBVIOUS
  <2>1. lane[j] = [id |-> Above(conv, j), rec |-> conv[Above(conv, j)]]
    BY <1>1 DEF LaneCopies
  <2>2. lane[j].id = Above(conv, j) /\ Above(conv, j) \in DOMAIN conv
    BY <1>1, AboveIs, <2>1
  <2>3. Above(conv', j) = Above(conv, j)
    BY <1>9
  <2> QED
    BY <1>2, <1>5, <1>7, <2>1, <2>2, <2>3
<1>11. lane' = LaneCopies(conv')
  BY <1>2, <1>6, <1>7, <1>10 DEF LaneCopies
<1> QED
  BY <1>3, <1>7, <1>9, <1>11 DEF k

(* What the steps below use of the invariant.                              *)
LEMMA LanesFacts ==
  ASSUME LanesInv
  PROVE  /\ conv \in Seq(Conversation) /\ AliasesMerged(conv) /\ lane = LaneCopies(conv)
         /\ DOMAIN lane = DOMAIN conv /\ DOMAIN conv \subseteq Slots
         /\ MaxSession \in Nat /\ MaxConversations \in Nat \ {0} /\ hermes \in 0..MaxSession
         /\ \A s \in DOMAIN subs : /\ SubBound(conv, subs[s]) /\ subs[s] \in SubRecord
                                   /\ subs[s].lane \in DOMAIN lane
<1>1. /\ conv \in Seq(Conversation) /\ AliasesMerged(conv) /\ lane = LaneCopies(conv)
      /\ Len(conv) <= MaxConversations /\ hermes \in 0..MaxSession
  BY DEF LanesInv, LanesTyped
<1>2. DOMAIN lane = DOMAIN conv
  BY <1>1 DEF LaneCopies
<1>3. MaxSession \in Nat /\ MaxConversations \in Nat \ {0}
  BY LaneConstantsAssumption
<1>4. DOMAIN conv \subseteq Slots
  BY <1>1, <1>3, ConversationIs DEF Slots
<1>5. \A s \in DOMAIN subs : SubBound(conv, subs[s]) /\ subs[s] \in SubRecord
  BY DEF LanesInv, LanesTyped
<1>6. \A s \in DOMAIN subs : subs[s].lane \in DOMAIN lane
  BY <1>2, <1>5 DEF SubBound
<1> QED
  BY <1>1, <1>2, <1>3, <1>4, <1>5, <1>6

(* A submission that is added to those that are bound. *)
LEMMA WithSubKeeps ==
  ASSUME LanesInv, NEW s \in Submissions, NEW v \in SubRecord, subs' = WithSub(s, v)
  PROVE  /\ subs' \in [DOMAIN subs' -> SubRecord] /\ DOMAIN subs' \subseteq Submissions
         /\ \A t \in DOMAIN subs' : subs'[t] = v \/ (t \in DOMAIN subs /\ subs'[t] = subs[t])
<1>1. subs' = [t \in DOMAIN subs \cup {s} |-> IF t = s THEN v ELSE subs[t]]
  BY DEF WithSub
<1>2. \A t \in DOMAIN subs : subs[t] \in SubRecord
  BY LanesFacts
<1>3. DOMAIN subs' = DOMAIN subs \cup {s} /\ DOMAIN subs \subseteq Submissions
  BY <1>1 DEF LanesInv, LanesTyped
<1>4. \A t \in DOMAIN subs' : subs'[t] = v \/ (t \in DOMAIN subs /\ subs'[t] = subs[t])
  BY <1>1
<1>5. subs' = [t \in DOMAIN subs' |-> subs'[t]]
  BY <1>1
<1> QED
  BY <1>2, <1>3, <1>4, <1>5

LEMMA StartKeeps ==
  ASSUME LanesInv, NEW s \in Submissions, Start(s)
  PROVE  LanesInv'
<1> DEFINE v == [conv |-> 1, lane |-> 1, session |-> 0, state |-> "pending"]
<1>1. /\ conv = <<>> /\ conv' = <<Bound(0)>> /\ lane' = Copies(conv') /\ subs' = WithSub(s, v)
      /\ UNCHANGED <<migrated, hermes, asked>>
  BY DEF Start
<1>2. MaxSession \in Nat /\ MaxConversations \in Nat \ {0}
  BY LanesFacts
<1>3. v \in SubRecord
  BY <1>2 DEF SubRecord, Slots
<1>4. /\ Bound(0) \in Conversation /\ Bound(0).super = 0
  BY <1>2 DEF Bound, Conversation
<1>5. DOMAIN subs = {}
  <2>1. DOMAIN conv = {}
    BY <1>1
  <2> QED
    BY <2>1, LanesFacts DEF SubBound
<1>6. /\ conv' \in Seq(Conversation) /\ Len(conv') = 1 /\ DOMAIN conv' = {1} /\ conv'[1].super = 0
  <2> DEFINE b == Bound(0)
  <2> HIDE DEF b
  <2>1. conv' = <<b>> /\ b \in Conversation /\ b.super = 0
    BY <1>1, <1>4 DEF b
  <2> QED
    BY <2>1
<1>7. /\ subs' \in [DOMAIN subs' -> SubRecord] /\ DOMAIN subs' \subseteq Submissions
      /\ \A t \in DOMAIN subs' : subs'[t] = v
  <2> HIDE DEF v
  <2> QED
    BY <1>1, <1>3, <1>5, WithSubKeeps
<1>8. LanesTyped'
  BY <1>1, <1>2, <1>6, <1>7 DEF LanesInv, LanesTyped
<1>9. AliasesMerged(conv')
  BY <1>6 DEF AliasesMerged
<1>10. Above(conv', 1) = 1
  BY <1>6 DEF Above
<1>11. lane' = LaneCopies(conv')
  <2>1. \A l \in DOMAIN conv' : Above(conv', l) = l
    BY <1>6, <1>10
  <2> QED
    BY <1>1, <2>1 DEF Copies, LaneCopies
<1>12. SubBound(conv', v)
  BY <1>6, <1>10 DEF SubBound
<1> HIDE DEF v
<1> QED
  BY <1>7, <1>8, <1>9, <1>11, <1>12 DEF LanesInv

LEMMA BeginKeeps ==
  ASSUME LanesInv, NEW s \in Submissions, NEW k \in DOMAIN conv, BeginOn(s, k)
  PROVE  LanesInv'
<1> DEFINE c == Above(conv, k)
           v == [conv |-> c, lane |-> c, session |-> conv[c].session, state |-> "pending"]
<1>1. /\ subs' = WithSub(s, v) /\ UNCHANGED <<conv, lane, migrated, hermes, asked>>
  BY LanesFacts, CanonicalIsAbove DEF BeginOn
<1>2. c \in DOMAIN conv /\ conv[c].super = 0 /\ Above(conv, c) = c
  BY LanesFacts, AboveIs
<1>3. conv[c] \in Conversation
  BY <1>2, LanesFacts
<1> HIDE DEF c
<1>4. v \in SubRecord
  BY <1>2, <1>3, LanesFacts DEF SubRecord, Conversation
<1>5. SubBound(conv, v)
  BY <1>2 DEF SubBound
<1> HIDE DEF v
<1>6. /\ subs' \in [DOMAIN subs' -> SubRecord] /\ DOMAIN subs' \subseteq Submissions
      /\ \A t \in DOMAIN subs' : subs'[t] = v \/ (t \in DOMAIN subs /\ subs'[t] = subs[t])
  BY <1>1, <1>4, WithSubKeeps
<1>7. \A t \in DOMAIN subs' : SubBound(conv, subs'[t])
  BY <1>5, <1>6, LanesFacts
<1> QED
  BY <1>1, <1>6, <1>7 DEF LanesInv, LanesTyped

LEMMA ByLaneIs ==
  ASSUME LanesInv, NEW l \in DOMAIN lane
  PROVE  /\ ByLane(l) = lane[l].id /\ lane[l].id \in DOMAIN conv
         /\ lane[l].rec = conv[lane[l].id] /\ lane[l].rec \in Conversation
<1>1. /\ conv \in Seq(Conversation) /\ AliasesMerged(conv) /\ lane = LaneCopies(conv)
      /\ l \in DOMAIN conv
  BY LanesFacts
<1>2. lane[l].id = Above(conv, l) /\ lane[l].rec = conv[Above(conv, l)] /\ Above(conv, l) \in DOMAIN conv
  BY <1>1, CopiesAre
<1>3. Above(conv, Above(conv, l)) = Above(conv, l)
  BY <1>1, AboveIs
<1>4. Canonical(conv, lane[l].id) = lane[l].id
  BY <1>1, <1>2, <1>3, CanonicalIsAbove
<1> QED
  BY <1>1, <1>2, <1>4 DEF ByLane

(* Submissions may be answered and learn sessions in the meantime. *)
LEMMA SetStep ==
  ASSUME LanesInv, NEW l \in DOMAIN lane, NEW rec \in Conversation,
         rec.super = lane[l].rec.super, rec.adopted = lane[l].rec.adopted,
         lane[l].rec.ids \subseteq rec.ids,
         SetConversation(lane[l].id, rec),
         subs' \in [DOMAIN subs -> SubRecord],
         \A s \in DOMAIN subs : subs'[s].conv = subs[s].conv /\ subs'[s].lane = subs[s].lane,
         UNCHANGED <<migrated, hermes, asked>>
  PROVE  LanesInv'
<1>1. /\ conv' \in Seq(Conversation) /\ Len(conv') = Len(conv)
      /\ AliasesMerged(conv') /\ lane' = LaneCopies(conv')
      /\ \A q : SubBound(conv, q) => SubBound(conv', q)
  BY SetKeeps, Zenon
<1>2. DOMAIN subs' = DOMAIN subs
  OBVIOUS
<1>3. \A s \in DOMAIN subs' : SubBound(conv', subs'[s])
  <2> SUFFICES ASSUME NEW s \in DOMAIN subs PROVE SubBound(conv', subs'[s])
    BY <1>2
  <2>1. SubBound(conv', subs[s])
    BY <1>1, LanesFacts
  <2> QED
    BY <2>1 DEF SubBound
<1> QED
  BY <1>1, <1>2, <1>3 DEF LanesInv, LanesTyped

(* An acknowledgement binds what is unbound or confirms the binding.       *)
LEMMA AcceptedIs ==
  ASSUME LanesInv, NEW s \in DOMAIN subs, NEW x \in 0..hermes
  PROVE  /\ Accepted(s, x) \in 0..MaxSession
         /\ conv[lane[subs[s].lane].id].session <= Accepted(s, x)
<1>1. /\ subs[s] \in SubRecord /\ subs[s].lane \in DOMAIN lane
      /\ MaxSession \in Nat /\ hermes \in 0..MaxSession
  BY LanesFacts
<1>2. ByLane(subs[s].lane) = lane[subs[s].lane].id /\ lane[subs[s].lane].id \in DOMAIN conv
  BY <1>1, ByLaneIs
<1> DEFINE bound == conv[lane[subs[s].lane].id].session
<1>3. bound \in 0..MaxSession
  <2>1. conv[lane[subs[s].lane].id] \in Conversation
    BY <1>2, LanesFacts
  <2> QED
    BY <2>1 DEF Conversation
<1>4. subs[s].session \in 0..MaxSession /\ x \in 0..MaxSession
  BY <1>1 DEF SubRecord
<1>5. Accepted(s, x) = IF x # 0 /\ bound \in {0, x} THEN x
                       ELSE IF bound # 0 THEN bound ELSE subs[s].session
  BY <1>2 DEF Accepted
<1> HIDE DEF bound
<1>6. Accepted(s, x) \in 0..MaxSession /\ bound <= Accepted(s, x)
  BY <1>1, <1>3, <1>4, <1>5
<1> QED
  BY <1>6 DEF bound

LEMMA AcknowledgeKeeps ==
  ASSUME LanesInv, NEW s \in DOMAIN subs, NEW x \in 0..hermes, Acknowledge(s, x)
  PROVE  LanesInv'
<1> DEFINE now == Accepted(s, x)
           l == subs[s].lane
           rec == [lane[l].rec EXCEPT !.session = now]
<1>1. now \in 0..MaxSession
  BY AcceptedIs
<1>2. /\ subs' = [subs EXCEPT ![s].state = "accepted", ![s].session = now]
      /\ UNCHANGED <<migrated, hermes, asked>>
      /\ now = 0 => UNCHANGED <<conv, lane>>
      /\ now # 0 => SetConversation(lane[l].id, rec)
  BY DEF Acknowledge
<1>3. /\ l \in DOMAIN lane /\ lane[l].rec \in Conversation /\ subs[s] \in SubRecord
      /\ subs \in [DOMAIN subs -> SubRecord]
  BY LanesFacts, ByLaneIs DEF LanesInv, LanesTyped
<1>4. rec \in Conversation /\ rec.super = lane[l].rec.super
      /\ rec.adopted = lane[l].rec.adopted /\ rec.ids = lane[l].rec.ids
  <2> HIDE DEF now, l
  <2> QED
    BY <1>1, <1>3 DEF Conversation
<1>5. /\ subs' \in [DOMAIN subs -> SubRecord] /\ DOMAIN subs' = DOMAIN subs
      /\ \A t \in DOMAIN subs : subs'[t].conv = subs[t].conv /\ subs'[t].lane = subs[t].lane
  <2> HIDE DEF now
  <2> QED
    BY <1>1, <1>2, <1>3 DEF SubRecord
<1> HIDE DEF now, l, rec
<1>6. CASE now = 0
  <2>1. \A t \in DOMAIN subs' : SubBound(conv, subs'[t])
    <3> SUFFICES ASSUME NEW t \in DOMAIN subs PROVE SubBound(conv, subs'[t])
      BY <1>5
    <3>1. SubBound(conv, subs[t])
      BY LanesFacts
    <3> QED
      BY <1>5, <3>1 DEF SubBound
  <2> QED
    BY <1>2, <1>5, <1>6, <2>1 DEF LanesInv, LanesTyped
<1>7. CASE now # 0
  <2>1. SetConversation(lane[l].id, rec) /\ lane[l].rec.ids \subseteq rec.ids
    BY <1>2, <1>4, <1>7
  <2> QED
    BY <1>2, <1>3, <1>4, <1>5, <2>1, SetStep
<1> QED
  BY <1>6, <1>7

(* An event moves a binding forward or leaves it.                          *)
LEMMA AfterEventIs ==
  ASSUME NEW rec \in Conversation, NEW x \in LaneSessions, NEW previous \in {0, x - 1}
  PROVE  /\ AfterEvent(rec, x, previous) \in Conversation
         /\ AfterEvent(rec, x, previous).super = rec.super
         /\ AfterEvent(rec, x, previous).adopted = rec.adopted
         /\ rec.ids \subseteq AfterEvent(rec, x, previous).ids
         /\ rec.session <= AfterEvent(rec, x, previous).session
<1> DEFINE a == AfterEvent(rec, x, previous)
           onto == [rec EXCEPT !.session = x]
           root == IF rec.root # 0 THEN rec.root ELSE rec.session
           ids == rec.ids \cup {rec.session, x}
           moved == [rec EXCEPT !.session = x, !.root = root, !.ids = ids]
<1>1. MaxSession \in Nat /\ x \in 1..MaxSession
  BY LaneConstantsAssumption DEF LaneSessions
<1>2. rec.session \in 0..MaxSession /\ rec.root \in 0..MaxSession /\ rec.ids \in SUBSET LaneSessions
  BY DEF Conversation
<1>3. /\ onto \in Conversation /\ onto.super = rec.super /\ onto.adopted = rec.adopted
      /\ onto.ids = rec.ids /\ onto.session = x
  BY <1>1 DEF Conversation
<1>4. CASE rec.session \in {0, x}
  <2>1. a = onto
    BY <1>4 DEF AfterEvent
  <2>2. rec.session <= x
    BY <1>1, <1>4
  <2> HIDE DEF a, onto
  <2> QED
    BY <1>3, <2>1, <2>2 DEF a
<1>5. CASE rec.session \notin {0, x} /\ previous = rec.session
  <2>1. a = moved
    BY <1>5 DEF AfterEvent
  <2>2. rec.session \in LaneSessions /\ rec.session <= x
    BY <1>1, <1>2, <1>5 DEF LaneSessions
  <2>3. root \in 0..MaxSession /\ ids \in SUBSET LaneSessions /\ rec.ids \subseteq ids
    BY <1>1, <1>2, <2>2 DEF LaneSessions
  <2> HIDE DEF root, ids
  <2>5. x \in 0..MaxSession /\ root \in 0..MaxSession /\ ids \in SUBSET LaneSessions
    BY <1>1, <2>3
  <2>6. /\ moved.super = rec.super /\ moved.adopted = rec.adopted
        /\ moved.ids = ids /\ moved.session = x
    BY DEF Conversation
  <2>7. moved \in Conversation
    BY <2>5 DEF Conversation
  <2>4. /\ moved \in Conversation /\ moved.super = rec.super /\ moved.adopted = rec.adopted
        /\ moved.ids = ids /\ moved.session = x
    BY <2>6, <2>7, Zenon
  <2> HIDE DEF a, moved
  <2> QED
    BY <2>1, <2>2, <2>3, <2>4 DEF a
<1>6. CASE rec.session \notin {0, x} /\ previous # rec.session
  <2>1. a = rec
    BY <1>6 DEF AfterEvent
  <2> HIDE DEF a
  <2> QED
    BY <1>2, <2>1 DEF a
<1> QED
  BY <1>4, <1>5, <1>6

(* An event keeps the invariant and moves no conversation back.            *)
LEMMA EventSetsConversation ==
  ASSUME LanesInv, LaneEvent
  PROVE  LanesInv' /\ \A k \in DOMAIN conv : ~(conv'[k].session < conv[k].session)
<1>10. PICK s \in DOMAIN subs, x \in 1..hermes, about \in BOOLEAN :
          \E previous \in {0, x - 1} :
             SessionEventOn(subs[s].lane, x, previous, IF about THEN {s} ELSE {})
  BY DEF LaneEvent
<1>1. PICK previous \in {0, x - 1} :
         SessionEventOn(subs[s].lane, x, previous, IF about THEN {s} ELSE {})
  BY <1>10
<1> DEFINE l == subs[s].lane
           of == IF about THEN {s} ELSE {}
           rec == AfterEvent(lane[l].rec, x, previous)
<1>2. /\ SetConversation(lane[l].id, rec)
      /\ subs' = [t \in DOMAIN subs |-> IF t \in of /\ rec.session = x
                                       THEN [subs[t] EXCEPT !.session = x] ELSE subs[t]]
      /\ UNCHANGED <<migrated, hermes, asked>>
  BY <1>1 DEF SessionEventOn
<1>3. l \in DOMAIN lane /\ x \in LaneSessions /\ MaxSession \in Nat /\ x \in 0..MaxSession
  BY LanesFacts DEF LaneSessions
<1>4. lane[l].rec \in Conversation /\ lane[l].rec = conv[lane[l].id]
  BY <1>3, ByLaneIs
<1>5. /\ rec \in Conversation /\ rec.super = lane[l].rec.super
      /\ rec.adopted = lane[l].rec.adopted /\ lane[l].rec.ids \subseteq rec.ids
      /\ lane[l].rec.session <= rec.session
  BY <1>3, <1>4, AfterEventIs
<1> HIDE DEF l, of, rec
<1>6. /\ subs' \in [DOMAIN subs -> SubRecord]
      /\ \A t \in DOMAIN subs : subs'[t].conv = subs[t].conv /\ subs'[t].lane = subs[t].lane
  <2>1. \A t \in DOMAIN subs : subs[t] \in SubRecord
    BY LanesFacts
  <2> SUFFICES \A t \in DOMAIN subs : /\ subs'[t] \in SubRecord
                                      /\ subs'[t].conv = subs[t].conv /\ subs'[t].lane = subs[t].lane
    BY <1>2
  <2> TAKE t \in DOMAIN subs
  <2> QED
    BY <1>2, <1>3, <2>1 DEF SubRecord
<1>7. LanesInv'
  BY <1>2, <1>3, <1>5, <1>6, SetStep
<1>8. /\ conv'[lane[l].id] = rec
      /\ \A k \in DOMAIN conv : k # lane[l].id => conv'[k] = conv[k]
  BY <1>2, <1>3, <1>5, SetKeeps
<1>9. \A k \in DOMAIN conv : conv[k].session \in Nat
  BY LanesFacts, ConversationIs
<1>11. \A k \in DOMAIN conv : ~(conv'[k].session < conv[k].session)
  <2>1. lane[l].rec.session \in Nat /\ rec.session \in Nat
    BY <1>3, <1>4, <1>5 DEF Conversation
  <2> QED
    BY <1>4, <1>5, <1>8, <1>9, <2>1
<1> QED
  BY <1>7, <1>11

LEMMA AskKeeps ==
  ASSUME LanesInv, ~PartialPages, Ask
  PROVE  LanesInv'
<1>1. PICK low \in 1..hermes, kind \in ResponseKinds :
         (PartialPages \/ low = 1) /\ asked' = {[low |-> low, high |-> hermes, kind |-> kind]}
  BY DEF Ask
<1>2. UNCHANGED <<conv, lane, subs, migrated, hermes>> /\ hermes > 0
  BY DEF Ask
<1>3. low = 1 /\ low \in LaneSessions /\ hermes \in LaneSessions
  BY <1>1, <1>2, LanesFacts DEF LaneSessions
<1>4. \A r \in asked' : r \in Responses /\ r.low = 1
  BY <1>1, <1>3 DEF Responses
<1> QED
  BY <1>2, <1>4 DEF LanesInv, LanesTyped

LEMMA AdoptKeeps ==
  ASSUME LanesInv, NEW x \in 1..hermes, Adopt(x)
  PROVE  LanesInv'
<1> DEFINE b == [Bound(x) EXCEPT !.adopted = x]
           N == Len(conv)
           e == [id |-> Len(conv'), rec |-> conv'[Len(conv')]]
           LaneRecord == [id : Slots, rec : Conversation]
<1>1. /\ conv' = Append(conv, b) /\ lane' = Append(lane, e) /\ N < MaxConversations
      /\ UNCHANGED <<subs, migrated, hermes, asked>>
  BY DEF Adopt
<1>2. b \in Conversation /\ b.super = 0
  <2>1. x \in 0..MaxSession /\ MaxConversations \in Nat /\ 0 \in 0..MaxSession /\ 0 \in 0..MaxConversations
    BY LanesFacts
  <2>2. Bound(x) \in Conversation /\ Bound(x).super = 0
    BY <2>1 DEF Bound, Conversation
  <2> QED
    BY <2>1, <2>2 DEF Conversation
<1>3. conv \in Seq(Conversation) /\ N \in Nat /\ DOMAIN conv = 1..N /\ MaxConversations \in Nat
  BY LanesFacts
<1> HIDE DEF b, N
<1>4. /\ conv' \in Seq(Conversation) /\ Len(conv') = N + 1 /\ DOMAIN conv' = 1..(N + 1)
      /\ conv'[N + 1] = b /\ \A k \in 1..N : conv'[k] = conv[k]
  BY <1>1, <1>2, <1>3 DEF N
<1>5. /\ AliasesMerged(conv')
  BY <1>2, <1>3, <1>4, LanesFacts DEF AliasesMerged
<1>6. /\ Above(conv', N + 1) = N + 1
      /\ \A k \in 1..N : Above(conv', k) = Above(conv, k) /\ Above(conv, k) \in 1..N
  BY <1>2, <1>3, <1>4, LanesFacts, AboveIs DEF Above
<1>7. lane' = LaneCopies(conv')
  <2>1. /\ DOMAIN lane = 1..N
        /\ \A l \in 1..N : lane[l] = [id |-> Above(conv, l), rec |-> conv[Above(conv, l)]]
    BY <1>3, LanesFacts DEF LaneCopies
  <2>2. \A l \in 1..N : lane[l] \in LaneRecord
    BY <1>3, <1>6, <2>1, LanesFacts, SMTT(40)
  <2> HIDE DEF LaneRecord
  <2>3. lane \in Seq(LaneRecord) /\ Len(lane) = N
    <3>1. lane = [l \in 1..N |-> lane[l]]
      BY <2>1, LanesFacts DEF LaneCopies
    <3>2. lane \in [1..N -> LaneRecord]
      BY <2>2, <3>1
    <3> QED
      BY <1>3, <3>2, SeqDef
  <2>4. e = [id |-> N + 1, rec |-> conv'[N + 1]] /\ e \in LaneRecord
    BY <1>1, <1>2, <1>3, <1>4 DEF LaneRecord, Slots
  <2> HIDE DEF e
  <2>5. /\ lane' = [l \in 1..(N + 1) |-> lane'[l]]
        /\ lane'[N + 1] = e /\ \A l \in 1..N : lane'[l] = lane[l]
    BY <1>1, <1>3, <2>3, <2>4
  <2>6. \A l \in 1..(N + 1) : lane'[l] = [id |-> Above(conv', l), rec |-> conv'[Above(conv', l)]]
    <3> SUFFICES ASSUME NEW l \in 1..(N + 1)
                 PROVE  lane'[l] = [id |-> Above(conv', l), rec |-> conv'[Above(conv', l)]]
      OBVIOUS
    <3>1. l \in 1..N \/ l = N + 1
      BY <1>3
    <3> QED
      BY <1>4, <1>6, <2>1, <2>4, <2>5, <3>1
  <2> QED
    BY <1>4, <2>5, <2>6 DEF LaneCopies
<1>8. \A s \in DOMAIN subs : SubBound(conv', subs[s])
  <2> SUFFICES ASSUME NEW s \in DOMAIN subs PROVE SubBound(conv', subs[s])
    OBVIOUS
  <2>1. SubBound(conv, subs[s])
    BY LanesFacts
  <2>2. subs[s].conv \in 1..N /\ subs[s].lane \in 1..N /\ 1..N \subseteq 1..(N + 1)
    BY <1>3, <2>1 DEF SubBound
  <2> QED
    BY <1>4, <1>6, <2>1, <2>2 DEF SubBound
<1>9. Len(conv') <= MaxConversations
  BY <1>1, <1>3, <1>4
<1> QED
  BY <1>1, <1>4, <1>5, <1>7, <1>8, <1>9 DEF LanesInv, LanesTyped

(* A reload drops the alias of an adopted conversation, and its lane.      *)
LEMMA ReloadKeeps ==
  ASSUME LanesInv, Reload
  PROVE  LanesInv'
<1>1. /\ conv' = [k \in DOMAIN conv |-> LoadedConversation(conv, k)]
      /\ lane' = LoadedLanes(conv') /\ asked' = {}
      /\ UNCHANGED <<subs, migrated, hermes>>
  BY DEF Reload
<1>2. conv \in Seq(Conversation) /\ AliasesMerged(conv) /\ MaxConversations \in Nat
  BY LanesFacts
<1> DEFINE free(k) == conv[k].super # 0 /\ conv[conv[k].super].adopted # 0
<1>3. \A k \in DOMAIN conv : /\ conv'[k] = [conv[k] EXCEPT !.super = IF free(k) THEN 0 ELSE conv[k].super]
  BY <1>1 DEF LoadedConversation
<1>4. \A k \in DOMAIN conv : /\ conv'[k] \in Conversation
                             /\ conv'[k].super = (IF free(k) THEN 0 ELSE conv[k].super)
                             /\ conv'[k].adopted = conv[k].adopted
                             /\ conv'[k].ids = conv[k].ids
  <2> SUFFICES ASSUME NEW k \in DOMAIN conv
               PROVE  /\ conv'[k] \in Conversation
                      /\ conv'[k].super = (IF free(k) THEN 0 ELSE conv[k].super)
                      /\ conv'[k].adopted = conv[k].adopted
                      /\ conv'[k].ids = conv[k].ids
    OBVIOUS
  <2> DEFINE s == IF free(k) THEN 0 ELSE conv[k].super
  <2>1. conv[k] \in Conversation
    BY <1>2
  <2>2. s \in 0..MaxConversations
    BY <1>2, <2>1 DEF Conversation
  <2>3. conv'[k] = [conv[k] EXCEPT !.super = s]
    BY <1>3
  <2> HIDE DEF s
  <2>4. /\ conv'[k] \in Conversation /\ conv'[k].super = s
        /\ conv'[k].adopted = conv[k].adopted /\ conv'[k].ids = conv[k].ids
    BY <2>1, <2>2, <2>3 DEF Conversation
  <2> QED
    BY <2>4 DEF s
<1>5. conv' \in Seq(Conversation) /\ Len(conv') = Len(conv) /\ DOMAIN conv' = DOMAIN conv
  <2>1. Len(conv) \in Nat /\ DOMAIN conv = 1..Len(conv)
    BY <1>2
  <2>2. conv' = [k \in DOMAIN conv |-> conv'[k]]
    BY <1>1
  <2>3. conv' \in [1..Len(conv) -> Conversation]
    BY <1>4, <2>1, <2>2
  <2> QED
    BY <2>1, <2>3, SeqDef
<1>6. AliasesMerged(conv')
  BY <1>2, <1>4, <1>5 DEF AliasesMerged
<1>7. lane' = LaneCopies(conv')
  <2>1. \A l \in DOMAIN conv' : Canonical(conv', l) = Above(conv', l)
    BY <1>5, <1>6, CanonicalIsAbove
  <2> QED
    BY <1>1, <2>1 DEF LoadedLanes, LaneCopies
<1>8. ASSUME NEW s \in DOMAIN subs PROVE SubBound(conv', subs[s])
  <2> DEFINE q == subs[s]
  <2>1. SubBound(conv, q)
    BY LanesFacts
  <2> HIDE DEF q
  <2>2. q.conv \in DOMAIN conv /\ q.lane \in DOMAIN conv /\ conv'[q.conv].super = 0
    BY <1>4, <2>1 DEF SubBound
  <2>3. conv'[q.conv].adopted = 0 => Above(conv', q.lane) = q.conv
    <3> SUFFICES ASSUME conv[q.conv].adopted = 0 PROVE Above(conv', q.lane) = q.conv
      BY <1>4, <2>2
    <3>1. Above(conv, q.lane) = q.conv
      BY <2>1 DEF SubBound
    <3>2. ~free(q.lane)
      BY <3>1 DEF Above
    <3> QED
      BY <1>4, <2>2, <3>1, <3>2 DEF Above
  <2>4. SubBound(conv', q)
    BY <1>4, <1>5, <2>1, <2>2, <2>3 DEF SubBound
  <2> QED
    BY <2>4 DEF q
<1>9. LanesTyped'
  BY <1>1, <1>5 DEF LanesInv, LanesTyped
<1> QED
  BY <1>1, <1>6, <1>7, <1>8, <1>9 DEF LanesInv

(* A whole chain is reconciled in one round.                               *)
LEMMA ReconciledIs ==
  ASSUME NEW st, NEW r \in Responses, r.low = 1
  PROVE  Reconciled(st, r) = ReconcileLineage(st, LineagesOf[r][1])
<1> DEFINE found == LineagesOf[r]
           roots == SetToSeq(DOMAIN found)
           N == Len(roots)
           h == CHOOSE h : h = [i \in 0..N |->
                    IF i = 0 THEN st ELSE ReconcileLineage(h[i - 1], found[roots[i]])]
           g == [i \in 0..1 |-> IF i = 0 THEN st ELSE ReconcileLineage(st, found[1])]
<1>1. DOMAIN found = {1}
  BY ChainLineages
<1>2. N = 1 /\ roots[1] = 1
  <2> DEFINE f == [i \in 1..1 |-> 1]
  <2>1. Cardinality({1}) = 1
    BY FS_Singleton
  <2>2. f \in [1..1 -> {1}] /\ IsInjective(f)
    BY DEF IsInjective
  <2>3. roots = CHOOSE q \in [1..1 -> {1}] : IsInjective(q)
    BY <1>1, <2>1, Zenon DEF SetToSeq
  <2> HIDE DEF f, roots
  <2>4. roots \in [1..1 -> {1}]
    BY <2>2, <2>3, Zenon
  <2>5. roots \in Seq({1})
    BY <2>4, SeqDef
  <2>6. DOMAIN roots = 1..1 /\ roots[1] = 1
    BY <2>4
  <2>7. Len(roots) = 1
    BY <2>5, <2>6
  <2> QED
    BY <2>6, <2>7
<1> HIDE DEF N, roots, found
<1>3. g = [i \in 0..N |-> IF i = 0 THEN st ELSE ReconcileLineage(g[i - 1], found[roots[i]])]
  <2>1. \A i \in 0..1 : g[i] = IF i = 0 THEN st ELSE ReconcileLineage(g[i - 1], found[roots[i]])
    <3>1. g[0] = st /\ g[1] = ReconcileLineage(st, found[1])
      OBVIOUS
    <3>2. \A i \in 0..1 : i = 0 \/ i = 1
      OBVIOUS
    <3> HIDE DEF g
    <3> QED
      BY <1>2, <3>1, <3>2
  <2>2. g = [i \in 0..1 |-> g[i]]
    OBVIOUS
  <2> HIDE DEF g
  <2> QED
    BY <1>2, <2>1, <2>2
<1>4. h = [i \in 0..N |-> IF i = 0 THEN st ELSE ReconcileLineage(h[i - 1], found[roots[i]])]
  <2> HIDE DEF g
  <2> QED
    BY <1>3, Zenon
<1>5. Reconciled(st, r) = h[N]
  BY Zenon DEF Reconciled, h, N, roots, found
<1> HIDE DEF h
<1>6. h[0] = st /\ h[1] = ReconcileLineage(h[0], found[1])
  BY <1>2, <1>4
<1> QED
  BY <1>2, <1>5, <1>6, Zenon DEF found

(* What one lineage of sessions `all', which begins with session 1, does:  *)
(* the candidates become aliases of one of them, or of a new conversation. *)
IsMerge(all, cs, c, tip) ==
    LET cands == Candidates(conv, all)
        known == cs[c].ids \cup all \cup {tip}
    IN  /\ cs \in Seq(Conversation) /\ c \in DOMAIN cs /\ cs[c].super = 0
        /\ DOMAIN conv \subseteq DOMAIN cs /\ \A k \in DOMAIN conv : cs[k] = conv[k]
        /\ \A k \in DOMAIN cs : k \in DOMAIN conv \/ k = c
        /\ conv' \in Seq(Conversation) /\ DOMAIN conv' = DOMAIN cs
        /\ \A k \in cands \cup {c} :
              /\ conv'[k].super = IF k = c THEN 0 ELSE c
              /\ conv'[k].adopted = cs[k].adopted
              /\ conv'[k].session = tip /\ conv'[k].ids = known
        /\ \A k \in DOMAIN cs : k \notin cands \cup {c} => conv'[k] = cs[k]
        /\ lane' = [l \in DOMAIN cs |-> IF l \in cands \cup {c} THEN [id |-> c, rec |-> conv'[c]]
                                        ELSE lane[l]]
        /\ subs' = [s \in DOMAIN subs |-> IF subs[s].conv \in cands \cup {c}
                                         THEN [subs[s] EXCEPT !.conv = c, !.session = tip]
                                         ELSE subs[s]]
        /\ tip \in LaneSessions
        /\ cs[c].root = 1 => cs[c].session <= tip

(* The canonical candidate is a candidate that is not superseded.          *)
LEMMA ChosenIs ==
  ASSUME NEW cs \in Seq(Conversation), AliasesMerged(cs), NEW all, 1 \in all,
         NEW root, NEW cands, cands = Candidates(cs, all), cands # {}
  PROVE  Chosen(cs, cands, root) \in cands /\ cs[Chosen(cs, cands, root)].super = 0
<1> DEFINE resolved == {Canonical(cs, k) : k \in cands}
           owners == {k \in resolved : OwnsRoot(cs[k], root)}
           pool == IF owners # {} THEN owners ELSE resolved
<1>1. cands \subseteq DOMAIN cs /\ \A k \in DOMAIN cs : 1 \in cs[k].ids => k \in cands
  BY DEF Candidates
<1>2. \A k \in cands : /\ Canonical(cs, k) = Above(cs, k) /\ Above(cs, k) \in DOMAIN cs
                       /\ cs[Above(cs, k)].super = 0
  BY <1>1, CanonicalIsAbove, AboveIs
<1>3. \A k \in cands : Above(cs, k) \in cands
  BY <1>1 DEF Above, AliasesMerged
<1>4. \A j \in resolved : j \in cands /\ cs[j].super = 0
  BY <1>2, <1>3
<1>5. pool # {} /\ pool \subseteq resolved
  OBVIOUS
<1>6. \A j \in resolved : j \in Nat
  BY <1>1, <1>4, ConversationIs
<1> HIDE DEF pool, resolved
<1>7. \E k \in pool : \A j \in pool : k <= j
  BY <1>5, <1>6, LeastNat
<1>8. Chosen(cs, cands, root) = CHOOSE k \in pool : \A j \in pool : k <= j
  BY Zenon DEF Chosen, pool, resolved
<1>9. Chosen(cs, cands, root) \in pool
  BY <1>7, <1>8, Zenon
<1> QED
  BY <1>4, <1>5, <1>9

LEMMA ChosenHere ==
  ASSUME LanesInv, NEW all, 1 \in all, NEW root, Candidates(conv, all) # {}
  PROVE  /\ Chosen(conv, Candidates(conv, all), root) \in Candidates(conv, all)
         /\ conv[Chosen(conv, Candidates(conv, all), root)].super = 0
<1>1. conv \in Seq(Conversation) /\ AliasesMerged(conv)
  BY LanesFacts
<1> DEFINE cands == Candidates(conv, all)
<1>2. cands = Candidates(conv, all) /\ cands # {}
  OBVIOUS
<1> HIDE DEF cands
<1>3. Chosen(conv, cands, root) \in cands /\ conv[Chosen(conv, cands, root)].super = 0
  BY <1>1, <1>2, ChosenIs
<1> QED
  BY <1>3 DEF cands

LEMMA TipAfterIs ==
  ASSUME NEW rec \in Conversation, NEW lineage, lineage.root = 1,
         lineage.tip \in LaneSessions,
         \A x \in ToSet(lineage.all) : x <= lineage.tip
  PROVE  /\ TipAfter(rec, lineage) \in LaneSessions
         /\ rec.root = 1 => rec.session <= TipAfter(rec, lineage)
<1>1. MaxSession \in Nat /\ rec.session \in 0..MaxSession
  BY LaneConstantsAssumption DEF Conversation
<1> QED
  BY <1>1 DEF TipAfter, LaneSessions

(* That round is the merge above.                                          *)
LEMMA MergeOf ==
  ASSUME LanesInv, NEW lineage, lineage.root = 1, lineage.tip \in LaneSessions,
         NEW all, all = ToSet(lineage.all) \cup {lineage.root},
         all \subseteq LaneSessions, \A x \in all : x <= lineage.tip,
         NEW st, st.conv = conv, st.lane = lane, st.subs = subs,
         Len(conv') <= MaxConversations, conv' = ReconcileLineage(st, lineage).conv,
         lane' = ReconcileLineage(st, lineage).lane,
         subs' = ReconcileLineage(st, lineage).subs
  PROVE  \E cs, c, tip : IsMerge(all, cs, c, tip)
<1> DEFINE cands == Candidates(st.conv, all)
           cs == IF cands = {} THEN Append(st.conv, Bound(lineage.tip)) ELSE st.conv
           c == IF cands = {} THEN Len(cs) ELSE Chosen(st.conv, cands, lineage.root)
           tip == TipAfter(cs[c], lineage)
           moved == [cs[c] EXCEPT !.session = tip, !.root = lineage.root, !.super = 0,
                                  !.ids = @ \cup all \cup {tip}]
           Alias(k) == [moved EXCEPT !.super = c, !.adopted = cs[k].adopted]
           after == [k \in DOMAIN cs |->
                        IF k = c THEN moved ELSE IF k \in cands THEN Alias(k) ELSE cs[k]]
           lanes == LanesAfter(st.lane, after, c, cands)
           bound == [s \in DOMAIN st.subs |->
                        IF st.subs[s].conv \in cands \cup {c}
                        THEN [st.subs[s] EXCEPT !.conv = c, !.session = tip]
                        ELSE st.subs[s]]
<1>1. ReconcileLineage(st, lineage) = [conv |-> after, lane |-> lanes, subs |-> bound]
  BY Zenon DEF ReconcileLineage
<1>2. conv' = after /\ lane' = LanesAfter(st.lane, after, c, cands) /\ subs' = bound
  <2> HIDE DEF after, lanes, bound
  <2>1. conv' = after /\ lane' = lanes /\ subs' = bound
    BY <1>1
  <2> QED
    BY <2>1 DEF lanes
<1>3. /\ conv \in Seq(Conversation) /\ AliasesMerged(conv) /\ MaxSession \in Nat
      /\ DOMAIN conv \subseteq Slots /\ MaxConversations \in Nat
  BY LanesFacts
<1>4. cands = Candidates(conv, all) /\ 1 \in all
  OBVIOUS
<1> HIDE DEF cands
<1>5. /\ cs \in Seq(Conversation) /\ c \in DOMAIN cs /\ cs[c].super = 0
      /\ DOMAIN conv \subseteq DOMAIN cs /\ \A k \in DOMAIN conv : cs[k] = conv[k]
      /\ \A k \in DOMAIN cs : k \in DOMAIN conv \/ k = c
      /\ cands \subseteq DOMAIN conv
  <2>1. CASE cands = {}
    <3> DEFINE b == Bound(lineage.tip)
    <3>1. b \in Conversation /\ b.super = 0
      BY <1>3 DEF Bound, Conversation, LaneSessions
    <3> HIDE DEF b
    <3>2. cs = Append(conv, b) /\ c = Len(cs)
      BY <2>1 DEF b
    <3> HIDE DEF c, cs
    <3>3. /\ cs \in Seq(Conversation) /\ c \in DOMAIN cs /\ cs[c].super = 0
          /\ DOMAIN conv \subseteq DOMAIN cs /\ \A k \in DOMAIN conv : cs[k] = conv[k]
          /\ \A k \in DOMAIN cs : k \in DOMAIN conv \/ k = c
      BY <1>3, <3>1, <3>2
    <3> QED
      BY <2>1, <3>3
  <2>2. CASE cands # {}
    <3>1. cs = conv /\ c = Chosen(conv, cands, lineage.root)
      BY <2>2
    <3> HIDE DEF c, cs
    <3>2. c \in cands /\ conv[c].super = 0
      <4> DEFINE root == lineage.root
      <4> HIDE DEF root
      <4>1. Chosen(conv, cands, root) \in cands /\ conv[Chosen(conv, cands, root)].super = 0
        <5>1. Candidates(conv, all) # {}
          BY <1>4, <2>2
        <5>2. /\ Chosen(conv, Candidates(conv, all), root) \in Candidates(conv, all)
              /\ conv[Chosen(conv, Candidates(conv, all), root)].super = 0
          BY <1>4, <5>1, ChosenHere, ZenonT(40)
        <5> QED
          BY <1>4, <5>2, Zenon
      <4> QED
        BY <3>1, <4>1, Zenon DEF root
    <3>3. cands \subseteq DOMAIN conv
      BY <1>4 DEF Candidates
    <3> QED
      BY <1>3, <3>1, <3>2, <3>3
  <2> HIDE DEF c, cs
  <2> QED
    BY <2>1, <2>2
<1> HIDE DEF c, cs
<1>6. cs[c] \in Conversation
  BY <1>5
<1>7. tip \in LaneSessions /\ (cs[c].root = 1 => cs[c].session <= tip)
  <2>1. \A x \in ToSet(lineage.all) : x <= lineage.tip
    OBVIOUS
  <2> QED
    BY <1>6, <2>1, TipAfterIs
<1> HIDE DEF tip, moved, Alias, bound
<1> DEFINE known == cs[c].ids \cup all \cup {tip}
<1>8. known \in SUBSET LaneSessions
  BY <1>6, <1>7 DEF Conversation
<1>9. DOMAIN conv' = DOMAIN cs
  BY <1>2
<1>10. Len(conv') = Len(cs) /\ Len(cs) \in Nat /\ DOMAIN cs = 1..Len(cs)
  <2>1. Len(cs) \in Nat /\ DOMAIN cs = 1..Len(cs)
    BY <1>5
  <2>2. conv' = [k \in 1..Len(cs) |-> after[k]]
    BY <1>2, <2>1
  <2> HIDE DEF after
  <2> QED
    BY <2>1, <2>2
<1>11. c \in Slots /\ 0 \in 0..MaxConversations /\ c \in 0..MaxConversations /\ 1 \in 0..MaxSession
       /\ tip \in 0..MaxSession
  BY <1>3, <1>5, <1>7, <1>10 DEF Slots, LaneSessions
<1>12. /\ moved \in Conversation /\ moved.super = 0 /\ moved.adopted = cs[c].adopted
       /\ moved.session = tip /\ moved.ids = known
  <2> DEFINE r == cs[c]
  <2>1. r \in Conversation /\ r.ids \cup all \cup {tip} = known
    BY <1>6
  <2>2. moved = [r EXCEPT !.session = tip, !.root = 1, !.super = 0, !.ids = known]
    BY Zenon DEF moved
  <2> HIDE DEF r, known, moved
  <2>3. /\ moved.super = 0 /\ moved.adopted = r.adopted
        /\ moved.session = tip /\ moved.ids = known
    BY <2>1, <2>2 DEF Conversation
  <2>4. moved \in Conversation
    BY <1>8, <1>11, <2>1, <2>2 DEF Conversation
  <2> QED
    BY <2>3, <2>4 DEF r
<1> HIDE DEF known
<1>13. ASSUME NEW k \in cands \cup {c}
       PROVE  /\ conv'[k] \in Conversation
              /\ conv'[k].super = IF k = c THEN 0 ELSE c
              /\ conv'[k].adopted = cs[k].adopted
              /\ conv'[k].session = tip /\ conv'[k].ids = known
  <2>1. k \in DOMAIN cs
    BY <1>5
  <2>2. CASE k = c
    BY <1>2, <1>12, <2>1, <2>2
  <2>3. CASE k # c
    <3>1. conv'[k] = [moved EXCEPT !.super = c, !.adopted = cs[k].adopted]
      <4>1. conv'[k] = Alias(k)
        BY <1>2, <2>1, <2>3
      <4> QED
        BY <4>1, Zenon DEF Alias
    <3>3. cs[k] \in Conversation
      BY <1>5, <2>1
    <3>2. cs[k].adopted \in 0..MaxSession
      BY <3>3 DEF Conversation
    <3> HIDE DEF after
    <3> QED
      BY <1>11, <1>12, <2>3, <3>1, <3>2 DEF Conversation
  <2> QED
    BY <2>2, <2>3
<1>14. \A k \in DOMAIN cs : k \notin cands \cup {c} => conv'[k] = cs[k]
  BY <1>2
<1>15. conv' \in Seq(Conversation)
  <2>1. \A k \in DOMAIN cs : conv'[k] \in Conversation
    BY <1>5, <1>13, <1>14
  <2>2. conv' = [k \in DOMAIN cs |-> conv'[k]]
    BY <1>2
  <2>3. conv' \in [1..Len(cs) -> Conversation]
    BY <1>10, <2>1, <2>2
  <2> QED
    BY <1>10, <2>3, SeqDef
<1>16. lane' = [l \in DOMAIN cs |-> IF l \in cands \cup {c} THEN [id |-> c, rec |-> conv'[c]]
                                    ELSE lane[l]]
  <2>1. conv' = after /\ DOMAIN after = DOMAIN cs /\ lane' = LanesAfter(lane, after, c, cands)
    BY <1>2, <1>9
  <2> HIDE DEF after
  <2> QED
    BY <2>1 DEF LanesAfter
<1>17. subs' = [s \in DOMAIN subs |-> IF subs[s].conv \in cands \cup {c}
                                      THEN [subs[s] EXCEPT !.conv = c, !.session = tip]
                                      ELSE subs[s]]
  <2>1. st.subs = subs /\ subs' = bound
    BY <1>2
  <2> QED
    BY <2>1, Zenon DEF bound
<1> HIDE DEF after, lanes
<1>18. IsMerge(all, cs, c, tip)
  BY <1>4, <1>5, <1>7, <1>9, <1>13, <1>14, <1>15, <1>16, <1>17, ZenonT(40) DEF IsMerge, known
<1> QED
  BY <1>18, Zenon

(* What a response does to the conversations. *)
LEMMA ResponseMerges ==
  ASSUME LanesInv, NEW r \in asked, HandleResponse(r)
  PROVE  /\ r \in Responses /\ r.low = 1 /\ 1 \in ChainOf(r)
         /\ Len(conv') <= MaxConversations
         /\ \E cs, c, tip : IsMerge(ChainOf(r), cs, c, tip)
<1>1. r \in Responses /\ r.low = 1
  BY DEF LanesInv, LanesTyped
<1> DEFINE st == [conv |-> conv, lane |-> lane, subs |-> subs]
           lineage == LineagesOf[r][1]
           all == ToSet(lineage.all) \cup {lineage.root}
<1>2. /\ lineage.root = 1 /\ lineage.tip = r.high /\ all = ChainOf(r) /\ 1 \in ChainOf(r)
      /\ ChainOf(r) \subseteq 1..r.high /\ r.high \in LaneSessions
  BY <1>1, ChainLineages DEF Responses
<1>3. /\ Len(conv') <= MaxConversations /\ conv' = Reconciled(st, r).conv
      /\ lane' = Reconciled(st, r).lane /\ subs' = Reconciled(st, r).subs
  BY DEF HandleResponse
<1>4. st.conv = conv /\ st.lane = lane /\ st.subs = subs
  OBVIOUS
<1> HIDE DEF st, lineage, all
<1>5. Reconciled(st, r) = ReconcileLineage(st, lineage)
  BY <1>1, ReconciledIs DEF lineage
<1>6. all \subseteq LaneSessions /\ \A x \in all : x <= lineage.tip
  <2>1. MaxSession \in Nat
    BY LanesFacts
  <2> QED
    BY <1>2, <2>1 DEF LaneSessions
<1>7. \E cs, c, tip : IsMerge(all, cs, c, tip)
  <2>1. all = ToSet(lineage.all) \cup {lineage.root}
    BY DEF all
  <2>2. /\ conv' = ReconcileLineage(st, lineage).conv
        /\ lane' = ReconcileLineage(st, lineage).lane
        /\ subs' = ReconcileLineage(st, lineage).subs
    BY <1>3, <1>5, Zenon
  <2>3. lineage.root = 1 /\ lineage.tip \in LaneSessions
    BY <1>2
  <2> QED
    BY <1>3, <1>4, <1>6, <2>1, <2>2, <2>3, MergeOf
<1> QED
  BY <1>1, <1>2, <1>3, <1>7

(* After a merge all candidates and their lanes lead to one record.        *)
LEMMA RespondKeeps ==
  ASSUME LanesInv, NEW r \in asked, HandleResponse(r)
  PROVE  LanesInv'
<1> DEFINE all == ChainOf(r)
           cands == Candidates(conv, all)
<1> HIDE DEF all, cands
<1>1. PICK cs, c, tip : IsMerge(all, cs, c, tip)
  BY ResponseMerges DEF all
<1> DEFINE known == cs[c].ids \cup all \cup {tip}
           hit == cands \cup {c}
<1> HIDE DEF known
<1>2. /\ cs \in Seq(Conversation) /\ c \in DOMAIN cs /\ cs[c].super = 0
      /\ DOMAIN conv \subseteq DOMAIN cs /\ \A k \in DOMAIN conv : cs[k] = conv[k]
      /\ \A k \in DOMAIN cs : k \in DOMAIN conv \/ k = c
      /\ conv' \in Seq(Conversation) /\ DOMAIN conv' = DOMAIN cs
      /\ tip \in LaneSessions
  BY <1>1, Zenon DEF IsMerge
<1>3. /\ \A k \in hit :
            /\ conv'[k].super = IF k = c THEN 0 ELSE c
            /\ conv'[k].adopted = cs[k].adopted
            /\ conv'[k].session = tip /\ conv'[k].ids = known
      /\ \A k \in DOMAIN cs : k \notin hit => conv'[k] = cs[k]
  BY <1>1, Zenon DEF IsMerge, cands, known, all
<1> DEFINE Bind(q) == [q EXCEPT !.conv = c, !.session = tip]
<1>4. /\ lane' = [l \in DOMAIN cs |-> IF l \in hit THEN [id |-> c, rec |-> conv'[c]] ELSE lane[l]]
      /\ subs' = [s \in DOMAIN subs |-> IF subs[s].conv \in hit THEN Bind(subs[s]) ELSE subs[s]]
  BY <1>1, Zenon DEF IsMerge, cands, all
<1> HIDE DEF Bind
<1>5. /\ cands \subseteq DOMAIN conv /\ \A k \in DOMAIN conv : 1 \in conv[k].ids => k \in cands
      /\ 1 \in known
  BY ResponseMerges DEF cands, known, Candidates, all
<1>6. /\ conv \in Seq(Conversation) /\ AliasesMerged(conv) /\ lane = LaneCopies(conv)
      /\ MaxSession \in Nat /\ MaxConversations \in Nat /\ Len(conv') <= MaxConversations
  BY LanesFacts, ResponseMerges
<1>7. c # 0 /\ c \in hit /\ hit \subseteq DOMAIN cs /\ c \in Slots
  <2>1. Len(conv') \in Nat /\ DOMAIN conv' = 1..Len(conv')
    BY <1>2, ConversationIs
  <2>2. c \in 1..Len(conv')
    BY <1>2, <2>1
  <2> QED
    BY <1>2, <1>5, <1>6, <2>1, <2>2 DEF Slots
<1>8. ASSUME NEW k \in DOMAIN cs, k \notin hit
      PROVE  /\ k \in DOMAIN conv /\ conv'[k] = conv[k] /\ conv[k].super = 0
             /\ 1 \notin conv[k].ids /\ Above(conv, k) = k /\ Above(conv', k) = k
  <2>1. k \in DOMAIN conv /\ conv'[k] = conv[k]
    BY <1>2, <1>3, <1>8
  <2>2. 1 \notin conv[k].ids
    BY <1>5, <1>8, <2>1
  <2>3. conv[k].super = 0
    BY <1>6, <2>1, <2>2 DEF AliasesMerged
  <2> QED
    BY <2>1, <2>2, <2>3 DEF Above
<1> HIDE DEF hit
<1>9. \A k \in hit : Above(conv', k) = c
  BY <1>3, <1>7 DEF Above
<1>10. AliasesMerged(conv')
  <2> SUFFICES ASSUME NEW k \in DOMAIN cs, conv'[k].super # 0
               PROVE  /\ conv'[k].super \in DOMAIN cs /\ conv'[conv'[k].super].super = 0
                      /\ 1 \in conv'[k].ids /\ 1 \in conv'[conv'[k].super].ids
    BY <1>2 DEF AliasesMerged
  <2>1. k \in hit
    BY <1>8
  <2>2. conv'[k].super = c
    BY <1>3, <2>1
  <2> QED
    BY <1>2, <1>3, <1>5, <1>7, <2>1, <2>2
<1>11. lane' = LaneCopies(conv')
  <2>1. \A l \in DOMAIN cs : (IF l \in hit THEN [id |-> c, rec |-> conv'[c]] ELSE lane[l])
                             = [id |-> Above(conv', l), rec |-> conv'[Above(conv', l)]]
    <3> SUFFICES ASSUME NEW l \in DOMAIN cs
                 PROVE  (IF l \in hit THEN [id |-> c, rec |-> conv'[c]] ELSE lane[l])
                        = [id |-> Above(conv', l), rec |-> conv'[Above(conv', l)]]
      OBVIOUS
    <3>1. CASE l \in hit
      BY <1>9, <3>1
    <3>2. CASE l \notin hit
      <4>1. lane[l] = [id |-> l, rec |-> conv[l]]
        BY <1>6, <1>8, <3>2 DEF LaneCopies
      <4> QED
        BY <1>8, <3>2, <4>1
    <3> QED
      BY <3>1, <3>2
  <2> QED
    BY <1>2, <1>4, <2>1, Zenon DEF LaneCopies
<1>12. ASSUME NEW s \in DOMAIN subs
       PROVE  subs'[s] \in SubRecord /\ SubBound(conv', subs'[s])
  <2> DEFINE q == subs[s]
             p == subs'[s]
  <2>1. SubBound(conv, q) /\ q \in SubRecord
    BY LanesFacts
  <2>2. /\ q.conv \in DOMAIN conv /\ q.lane \in DOMAIN conv
        /\ q.lane = q.conv \/ (1 \in conv[q.conv].ids /\ 1 \in conv[q.lane].ids)
    BY <2>1 DEF SubBound
  <2>3. p = IF q.conv \in hit THEN Bind(q) ELSE q
    BY <1>4
  <2> HIDE DEF q, p
  <2>4. CASE q.conv \in hit
    <3>1. tip \in 0..MaxSession
      BY <1>2, <1>6 DEF LaneSessions
    <3>2. p \in SubRecord /\ p.conv = c /\ p.lane = q.lane
      <4>1. p = [q EXCEPT !.conv = c, !.session = tip]
        BY <2>3, <2>4 DEF Bind
      <4> QED
        BY <1>7, <2>1, <3>1, <4>1 DEF SubRecord
    <3>3. q.lane \in hit
      BY <1>5, <2>2, <2>4 DEF hit
    <3>4. SubBound(conv', p)
      BY <1>2, <1>3, <1>5, <1>7, <1>9, <3>2, <3>3 DEF SubBound
    <3> QED
      BY <3>2, <3>4 DEF p
  <2>5. CASE q.conv \notin hit
    <3>1. p = q
      BY <2>3, <2>5
    <3>2. q.conv \in DOMAIN cs
      BY <1>2, <2>2
    <3>3. /\ conv'[q.conv] = conv[q.conv] /\ conv[q.conv].super = 0
          /\ 1 \notin conv[q.conv].ids /\ Above(conv', q.conv) = q.conv
      BY <1>8, <2>5, <3>2
    <3>4. SubBound(conv', q)
      BY <1>2, <2>2, <3>2, <3>3 DEF SubBound
    <3> QED
      BY <2>1, <3>1, <3>4 DEF p
  <2> QED
    BY <2>4, <2>5
<1>13. /\ DOMAIN subs' = DOMAIN subs /\ subs' \in [DOMAIN subs' -> SubRecord]
  <2>1. DOMAIN subs' = DOMAIN subs /\ subs' = [s \in DOMAIN subs |-> subs'[s]]
    BY <1>4
  <2> QED
    BY <1>12, <2>1
<1>14. /\ asked' \subseteq asked /\ migrated' \in BOOLEAN /\ hermes' = hermes
  BY DEF HandleResponse, LanesInv, LanesTyped
<1>15. LanesTyped'
  BY <1>2, <1>6, <1>13, <1>14 DEF LanesInv, LanesTyped
<1> QED
  BY <1>10, <1>11, <1>12, <1>13, <1>15 DEF LanesInv

LEMMA LanesStep ==
  ASSUME LanesInv, ~PartialPages, [LanesNext]_laneVars
  PROVE  LanesInv'
<1>1. ASSUME NEW s \in Submissions, Start(s) PROVE LanesInv'
  BY <1>1, StartKeeps
<1>2. ASSUME NEW s \in Submissions, NEW k \in DOMAIN conv, BeginOn(s, k) PROVE LanesInv'
  BY <1>2, BeginKeeps
<1>3. CASE Compress
  <2>1. hermes' \in 0..MaxSession
    BY <1>3, LanesFacts DEF Compress
  <2> QED
    BY <1>3, <2>1 DEF Compress, LanesInv, LanesTyped
<1>4. ASSUME NEW s \in DOMAIN subs, NEW x \in 0..hermes, Acknowledge(s, x) PROVE LanesInv'
  BY <1>4, AcknowledgeKeeps
<1>5. CASE LaneEvent
  BY <1>5, EventSetsConversation
<1>6. CASE Ask
  BY <1>6, AskKeeps
<1>7. ASSUME NEW r \in asked, HandleResponse(r) PROVE LanesInv'
  BY <1>7, RespondKeeps
<1>8. ASSUME NEW r \in asked, LoseResponse(r) PROVE LanesInv'
  BY <1>8 DEF LoseResponse, LanesInv, LanesTyped
<1>9. ASSUME NEW x \in 1..hermes, Adopt(x) PROVE LanesInv'
  BY <1>9, AdoptKeeps
<1>10. CASE Reload
  BY <1>10, ReloadKeeps
<1>11. CASE UNCHANGED laneVars
  BY <1>11 DEF laneVars, LanesInv, LanesTyped
<1> QED
  BY <1>1, <1>2, <1>3, <1>4, <1>5, <1>6, <1>7, <1>8, <1>9, <1>10, <1>11, Zenon DEF LanesNext

LEMMA LanesInvImplies == LanesInv => LanesAreSound
<1> SUFFICES ASSUME LanesInv PROVE LanesAreSound
  OBVIOUS
<1>1. /\ conv \in Seq(Conversation) /\ AliasesMerged(conv) /\ lane = LaneCopies(conv)
      /\ DOMAIN lane = DOMAIN conv
      /\ \A s \in DOMAIN subs : SubBound(conv, subs[s]) /\ subs[s].lane \in DOMAIN lane
  BY LanesFacts
<1>2. \A l \in DOMAIN lane : /\ ByLane(l) = lane[l].id /\ lane[l].id = Above(conv, l)
                             /\ lane[l].id \in DOMAIN conv
                             /\ lane[l].rec = conv[lane[l].id] /\ lane[l].rec \in Conversation
  <2>1. \A l \in DOMAIN lane : /\ ByLane(l) = lane[l].id /\ lane[l].id \in DOMAIN conv
                               /\ lane[l].rec = conv[lane[l].id] /\ lane[l].rec \in Conversation
    BY ByLaneIs
  <2>2. \A l \in DOMAIN lane : lane[l].id = Above(conv, l)
    BY <1>1, CopiesAre
  <2> QED
    BY <2>1, <2>2, Zenon
<1>3. \A k \in DOMAIN conv : Canonical(conv, k) = Above(conv, k) /\ conv[Above(conv, k)].super = 0
  BY <1>1, CanonicalIsAbove, AboveIs
<1>4. LanesTypeOK
  BY <1>1, <1>2 DEF LanesTypeOK, LanesInv, LanesTyped, SubRecord
<1>5. AliasesResolve
  BY <1>3 DEF AliasesResolve
<1>6. LanesAreCurrent
  BY <1>2 DEF LanesAreCurrent
<1>7. SubmissionLaneAgrees
  <2> SUFFICES ASSUME NEW s \in DOMAIN subs, conv[Canonical(conv, subs[s].conv)].adopted = 0
               PROVE  ByLane(subs[s].lane) = Canonical(conv, subs[s].conv)
    BY DEF SubmissionLaneAgrees
  <2>1. SubBound(conv, subs[s]) /\ subs[s].lane \in DOMAIN lane
    BY <1>1
  <2>2. Canonical(conv, subs[s].conv) = subs[s].conv
    BY <1>3, <2>1 DEF SubBound, Above
  <2>3. Above(conv, subs[s].lane) = subs[s].conv
    BY <2>1, <2>2 DEF SubBound
  <2> QED
    BY <1>2, <2>1, <2>2, <2>3
<1> QED
  BY <1>4, <1>5, <1>6, <1>7 DEF LanesAreSound, ConversationsAgree

(* Where responses show whole chains, every id a client may hold leads to  *)
(* one conversation, the lanes hold its record, and the lanes of messages  *)
(* agree, for any number of conversations, sessions and messages.          *)
THEOREM LanesAlwaysSound ==
  ASSUME ~PartialPages
  PROVE  LanesSpec => []LanesAreSound
<1>1. LanesInit => LanesInv
  BY LanesStart
<1>2. LanesInv /\ [LanesNext]_laneVars => LanesInv'
  BY LanesStep
<1>3. LanesInv => LanesAreSound
  BY LanesInvImplies
<1> QED
  BY <1>1, <1>2, <1>3, PTL DEF LanesSpec

(* A conversation that is not an alias has the sessions of the response,   *)
(* and no other has.                                                       *)
LEMMA ResponseMakesOne ==
  ASSUME LanesInv, NEW r \in asked, HandleResponse(r)
  PROVE  /\ Cardinality({k \in DOMAIN conv' :
               conv'[k].super = 0 /\ (conv'[k].ids \cup {conv'[k].session})
                                        \cap (IF r.kind = "tip" THEN {1, r.high} ELSE r.low..r.high)
                                    # {}}) = 1
         /\ \A k \in DOMAIN conv : (conv[k].super = 0 /\ conv'[k].super = 0 /\ conv[k].root = r.low) =>
               conv'[k].session >= conv[k].session
<1> DEFINE all == ChainOf(r)
           cands == Candidates(conv, all)
           hit(c) == cands \cup {c}
           One == {k \in DOMAIN conv' :
                     conv'[k].super = 0 /\ (conv'[k].ids \cup {conv'[k].session}) \cap all # {}}
<1>1. r.low = 1 /\ all = (IF r.kind = "tip" THEN {1, r.high} ELSE r.low..r.high)
  BY ResponseMerges DEF ChainOf
<1> HIDE DEF all, cands
<1>2. PICK cs, c, tip : IsMerge(all, cs, c, tip)
  BY ResponseMerges DEF all
<1>3. /\ cs \in Seq(Conversation) /\ c \in DOMAIN cs
      /\ DOMAIN conv \subseteq DOMAIN cs /\ \A k \in DOMAIN conv : cs[k] = conv[k]
      /\ \A k \in DOMAIN cs : k \in DOMAIN conv \/ k = c
      /\ conv' \in Seq(Conversation) /\ DOMAIN conv' = DOMAIN cs
      /\ cs[c].root = 1 => cs[c].session <= tip
      /\ \A k \in hit(c) : /\ conv'[k].super = IF k = c THEN 0 ELSE c
                           /\ conv'[k].session = tip /\ conv'[k].ids = cs[c].ids \cup all \cup {tip}
      /\ \A k \in DOMAIN cs : k \notin hit(c) => conv'[k] = cs[k]
  BY <1>2, Zenon DEF IsMerge, cands
<1>4. c # 0 /\ 1 \in all /\ cands \subseteq DOMAIN conv
  BY <1>3, ConversationIs, ResponseMerges DEF all, cands, Candidates
<1>5. c \in One
  BY <1>3, <1>4
<1>6. ASSUME NEW k \in One PROVE k = c
  <2>1. k \in DOMAIN cs /\ conv'[k].super = 0
    BY <1>3
  <2>2. k \notin hit(c) => k \in DOMAIN conv /\ conv'[k] = conv[k] /\ k \notin cands
    BY <1>3, <2>1
  <2>3. k \in hit(c)
    <3> SUFFICES ASSUME k \notin hit(c) PROVE FALSE
      OBVIOUS
    <3>1. conv[k].session \notin all /\ conv[k].ids \cap all = {}
      BY <2>2 DEF cands, Candidates
    <3> QED
      BY <2>2, <3>1
  <2> QED
    BY <1>3, <1>4, <2>1, <2>3
<1>7. One = {c}
  BY <1>5, <1>6
<1>8. Cardinality(One) = 1
  BY <1>7, FS_Singleton
<1>9. ASSUME NEW k \in DOMAIN conv, conv[k].super = 0, conv'[k].super = 0, conv[k].root = 1
      PROVE  conv'[k].session >= conv[k].session
  <2>1. k \in DOMAIN cs /\ cs[k] = conv[k] /\ conv[k].session \in Nat /\ conv'[k].session \in Nat
    BY <1>3, LanesFacts, ConversationIs
  <2>2. CASE k = c
    BY <1>3, <1>9, <2>1, <2>2
  <2>3. CASE k # c
    <3>1. k \notin hit(c)
      BY <1>3, <1>4, <1>9, <2>3
    <3> QED
      BY <1>3, <2>1, <3>1
  <2> QED
    BY <2>2, <2>3
<1> QED
  BY <1>1, <1>8, <1>9

(* An acknowledgement moves no conversation back.                          *)
LEMMA AcknowledgeSets ==
  ASSUME LanesInv, NEW s \in DOMAIN subs, NEW x \in 0..hermes, Acknowledge(s, x)
  PROVE  \A k \in DOMAIN conv : ~(conv'[k].session < conv[k].session)
<1> DEFINE now == Accepted(s, x)
           l == subs[s].lane
           rec == [lane[l].rec EXCEPT !.session = now]
<1>1. now \in 0..MaxSession /\ conv[lane[l].id].session <= now
  BY AcceptedIs
<1>2. /\ now = 0 => UNCHANGED <<conv, lane>>
      /\ now # 0 => SetConversation(lane[l].id, rec)
  BY DEF Acknowledge
<1>3. /\ l \in DOMAIN lane /\ lane[l].rec \in Conversation
  BY LanesFacts, ByLaneIs
<1>4. /\ rec \in Conversation /\ rec.super = lane[l].rec.super /\ rec.session = now
      /\ rec.adopted = lane[l].rec.adopted /\ rec.ids = lane[l].rec.ids
  <2> HIDE DEF now, l
  <2> QED
    BY <1>1, <1>3 DEF Conversation
<1> HIDE DEF now, l, rec
<1>5. \A k \in DOMAIN conv : conv[k].session \in Nat
  BY LanesFacts, ConversationIs
<1>6. CASE now = 0
  BY <1>2, <1>5, <1>6
<1>7. CASE now # 0
  <2>1. SetConversation(lane[l].id, rec) /\ lane[l].rec.ids \subseteq rec.ids
    BY <1>2, <1>4, <1>7
  <2>2. /\ conv'[lane[l].id] = rec
        /\ \A k \in DOMAIN conv : k # lane[l].id => conv'[k] = conv[k]
    BY <1>3, <1>4, <2>1, SetKeeps
  <2> QED
    <3>1. conv[lane[l].id].session \in Nat /\ MaxSession \in Nat
      BY <1>3, <1>5, ByLaneIs, LanesFacts
    <3>2. ~(conv'[lane[l].id].session < conv[lane[l].id].session)
      BY <1>1, <1>4, <2>2, <3>1
    <3> QED
      BY <1>5, <2>2, <3>2
<1> QED
  BY <1>6, <1>7

(* Where responses show whole chains, a response makes one conversation of *)
(* a chain, and neither a response nor a late event nor a late             *)
(* acknowledgement moves a conversation back along it.                     *)
THEOREM ResponsesAlwaysMerge ==
  ASSUME ~PartialPages
  PROVE  LanesSpec => ResponsesOnlyMerge
<1> DEFINE Merges ==
             \A r \in asked : HandleResponse(r) =>
                Cardinality({k \in DOMAIN conv' :
                    conv'[k].super = 0 /\ (conv'[k].ids \cup {conv'[k].session})
                                              \cap (IF r.kind = "tip" THEN {1, r.high} ELSE r.low..r.high)
                                          # {}}) = 1
           Rotates ==
             \A r \in asked : HandleResponse(r) =>
                \A k \in DOMAIN conv : (conv[k].super = 0 /\ conv'[k].super = 0 /\ conv[k].root = r.low) =>
                    conv'[k].session >= conv[k].session
           Keeps ==
             (\E k \in DOMAIN conv : conv'[k].session < conv[k].session) =>
                ~LaneEvent /\ ~\E s \in DOMAIN subs, x \in 0..hermes : Acknowledge(s, x)
<1>1. LanesInit => LanesInv
  BY LanesStart
<1>2. LanesInv /\ [LanesNext]_laneVars => LanesInv'
  BY LanesStep
<1>3. LanesInv /\ LanesInv' /\ [LanesNext]_laneVars => [Merges]_laneVars /\ [Rotates]_laneVars
  <2> SUFFICES ASSUME LanesInv PROVE Merges /\ Rotates
    OBVIOUS
  <2> QED
    BY ResponseMakesOne
<1>4. LanesInv /\ LanesInv' /\ [LanesNext]_laneVars => [Keeps]_laneVars
  <2> SUFFICES ASSUME LanesInv, LanesInv',
                      NEW k \in DOMAIN conv, conv'[k].session < conv[k].session
               PROVE  ~LaneEvent /\ ~\E s \in DOMAIN subs, x \in 0..hermes : Acknowledge(s, x)
    OBVIOUS
  <2>1. LaneEvent \/ (\E s \in DOMAIN subs, x \in 0..hermes : Acknowledge(s, x)) =>
           ~(conv'[k].session < conv[k].session)
    BY EventSetsConversation, AcknowledgeSets
  <2> QED
    BY <2>1
<1> QED
  <2> HIDE DEF Merges, Rotates, Keeps
  <2>1. LanesSpec => [][Merges]_laneVars /\ [][Rotates]_laneVars /\ [][Keeps]_laneVars
    BY <1>1, <1>2, <1>3, <1>4, PTL DEF LanesSpec
  <2> QED
    BY <2>1, PTL DEF Merges, Rotates, Keeps, ResponsesOnlyMerge, MergedByResponse, ResponsesKeepRotation,
                LateEventsKeepBinding
=============================================================================
