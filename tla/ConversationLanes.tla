-------------------------- MODULE ConversationLanes --------------------------
(***************************************************************************)
(* The conversations of the Router and the Hermes sessions they stand for  *)
(* (nativeConversationStore.ts), over one chain of compressions of Hermes: *)
(* session n + 1 continues session n.  A conversation is bound to a        *)
(* session by an acknowledgement, moved along the chain by events that     *)
(* name the predecessor, and brought up to date by directory responses,    *)
(* which also find out that several conversations stand for one chain:     *)
(* all but one become aliases.  A response may be handled long after it    *)
(* was asked for, and may show a page of the chain or only its two ends.   *)
(*                                                                         *)
(* Each conversation has a lane of its own; `lane' is the map from lanes   *)
(* to conversation records, which are copies of those in `conv'.           *)
(***************************************************************************)
EXTENDS SessionLineage, FiniteSets

CONSTANTS
    Submissions,       \* submission ids
    MaxSession,        \* bound on the compressions of the chain
    MaxConversations,  \* bound on the conversations the Router creates
    LegacyFiles,       \* sequences of sessions: files of an earlier Router
    PartialPages       \* a response may leave out the older sessions

VARIABLES
    conv,      \* conversations by the order of their creation
    lane,      \* lane -> conversation id and a copy of its record
    subs,      \* submission -> conversation, lane, session, state
    migrated,  \* lineageReconciledAgentIds has this Agent
    hermes,    \* how many sessions the chain has
    asked      \* directory responses under way

laneVars == <<conv, lane, subs, migrated, hermes, asked>>

ASSUME LaneConstantsAssumption ==
    /\ MaxSession \in Nat /\ MaxConversations \in Nat \ {0}
    /\ \A f \in LegacyFiles :
          f \in Seq(1..Len(f)) /\ Len(f) <= MaxSession /\ Len(f) <= MaxConversations
    /\ PartialPages \in BOOLEAN

LaneSessions == 1..MaxSession
Slots == 1..MaxConversations

(* adopted: the external session whose id is the conversation's own, or 0. *)
(* super: supersededByConversationId.                                      *)
Conversation == [session : 0..MaxSession, root : 0..MaxSession, ids : SUBSET LaneSessions,
                 super : 0..MaxConversations, adopted : 0..MaxSession]

Bound(x) == [session |-> x, root |-> 0, ids |-> {}, super |-> 0, adopted |-> 0]

Copies(cs) == [k \in DOMAIN cs |-> [id |-> k, rec |-> cs[k]]]

Above(cs, k) == IF cs[k].super = 0 THEN k ELSE cs[k].super

(* getByConversationId: along the superseding ids to the end *)
Canonical(cs, k) ==
    LET at[step \in 0..Len(cs)] == IF step = 0 THEN k ELSE Above(cs, at[step - 1])
    IN  at[Len(cs)]

(* getByLane *)
ByLane(l) == Canonical(conv, lane[l].id)

LanesInit ==
    /\ \E f \in LegacyFiles :
          /\ conv = [k \in DOMAIN f |-> Bound(f[k])]
          /\ hermes = Len(f)
    /\ lane = Copies(conv)
    /\ subs = <<>>
    /\ migrated = FALSE
    /\ asked = {}

Known(s) == s \in DOMAIN subs

WithSub(s, v) == [t \in DOMAIN subs \cup {s} |-> IF t = s THEN v ELSE subs[t]]

-----------------------------------------------------------------------------
(* Messages and what the Gateway sends about lanes *)

(* resolveConversation without an id, for the message that begins the chain *)
Start(s) ==
    /\ hermes = 0 /\ conv = <<>>
    /\ conv' = <<Bound(0)>>
    /\ lane' = Copies(conv')
    /\ subs' = WithSub(s, [conv |-> 1, lane |-> 1, session |-> 0, state |-> "pending"])
    /\ UNCHANGED <<migrated, hermes, asked>>

(* beginSubmission; the client may know an alias *)
BeginOn(s, k) ==
    LET c == Canonical(conv, k)
    IN  /\ ~Known(s)
        /\ subs' = WithSub(s, [conv |-> c, lane |-> c, session |-> conv[c].session,
                               state |-> "pending"])
        /\ UNCHANGED <<conv, lane, migrated, hermes, asked>>

(* Hermes begins the chain with the first message, and compresses later. *)
Compress ==
    /\ hermes < MaxSession
    /\ DOMAIN subs # {} \/ hermes > 0
    /\ hermes' = hermes + 1
    /\ UNCHANGED <<conv, lane, subs, migrated, asked>>

(* the record of conversation k is replaced, and the lanes that hold it    *)
(* follow: refreshConversationLanes                                        *)
SetConversation(k, rec) ==
    /\ conv' = [conv EXCEPT ![k] = rec]
    /\ lane' = [l \in DOMAIN lane |-> IF lane[l].id = k THEN [id |-> k, rec |-> rec] ELSE lane[l]]

(* Mutant: an acknowledgement moves the lane whatever it is bound to. *)
AcceptedLate(s, x) == IF x = 0 THEN subs[s].session ELSE x

(* updateSubmission: an acknowledgement binds a lane or confirms it *)
Accepted(s, x) ==
    LET bound == conv[ByLane(subs[s].lane)].session
    IN  IF x # 0 /\ bound \in {0, x} THEN x
        ELSE IF bound # 0 THEN bound ELSE subs[s].session

Acknowledge(s, x) ==
    LET now == Accepted(s, x)
        l   == subs[s].lane
    IN  /\ Known(s) /\ subs[s].state = "pending"
        /\ subs' = [subs EXCEPT ![s].state = "accepted", ![s].session = now]
        /\ IF now = 0 THEN UNCHANGED <<conv, lane>>
           ELSE SetConversation(lane[l].id, [lane[l].rec EXCEPT !.session = now])
        /\ UNCHANGED <<migrated, hermes, asked>>

(* Mutant: any event with a predecessor moves the lane. *)
AfterAnyEvent(rec, x, previous) ==
    IF rec.session \in {0, x} THEN [rec EXCEPT !.session = x]
    ELSE IF previous # 0
    THEN [rec EXCEPT !.session = x, !.ids = @ \cup {rec.session, x}]
    ELSE rec

(* Only an event that names the bound session as its predecessor rotates. *)
AfterEvent(rec, x, previous) ==
    IF rec.session \in {0, x} THEN [rec EXCEPT !.session = x]
    ELSE IF previous = rec.session
    THEN [rec EXCEPT !.session = x,
                     !.root = IF @ # 0 THEN @ ELSE rec.session,
                     !.ids = @ \cup {rec.session, x}]
    ELSE rec

(* acceptSessionEvent, and updateSubmission where the event is about one *)
SessionEventOn(l, x, previous, about) ==
    LET rec == AfterEvent(lane[l].rec, x, previous)
    IN  /\ SetConversation(lane[l].id, rec)
        /\ subs' = [s \in DOMAIN subs |-> IF s \in about /\ rec.session = x
                                         THEN [subs[s] EXCEPT !.session = x] ELSE subs[s]]
        /\ UNCHANGED <<migrated, hermes, asked>>

(* The Gateway knows the lanes of the messages it was sent.  An event is   *)
(* about one of them or none, and may be late.                             *)
LaneEvent ==
    \E s \in DOMAIN subs, x \in 1..hermes, about \in BOOLEAN :
        \E previous \in {0, x - 1} :
            SessionEventOn(subs[s].lane, x, previous, IF about THEN {s} ELSE {})

-----------------------------------------------------------------------------
(* Directory responses *)

(* What a response shows: the rows from `low' to `high', or only the last  *)
(* session with a hint where its chain begins.                             *)
ChainRow(n, high) == [Row(n, n - 1) EXCEPT !.ends = n < high, !.activityAt = n]

RowsOf(r) ==
    IF r.kind = "tip"
    THEN <<[ChainRow(r.high, r.high) EXCEPT !.parent = 0, !.rootHint = 1, !.tipHint = r.high]>>
    ELSE [i \in 1..(r.high - r.low + 1) |-> ChainRow(r.high + 1 - i, r.high)]

ResponseKinds == {"rows", "tip", "scan"}

Responses == [low : LaneSessions, high : LaneSessions, kind : ResponseKinds]

LineagesOf == [r \in {x \in Responses : x.low <= x.high} |-> Lineages(RowsOf(r))]

(* The legacy scan reads all pages with their children: a compression      *)
(* between two pages repeats rows and leaves none of the older ones out.   *)
Ask ==
    /\ hermes > 0 /\ asked = {}
    /\ \E low \in 1..hermes, kind \in ResponseKinds :
          /\ PartialPages \/ low = 1
          /\ kind # "rows" => low = 1
          /\ kind = "scan" => ~migrated
          /\ asked' = {[low |-> low, high |-> hermes, kind |-> kind]}
    /\ UNCHANGED <<conv, lane, subs, migrated, hermes>>

(* Mutant: only the current session of a conversation is compared. *)
CandidatesBySession(cs, all) == {k \in DOMAIN cs : cs[k].session \in all}

Candidates(cs, all) ==
    {k \in DOMAIN cs : cs[k].session \in all \/ cs[k].ids \cap all # {}}

OwnsRoot(rec, root) == root \in {rec.session, rec.root}

(* the canonical candidate: one that owns the root first, then the oldest *)
Chosen(cs, cands, root) ==
    LET resolved == {Canonical(cs, k) : k \in cands}
        owners   == {k \in resolved : OwnsRoot(cs[k], root)}
        pool     == IF owners # {} THEN owners ELSE resolved
    IN  CHOOSE k \in pool : \A j \in pool : k <= j

(* Mutant: the tip of the response always wins. *)
TipOfResponse(rec, lineage) == lineage.tip

(* A binding the response does not show yet is kept where the record is    *)
(* known to be of this lineage.                                            *)
TipAfter(rec, lineage) ==
    IF rec.root = lineage.root /\ rec.session # 0 /\ rec.session \notin ToSet(lineage.all)
    THEN rec.session
    ELSE lineage.tip

(* Mutant: the lane of an alias keeps the record it has. *)
LanesOfCanonical(before, cs, c, cands) ==
    [l \in DOMAIN cs |-> IF l = c THEN [id |-> c, rec |-> cs[c]] ELSE before[l]]

(* the lanes of the canonical conversation and of its aliases hold it *)
LanesAfter(before, cs, c, cands) ==
    [l \in DOMAIN cs |-> IF l \in cands \cup {c} THEN [id |-> c, rec |-> cs[c]] ELSE before[l]]

(* one round of reconcileSessionLineages; st is [conv, lane, subs] *)
ReconcileLineage(st, lineage) ==
    LET all    == ToSet(lineage.all) \cup {lineage.root}
        cands  == Candidates(st.conv, all)
        cs     == IF cands = {} THEN Append(st.conv, Bound(lineage.tip)) ELSE st.conv
        c      == IF cands = {} THEN Len(cs) ELSE Chosen(st.conv, cands, lineage.root)
        tip    == TipAfter(cs[c], lineage)
        moved  == [cs[c] EXCEPT !.session = tip, !.root = lineage.root, !.super = 0,
                                !.ids = @ \cup all \cup {tip}]
        after  == [k \in DOMAIN cs |->
                      IF k = c THEN moved
                      ELSE IF k \in cands
                      THEN [moved EXCEPT !.super = c, !.adopted = cs[k].adopted]
                      ELSE cs[k]]
    IN  [conv |-> after,
         lane |-> LanesAfter(st.lane, after, c, cands),
         subs |-> [s \in DOMAIN st.subs |->
                      IF st.subs[s].conv \in cands \cup {c}
                      THEN [st.subs[s] EXCEPT !.conv = c, !.session = tip]
                      ELSE st.subs[s]]]

(* reconcileSessionLineages for all lineages of a response *)
Reconciled(st, r) ==
    LET found == LineagesOf[r]
        roots == SetToSeq(DOMAIN found)
        after[i \in 0..Len(roots)] ==
            IF i = 0 THEN st ELSE ReconcileLineage(after[i - 1], found[roots[i]])
    IN  after[Len(roots)]

HandleResponse(r) ==
    LET after == Reconciled([conv |-> conv, lane |-> lane, subs |-> subs], r)
    IN  /\ asked' = asked \ {r}
        /\ Len(after.conv) <= MaxConversations
        /\ conv' = after.conv /\ lane' = after.lane /\ subs' = after.subs
        /\ migrated' = (migrated \/ r.kind = "scan")
        /\ UNCHANGED hermes

(* the Gateway answers with an error, or not at all *)
LoseResponse(r) ==
    /\ asked' = asked \ {r}
    /\ UNCHANGED <<conv, lane, subs, migrated, hermes>>

(* adoptExternalSession: its id is that of the session *)
Adopt(x) ==
    /\ Len(conv) < MaxConversations
    /\ \A k \in DOMAIN conv : conv[k].adopted # x
    /\ conv' = Append(conv, [Bound(x) EXCEPT !.adopted = x])
    /\ lane' = Append(lane, [id |-> Len(conv'), rec |-> conv'[Len(conv')]])
    /\ UNCHANGED <<subs, migrated, hermes, asked>>

-----------------------------------------------------------------------------
(* load: every change was saved.  cleanConversation accepts a superseding  *)
(* id of the native form only.                                             *)

LoadedConversation(cs, k) ==
    [cs[k] EXCEPT !.super = IF @ # 0 /\ cs[@].adopted # 0 THEN 0 ELSE @]

LoadedLanes(cs) ==
    [l \in DOMAIN cs |-> LET c == Canonical(cs, l) IN [id |-> c, rec |-> cs[c]]]

Reload ==
    /\ conv' = [k \in DOMAIN conv |-> LoadedConversation(conv, k)]
    /\ lane' = LoadedLanes(conv')
    /\ asked' = {}
    /\ UNCHANGED <<subs, migrated, hermes>>

LanesNext ==
    \/ \E s \in Submissions : Start(s)
    \/ \E s \in Submissions, k \in DOMAIN conv : BeginOn(s, k)
    \/ Compress
    \/ \E s \in DOMAIN subs, x \in 0..hermes : Acknowledge(s, x)
    \/ LaneEvent
    \/ Ask
    \/ \E r \in asked : HandleResponse(r) \/ LoseResponse(r)
    \/ \E x \in 1..hermes : Adopt(x)
    \/ Reload

LanesSpec == LanesInit /\ [][LanesNext]_laneVars

-----------------------------------------------------------------------------

LanesTypeOK ==
    /\ conv \in Seq(Conversation) /\ Len(conv) <= MaxConversations
    /\ DOMAIN lane = DOMAIN conv
    /\ \A l \in DOMAIN lane : lane[l].id \in DOMAIN conv /\ lane[l].rec \in Conversation
    /\ DOMAIN subs \subseteq Submissions
    /\ subs \in [DOMAIN subs -> [conv : Slots, lane : Slots, session : 0..MaxSession,
                                 state : {"pending", "accepted"}]]
    /\ migrated \in BOOLEAN /\ hermes \in 0..MaxSession

(* A chain of aliases ends: every conversation id a client may still hold  *)
(* resolves to a conversation that is not superseded itself, however many  *)
(* merges came one after the other.                                        *)
AliasesResolve == \A k \in DOMAIN conv : conv[Canonical(conv, k)].super = 0

(* The lanes hold the records of their conversations: acceptSessionEvent   *)
(* and updateSubmission read the lane's copy and write it back, so that a  *)
(* copy that has fallen behind would undo what was learnt since.           *)
LanesAreCurrent == \A l \in DOMAIN lane : lane[l].rec = conv[lane[l].id]

(* A submission's lane and its conversation id lead to one conversation,   *)
(* over merges and reloads: events by lane and duplicates by id meet.  An  *)
(* adopted conversation is left out; see the README.                       *)
SubmissionLaneAgrees ==
    \A s \in DOMAIN subs :
        conv[Canonical(conv, subs[s].conv)].adopted = 0 =>
            ByLane(subs[s].lane) = Canonical(conv, subs[s].conv)

(* What a client, a lane or a submission leads to is one conversation, and *)
(* all copies of its record agree, over merges, rotations and reloads.     *)
ConversationsAgree == AliasesResolve /\ LanesAreCurrent /\ SubmissionLaneAgrees

(* What the store's test says: "late parent events and acknowledgements    *)
(* cannot roll a continuation binding back".                               *)
LateEventsKeepBinding ==
    [][(\E k \in DOMAIN conv : conv'[k].session < conv[k].session) =>
          ~LaneEvent /\ ~\E s \in DOMAIN subs, x \in 0..hermes : Acknowledge(s, x)]_laneVars

(* After a directory response has been handled, its sessions are those of  *)
(* one conversation, whatever was created, adopted or merged before.       *)
MergedByResponse ==
    [][\A r \in asked : HandleResponse(r) =>
          Cardinality({k \in DOMAIN conv' :
              conv'[k].super = 0 /\ (conv'[k].ids \cup {conv'[k].session})
                                        \cap (IF r.kind = "tip" THEN {1, r.high} ELSE r.low..r.high)
                                    # {}}) = 1]_laneVars

(* A response asked for before a rotation does not undo it in the          *)
(* conversation that stays, where that was known to be of this lineage.    *)
ResponsesKeepRotation ==
    [][\A r \in asked : HandleResponse(r) =>
          \A k \in DOMAIN conv : (conv[k].super = 0 /\ conv'[k].super = 0 /\ conv[k].root = r.low) =>
              conv'[k].session >= conv[k].session]_laneVars

(* A directory response makes one conversation of a chain and undoes no    *)
(* rotation; nor does a late event or acknowledgement, as long as the      *)
(* responses show whole chains.                                            *)
ResponsesOnlyMerge == MergedByResponse /\ ResponsesKeepRotation /\ LateEventsKeepBinding
=============================================================================
