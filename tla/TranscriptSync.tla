---------------------------- MODULE TranscriptSync ----------------------------
(***************************************************************************)
(* GET sync: a conditional read of a transcript.  Equal reads that are     *)
(* under way share one call (transcriptSyncInFlight), and the head of the  *)
(* transcript that comes back, or with an event of the Gateway, is kept    *)
(* for the summaries of the runtime (transcriptHeadSnapshots).             *)
(***************************************************************************)
EXTENDS Naturals, FiniteSets

CONSTANTS
    Syncs,        \* sync requests
    MaxCommits    \* bound on the revisions of the transcript

VARIABLES
    commits,      \* revision of the transcript
    shared,       \* calls under way: base -> state
    syncs,        \* sync request -> state
    head          \* the head the Router keeps, and the last event's

syncVars == <<commits, shared, syncs, head>>

ASSUME SyncConstantsAssumption == MaxCommits \in Nat \ {0}

NoCall == [state |-> "none", rev |-> 0]

SyncInit ==
    /\ commits = 1
    /\ shared = [b \in 0..MaxCommits |-> NoCall]
    /\ syncs = [s \in Syncs |-> [state |-> "idle", base |-> 0, from |-> 0, rev |-> 0]]
    /\ head = [rev |-> 0, seen |-> 0]

Commit ==
    /\ commits < MaxCommits
    /\ commits' = commits + 1
    /\ UNCHANGED <<shared, syncs, head>>

(* session.transcript.committed: cacheTranscriptHeadSnapshot.  Events come *)
(* in order, the last one first known here.                                *)
CommittedEvent ==
    /\ head.seen < commits
    /\ \E r \in (head.seen + 1)..commits : head' = [rev |-> r, seen |-> r]
    /\ UNCHANGED <<commits, shared, syncs>>

(* Mutant: the revision a client has is not part of the key. *)
AnyBase(b) == 0

KeyOf(b) == b

(* A request with the revision the client has; it joins an equal one.      *)
StartSync(s, b) ==
    /\ syncs[s].state = "idle" /\ b <= commits
    /\ syncs' = [syncs EXCEPT ![s] = [state |-> "waits", base |-> b, from |-> KeyOf(b), rev |-> 0]]
    /\ shared' = IF shared[KeyOf(b)].state # "none" THEN shared
                 ELSE [shared EXCEPT ![KeyOf(b)] = [state |-> "asked", rev |-> b]]
    /\ UNCHANGED <<commits, head>>

(* the Gateway compares the base it was sent with its transcript *)
GatewayReads(k) ==
    /\ shared[k].state = "asked"
    /\ shared' = [shared EXCEPT ![k] = [state |-> "read", rev |-> commits]]
    /\ UNCHANGED <<commits, syncs, head>>

WaitersOf(k) == {s \in Syncs : syncs[s].state = "waits" /\ syncs[s].from = k}

(* Mutant: an answered call stays in the map. *)
KeptCall(call) == [call EXCEPT !.state = "settled"]

(* finally: the map forgets the call, whatever came of it *)
AfterCall(call) == NoCall

(* The promise is settled; each handler goes on: the head that came back   *)
(* is kept, or the error is passed on.                                     *)
SyncCompletes(k) ==
    /\ shared[k].state = "read"
    /\ shared' = [shared EXCEPT ![k] = AfterCall(@)]
    /\ syncs' = [s \in Syncs |-> IF s \in WaitersOf(k)
                                 THEN [syncs[s] EXCEPT !.state = "done", !.rev = shared[k].rev]
                                 ELSE syncs[s]]
    /\ head' = IF WaitersOf(k) = {} THEN head ELSE [head EXCEPT !.rev = shared[k].rev]
    /\ UNCHANGED commits

SyncFails(k) ==
    /\ shared[k].state \in {"asked", "read"}
    /\ shared' = [shared EXCEPT ![k] = AfterCall(@)]
    /\ syncs' = [s \in Syncs |-> IF s \in WaitersOf(k)
                                 THEN [syncs[s] EXCEPT !.state = "failed"] ELSE syncs[s]]
    /\ UNCHANGED <<commits, head>>

SyncNext ==
    \/ Commit
    \/ CommittedEvent
    \/ \E s \in Syncs, b \in 0..MaxCommits : StartSync(s, b)
    \/ \E k \in 0..MaxCommits : GatewayReads(k) \/ SyncCompletes(k) \/ SyncFails(k)

(* Every call of the Gateway ends, at its deadline at the latest. *)
SyncSpec ==
    /\ SyncInit /\ [][SyncNext]_syncVars
    /\ \A k \in 0..MaxCommits : WF_syncVars(SyncFails(k))

-----------------------------------------------------------------------------

SyncTypeOK ==
    /\ commits \in 1..MaxCommits /\ head \in [rev : 0..MaxCommits, seen : 0..MaxCommits]
    /\ shared \in [0..MaxCommits -> [state : {"none", "asked", "read"}, rev : 0..MaxCommits]]
    /\ syncs \in [Syncs -> [state : {"idle", "waits", "done", "failed"}, base : 0..MaxCommits,
                            from : 0..MaxCommits, rev : 0..MaxCommits]]

(* A client that shares the call of another gets an answer to its own      *)
(* question: not a transcript older than the one it has.                   *)
SyncAnswersBase == \A s \in Syncs : syncs[s].state = "done" => syncs[s].rev >= syncs[s].base

(* A call that has been answered or has failed is not joined any more: a   *)
(* sync that waits has a call under way that will end.                     *)
JoinedIsUnderWay ==
    \A s \in Syncs : syncs[s].state = "waits" => shared[syncs[s].from].state \in {"asked", "read"}
=============================================================================
