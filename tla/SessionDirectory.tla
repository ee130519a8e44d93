--------------------------- MODULE SessionDirectory ---------------------------
(***************************************************************************)
(* The session list of an Agent: the cache of the directory                *)
(* (sessionDirectoryCacheStore.ts), the list requests that fill it and     *)
(* fall back on it, the requests that change sessions (delete, rename,     *)
(* archive, fork), the events that say Hermes changed them, and the        *)
(* categories a client gives sessions (sessionMetadataStore.ts).           *)
(*                                                                         *)
(* Every request waits for the Gateway once; what it read before the wait  *)
(* may be out of date after it.  Rows are reduced to the ids they list.    *)
(***************************************************************************)
EXTENDS Naturals, FiniteSets, Sequences, SequencesExt

CONSTANTS
    Ids,            \* session ids
    Born,           \* those there are at first
    Queries,        \* canonical queries of the list
    Lists,          \* list requests
    Changes,        \* requests that change a session
    MaxEntries,     \* maxEntriesPerAgent
    MaxOwnChanges   \* bound on the changes Hermes makes by itself

VARIABLES
    live,       \* the sessions of Hermes
    notices,    \* sessions.changed events under way
    ownChanges, \* changes Hermes made by itself
    entries,    \* the cache, oldest first: query, rows, fresh
    lists,      \* list request -> state, query, cached entry, answer
    changes,    \* change request -> state, kind, id
    category,   \* the sessions that have a category
    clearedAt   \* [since: entries put since the last invalidation, upstream: the next list asks]

directoryVars == <<live, notices, ownChanges, entries, lists, changes, category, clearedAt>>

ASSUME DirectoryConstantsAssumption ==
    /\ Born \subseteq Ids /\ MaxEntries \in Nat \ {0} /\ MaxOwnChanges \in Nat

NoEntry == [query |-> "none", rows |-> {}, fresh |-> FALSE]

IdleList == [state |-> "idle", query |-> "none", cached |-> NoEntry, rows |-> {}, answer |-> "none"]

IdleChange == [state |-> "idle", kind |-> "none", id |-> "none"]

DirectoryInit ==
    /\ live = Born /\ notices = 0 /\ ownChanges = 0
    /\ entries = <<>>
    /\ lists = [l \in Lists |-> IdleList]
    /\ changes = [c \in Changes |-> IdleChange]
    /\ category = {}
    /\ clearedAt = [since |-> {}, upstream |-> FALSE]

(* get *)
CachedAt(q) ==
    IF \E i \in DOMAIN entries : entries[i].query = q
    THEN entries[CHOOSE i \in DOMAIN entries : entries[i].query = q]
    ELSE NoEntry

(* Mutant: the bound on the entries is not kept. *)
PrunedNever(all) == all

(* prune: the entries that were refreshed last stay *)
Pruned(all) == IF Len(all) > MaxEntries THEN Tail(all) ELSE all

Without(q) ==
    IF \E i \in DOMAIN entries : entries[i].query = q
    THEN RemoveAt(entries, CHOOSE i \in DOMAIN entries : entries[i].query = q)
    ELSE entries

(* put *)
Put(q, rows) ==
    /\ entries' = Pruned(Append(Without(q), [query |-> q, rows |-> rows, fresh |-> TRUE]))
    /\ clearedAt' = [clearedAt EXCEPT !.since = @ \cup {q}]

(* Mutant: the entries are no longer fresh, but there as a fallback.       *)
InvalidatedExpired == [i \in DOMAIN entries |-> [entries[i] EXCEPT !.fresh = FALSE]]

InvalidatedAll == <<>>

(* invalidateAgent *)
Invalidate ==
    /\ entries' = InvalidatedAll
    /\ clearedAt' = [since |-> {}, upstream |-> TRUE]

-----------------------------------------------------------------------------
(* GET /bridge/sessions *)

(* The rows of an answer are the client's; a request that is done has none.*)
Answered(l, answer) ==
    lists' = [lists EXCEPT ![l] = [IdleList EXCEPT !.state = "done", !.answer = answer]]

ServeFresh(l, q) ==
    /\ lists[l].state = "idle"
    /\ CachedAt(q).fresh
    /\ Answered(l, "fresh")
    /\ UNCHANGED <<live, notices, ownChanges, entries, changes, category, clearedAt>>

(* refresh=1, or no fresh entry: the entry there is is kept for a fallback *)
AskUpstream(l, q, force) ==
    /\ lists[l].state = "idle"
    /\ force \/ ~CachedAt(q).fresh
    /\ lists' = [lists EXCEPT ![l] = [IdleList EXCEPT !.state = "asked", !.query = q,
                                                      !.cached = CachedAt(q)]]
    /\ clearedAt' = [clearedAt EXCEPT !.upstream = FALSE]
    /\ UNCHANGED <<live, notices, ownChanges, entries, changes, category>>

(* Hermes reads its sessions *)
ReadSessions(l) ==
    /\ lists[l].state = "asked"
    /\ lists' = [lists EXCEPT ![l].state = "read", ![l].rows = live]
    /\ UNCHANGED <<live, notices, ownChanges, entries, changes, category, clearedAt>>

(* 2xx with a list: the cache has it, and so does the client *)
ListCompletes(l) ==
    /\ lists[l].state = "read"
    /\ Put(lists[l].query, lists[l].rows)
    /\ Answered(l, "refreshed")
    /\ UNCHANGED <<live, notices, ownChanges, changes, category>>

(* canUseStaleSessionDirectoryFallback, or the proxy throws; another       *)
(* status is passed on                                                     *)
ListFails(l, final) ==
    /\ lists[l].state \in {"asked", "read"}
    /\ IF ~final /\ lists[l].cached # NoEntry
       THEN Answered(l, "stale-fallback")
       ELSE Answered(l, "error")
    /\ UNCHANGED <<live, notices, ownChanges, entries, changes, category, clearedAt>>

(* the time of an entry is not renewed when it is served *)
Expire ==
    /\ \E i \in DOMAIN entries : entries[i].fresh
    /\ entries' = [i \in DOMAIN entries |-> [entries[i] EXCEPT !.fresh = FALSE]]
    /\ UNCHANGED <<live, notices, ownChanges, lists, changes, category, clearedAt>>

(* Mutant: an entry that was served lives on. *)
ExpireUnserved ==
    /\ \E i \in DOMAIN entries : entries[i].fresh
    /\ \A l \in Lists : lists[l].answer # "fresh"
    /\ entries' = [i \in DOMAIN entries |-> [entries[i] EXCEPT !.fresh = FALSE]]
    /\ UNCHANGED <<live, notices, ownChanges, lists, changes, category, clearedAt>>

TtlPasses == Expire

-----------------------------------------------------------------------------
(* The requests that change a session *)

Kinds == {"delete", "rename", "fork"}   \* archive is as rename

SendChange(c, kind, id) ==
    /\ changes[c].state = "idle"
    /\ changes' = [changes EXCEPT ![c] = [state |-> "sent", kind |-> kind, id |-> id]]
    /\ UNCHANGED <<live, notices, ownChanges, entries, lists, category, clearedAt>>

(* Hermes does it; a fork has a new id *)
ApplyChange(c) ==
    /\ changes[c].state = "sent" /\ changes[c].id \in live
    /\ changes' = [changes EXCEPT ![c].state = "applied"]
    /\ \/ changes[c].kind = "delete" /\ live' = live \ {changes[c].id}
       \/ changes[c].kind = "rename" /\ live' = live
       \/ changes[c].kind = "fork" /\ \E new \in Ids \ live : live' = live \cup {new}
    /\ UNCHANGED <<notices, ownChanges, entries, lists, category, clearedAt>>

(* Mutant: the category of a deleted session stays. *)
CategoryKept(c) == category

(* delete and copy of the metadata store, after the await *)
CategoryAfter(c) ==
    IF changes[c].kind = "delete" THEN category \ {changes[c].id} ELSE category

(* a 2xx answer *)
ChangeCompletes(c) ==
    /\ changes[c].state = "applied"
    /\ changes' = [changes EXCEPT ![c].state = "ok"]
    /\ Invalidate
    /\ category' = CategoryAfter(c)
    /\ UNCHANGED <<live, notices, ownChanges, lists>>

(* the copy to the fork; its answer names the new session *)
CopyCategory(c, new) ==
    /\ changes[c].state = "ok" /\ changes[c].kind = "fork"
    /\ new \in live \ {changes[c].id}
    /\ changes' = [changes EXCEPT ![c].kind = "copied"]
    /\ category' = IF changes[c].id \in category THEN category \cup {new} ELSE category
    /\ UNCHANGED <<live, notices, ownChanges, entries, lists, clearedAt>>

(* an error, an offline Gateway or a deadline; Hermes may have done it *)
ChangeFails(c) ==
    /\ changes[c].state \in {"sent", "applied"}
    /\ changes' = [changes EXCEPT ![c] = [IdleChange EXCEPT !.state = "failed"]]
    /\ UNCHANGED <<live, notices, ownChanges, entries, lists, category, clearedAt>>

(* POST metadata; nothing is asked upstream *)
SetCategory(id) ==
    /\ id \notin category
    /\ \A c \in Changes : changes[c].state # "ok" \/ changes[c].id # id
    /\ category' = category \cup {id}
    /\ UNCHANGED <<live, notices, ownChanges, entries, lists, changes, clearedAt>>

(* Hermes changes its sessions by itself and says so *)
HermesChanges ==
    /\ ownChanges < MaxOwnChanges
    /\ ownChanges' = ownChanges + 1
    /\ notices' = notices + 1
    /\ \E id \in Ids : live' = IF id \in live THEN live \ {id} ELSE live \cup {id}
    /\ UNCHANGED <<entries, lists, changes, category, clearedAt>>

(* sessions.changed, or session.info with a predecessor *)
SessionsChanged ==
    /\ notices > 0
    /\ notices' = notices - 1
    /\ Invalidate
    /\ UNCHANGED <<live, ownChanges, lists, changes, category>>

(* load: the file has every entry and its time *)
RestartDirectory ==
    /\ \E l \in Lists : lists[l].state \in {"asked", "read"}
    /\ lists' = [l \in Lists |-> IF lists[l].state = "done" THEN lists[l]
                                 ELSE [IdleList EXCEPT !.state = "done", !.answer = "error"]]
    /\ changes' = [c \in Changes |-> IF changes[c].state \in {"sent", "applied"}
                                     THEN [IdleChange EXCEPT !.state = "failed"] ELSE changes[c]]
    /\ notices' = 0
    /\ UNCHANGED <<live, ownChanges, entries, category, clearedAt>>

DirectoryNext ==
    \/ \E l \in Lists, q \in Queries : ServeFresh(l, q) \/ AskUpstream(l, q, TRUE) \/ AskUpstream(l, q, FALSE)
    \/ \E l \in Lists : ReadSessions(l) \/ ListCompletes(l) \/ ListFails(l, TRUE) \/ ListFails(l, FALSE)
    \/ TtlPasses
    \/ \E c \in Changes, kind \in Kinds, id \in Ids : SendChange(c, kind, id)
    \/ \E c \in Changes : ApplyChange(c) \/ ChangeCompletes(c) \/ ChangeFails(c)
    \/ \E c \in Changes, new \in Ids : CopyCategory(c, new)
    \/ \E id \in Ids : SetCategory(id)
    \/ HermesChanges
    \/ SessionsChanged
    \/ RestartDirectory

(* Time passes. *)
DirectorySpec == DirectoryInit /\ [][DirectoryNext]_directoryVars /\ WF_directoryVars(TtlPasses)

-----------------------------------------------------------------------------

DirectoryTypeOK ==
    /\ live \subseteq Ids /\ category \subseteq Ids
    /\ entries \in Seq([query : Queries, rows : SUBSET Ids, fresh : BOOLEAN])
    /\ Len(entries) <= MaxEntries
    /\ \A l \in Lists : lists[l].state \in {"idle", "asked", "read", "done"}
    /\ \A c \in Changes : changes[c].state \in {"idle", "sent", "applied", "ok", "failed"}

(* An invalidation, by whatever request or event, leaves nothing of any    *)
(* query: what the cache holds was put there since.  A query has one entry.*)
CachedSinceInvalidation ==
    /\ {entries[i].query : i \in DOMAIN entries} \subseteq clearedAt.since
    /\ \A i, j \in DOMAIN entries : entries[i].query = entries[j].query => i = j

(* When a delete has succeeded the session's category is gone, also when a *)
(* client set it while the delete was under way.                           *)
DeletedHasNoCategory ==
    \A c \in Changes : (changes[c].state = "ok" /\ changes[c].kind = "delete"
                        /\ changes[c].id \notin live /\ \A d \in Changes : changes[d].kind # "copied")
                       => changes[c].id \notin category

(* What a change of a session has made void is gone, whatever the requests *)
(* that were under way read before.                                        *)
DirectoryFollowsChanges == CachedSinceInvalidation /\ DeletedHasNoCategory

(* Rows that Hermes no longer has are served as fresh for a time only,     *)
(* although every race of a list request with an invalidation can put them *)
(* back into the cache.                                                    *)
StaleRowsEnd ==
    \A q \in Queries :
        (CachedAt(q).fresh /\ CachedAt(q).rows # live)
            ~> (~CachedAt(q).fresh \/ CachedAt(q).rows = live)

(* What the test of the directory says: "sessions.changed must force the   *)
(* next list request upstream".                                            *)
ChangeForcesUpstream ==
    [][\A l \in Lists : (lists'[l].answer = "fresh" /\ lists[l].answer # "fresh")
          => ~clearedAt.upstream]_directoryVars
=============================================================================
