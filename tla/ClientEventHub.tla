---------------------------- MODULE ClientEventHub ----------------------------
(***************************************************************************)
(* The realtime events of the Router (clientEventHub.ts): a journal of the *)
(* latest events per scope (an Agent), and the WebSockets of the clients   *)
(* that follow it.  A client reconnects with the cursor it has reached;    *)
(* the hub replays what came after it, or tells it to resynchronise.       *)
(*                                                                         *)
(* The events differ in their Gateway id and their size only.  A send may  *)
(* find the socket's buffer full or fail at any frame; the hub then closes *)
(* the socket, so that what a handler gives a socket is a prefix of its    *)
(* frames.  Every frame of the hub carries a cursor, and a client that has *)
(* read it takes that cursor over.  The client, external to the Router,    *)
(* reads the frames of its latest socket in order.                         *)
(***************************************************************************)
EXTENDS Naturals, Sequences, FiniteSets

CONSTANTS
    Scopes,
    Clients,
    ScopeOf,        \* client -> the scope of its token
    Ids,            \* event ids Gateways may repeat
    Fresh,          \* an event without one: the hub draws an id
    Events,         \* scope -> the ids and sizes its events may have
    Slots,          \* slots for subscribed sockets
    NoSlot,
    NoCursor,       \* a client that has not connected yet
    MaxEvents,      \* maxReplayEventsPerScope
    MaxBytes,       \* maxReplayBytesPerScope
    MaxJournals,    \* maxJournalScopes
    MaxCursor,      \* scope -> bound on its events
    MaxRuns         \* bound on the runs of the Router

VARIABLES
    hub,        \* scope -> its cursor, journal and remembered ids
    journals,   \* the scopes with a journal, least recently used first
    sockets,    \* slot -> a subscriber and its socket
    client,     \* client -> its cursor, the run it is from, and its socket
    run         \* the number of this run of the Router

vars == <<hub, journals, sockets, client, run>>

ASSUME ConstantsAssumption ==
    /\ ScopeOf \in [Clients -> Scopes]
    /\ Fresh \notin Ids
    /\ Events \in [Scopes -> SUBSET [id : Ids \cup {Fresh}, size : Nat]]
    /\ NoSlot \notin Slots
    /\ NoCursor \notin Nat
    /\ MaxEvents \in Nat \ {0} /\ MaxBytes \in Nat \ {0} /\ MaxJournals \in Nat \ {0}
    /\ MaxCursor \in [Scopes -> Nat]
    /\ MaxRuns \in Nat \ {0}

Entry == [cursor : Nat, id : Ids \cup {Fresh}, size : Nat]

Frame == [kind : {"ready", "resync", "event", "cursor"}, n : Nat]

Empty == [cursor |-> 0, replay |-> <<>>, dropped |-> 0, ids |-> {}]

Subscribers == DOMAIN sockets

Following(a) == {s \in Subscribers : ScopeOf[sockets[s].client] = a}

-----------------------------------------------------------------------------
(* The journal: trimReplay and pruneIdleJournals *)

Bytes(q) ==
    LET upTo[i \in 0..Len(q)] == IF i = 0 THEN 0 ELSE upTo[i - 1] + q[i].size
    IN  upTo[Len(q)]

Newest(q, k) == SubSeq(q, Len(q) - k + 1, Len(q))

Fits(q) == Len(q) <= MaxEvents /\ Bytes(q) <= MaxBytes

IdsOf(q) == {q[i].id : i \in DOMAIN q} \ {Fresh}

(* Mutant: a trimmed id is still remembered. *)
TrimmedRemembering(x) ==
    LET k == CHOOSE k \in 0..Len(x.replay) :
                 /\ Fits(Newest(x.replay, k))
                 /\ \A j \in k + 1..Len(x.replay) : ~Fits(Newest(x.replay, j))
        gone == Len(x.replay) - k
    IN  [cursor  |-> x.cursor,
         replay  |-> Newest(x.replay, k),
         dropped |-> IF gone > 0 THEN x.replay[gone].cursor ELSE x.dropped,
         ids     |-> x.ids]

(* The longest tail that fits is kept. *)
Trimmed(x) ==
    LET k == CHOOSE k \in 0..Len(x.replay) :
                 /\ Fits(Newest(x.replay, k))
                 /\ \A j \in k + 1..Len(x.replay) : ~Fits(Newest(x.replay, j))
        gone == Len(x.replay) - k
        lost == {x.replay[i].id : i \in 1..gone}
    IN  [cursor  |-> x.cursor,
         replay  |-> Newest(x.replay, k),
         dropped |-> IF gone > 0 THEN x.replay[gone].cursor ELSE x.dropped,
         ids     |-> x.ids \ lost]

Evicted(x) == [cursor |-> x.cursor, replay |-> <<>>, dropped |-> x.cursor, ids |-> {}]

(* The elements of q at the places in I, in their order *)
Kept(q, I) ==
    LET upTo[i \in 0..Len(q)] ==
            IF i = 0 THEN <<>>
            ELSE IF i \in I THEN Append(upTo[i - 1], q[i]) ELSE upTo[i - 1]
    IN  upTo[Len(q)]

(* The scopes evicted from the queue j: the least recently used idle ones, *)
(* but a protected one, until the rest is few enough.                      *)
Victims(j, protected, busy) ==
    LET idle == Kept(j, {i \in DOMAIN j : j[i] \notin protected \cup busy})
    IN  {idle[i] : i \in {i \in DOMAIN idle : i + MaxJournals <= Len(j)}}

Prune(h, j, protected, busy) ==
    LET victims == Victims(j, protected, busy)
    IN  /\ hub' = [a \in Scopes |-> IF a \in victims THEN Evicted(h[a]) ELSE h[a]]
        /\ journals' = Kept(j, {i \in DOMAIN j : j[i] \notin victims})

(* Mutant: a scope is queued again where it is still queued. *)
TouchedAgain(a) == Append(journals, a)

Touched(a) == Append(Kept(journals, {i \in DOMAIN journals : journals[i] # a}), a)

Busy(subscribers) == {ScopeOf[sockets[s].client] : s \in subscribers}

-----------------------------------------------------------------------------
(* attach *)

Resume(c) ==
    LET x == hub[ScopeOf[c]]
    IN  IF client[c].n = NoCursor THEN x.cursor ELSE client[c].n

(* Mutant: a client just behind the journal is not told. *)
ResyncRequiredLate(c) ==
    LET x == hub[ScopeOf[c]]
    IN  client[c].n # NoCursor /\ (Resume(c) > x.cursor \/ Resume(c) + 1 < x.dropped)

ResyncRequired(c) ==
    LET x == hub[ScopeOf[c]]
    IN  client[c].n # NoCursor /\ (Resume(c) > x.cursor \/ Resume(c) < x.dropped)

Replayed(c) ==
    LET x == hub[ScopeOf[c]]
    IN  Kept(x.replay, {i \in DOMAIN x.replay : x.replay[i].cursor > Resume(c)})

(* What attach sends: ready, and then a resync or the replay and a cursor  *)
Greeting(c) ==
    LET x == hub[ScopeOf[c]]
        ready == [kind |-> "ready", n |-> Resume(c)]
        now(kind) == [kind |-> kind, n |-> x.cursor]
        events == [i \in DOMAIN Replayed(c) |-> [kind |-> "event", n |-> Replayed(c)[i].cursor]]
    IN  IF ResyncRequired(c)
        THEN <<ready, now("resync")>>
        ELSE <<ready>> \o events \o <<now("cursor")>>

Attach(c, s) ==
    LET a == ScopeOf[c]
    IN  /\ client[c].at = NoSlot
        /\ s \notin Subscribers
        /\ \E k \in 0..Len(Greeting(c)) :
              sockets' = [t \in Subscribers \cup {s} |->
                             IF t # s THEN sockets[t]
                             ELSE [client |-> c, alive |-> TRUE,
                                   state |-> IF k = Len(Greeting(c)) THEN "open" ELSE "closing",
                                   queue |-> SubSeq(Greeting(c), 1, k)]]
        /\ Prune(hub, Touched(a), {a}, Busy(Subscribers) \cup {a})
        /\ client' = [client EXCEPT ![c].at = s]
        /\ UNCHANGED run

-----------------------------------------------------------------------------
(* publish *)

Appended(x, e) ==
    [cursor  |-> x.cursor + 1,
     replay  |-> Append(x.replay, [cursor |-> x.cursor + 1, id |-> e.id, size |-> e.size]),
     dropped |-> x.dropped,
     ids     |-> x.ids \cup ({e.id} \ {Fresh})]

(* What is sent to a client that has gone is not kept. *)
Heard(s) == \E c \in Clients : client[c].at = s

(* Mutant: a socket that takes no frame stays open. *)
SentOrSkipped(s, f, failed) ==
    LET x == sockets[s]
    IN  IF x.state # "open" \/ failed \/ ~Heard(s) THEN x
        ELSE [x EXCEPT !.queue = Append(@, f)]

Sent(s, f, failed) ==
    LET x == sockets[s]
    IN  IF x.state # "open" THEN x
        ELSE IF failed THEN [x EXCEPT !.state = "closing"]
        ELSE IF ~Heard(s) THEN x
        ELSE [x EXCEPT !.queue = Append(@, f)]

(* failing: the subscribers whose buffer is full or whose send throws *)
Publish(a, e, failing) ==
    LET f == [kind |-> "event", n |-> hub[a].cursor + 1]
    IN  IF e.id \in hub[a].ids
        THEN /\ failing = {}
             /\ Prune(hub, Touched(a), {a}, Busy(Subscribers))
             /\ UNCHANGED <<sockets, client, run>>
        ELSE /\ hub[a].cursor < MaxCursor[a]
             /\ Prune([hub EXCEPT ![a] = Trimmed(Appended(@, e))],
                      Touched(a), {a}, Busy(Subscribers))
             /\ sockets' = [s \in Subscribers |->
                               IF s \in Following(a) THEN Sent(s, f, s \in failing)
                               ELSE sockets[s]]
             /\ UNCHANGED <<client, run>>

-----------------------------------------------------------------------------
(* The end of a subscription *)

(* Mutant: only an open socket is looked at. *)
HeartbeatOfOpen(s) ==
    /\ s \in Subscribers
    /\ sockets[s].state = "open"
    /\ sockets' = IF sockets[s].alive
                  THEN [sockets EXCEPT ![s].alive = FALSE]
                  ELSE [sockets EXCEPT ![s].state = "terminated"]
    /\ UNCHANGED <<hub, journals, client, run>>

Heartbeat(s) ==
    /\ s \in Subscribers
    /\ sockets' = IF sockets[s].alive /\ sockets[s].state = "open"
                  THEN [sockets EXCEPT ![s].alive = FALSE]
                  ELSE [sockets EXCEPT ![s].state = "terminated"]
    /\ UNCHANGED <<hub, journals, client, run>>

Expire(s) ==
    /\ s \in Subscribers
    /\ sockets[s].state = "open"
    /\ sockets' = [sockets EXCEPT ![s].state = "closing"]
    /\ UNCHANGED <<hub, journals, client, run>>

(* Mutant: the journals are left as they are. *)
PruneNothing(j, busy) == UNCHANGED <<hub, journals>>

PruneIdle(j, busy) == Prune(hub, j, {}, busy)

(* The close of the socket, by either side or by an error *)
Detach(s) ==
    LET rest == Subscribers \ {s}
    IN  /\ s \in Subscribers
        /\ sockets' = [t \in rest |-> sockets[t]]
        /\ PruneIdle(journals, Busy(rest))
        /\ client' = [c \in Clients |->
                         IF client[c].at = s THEN [client[c] EXCEPT !.at = NoSlot] ELSE client[c]]
        /\ UNCHANGED run

-----------------------------------------------------------------------------
(* The client *)

Read(c) ==
    LET s == client[c].at
    IN  /\ s # NoSlot
        /\ sockets[s].queue # <<>>
        /\ client' = [client EXCEPT ![c].n = Head(sockets[s].queue).n,
                                    ![c].run = IF Head(sockets[s].queue).kind = "ready" /\ client[c].n # NoCursor
                                               THEN @ ELSE run]
        /\ sockets' = [sockets EXCEPT ![s].queue = Tail(@)]
        /\ UNCHANGED <<hub, journals, run>>

Pong(c) ==
    LET s == client[c].at
    IN  /\ s # NoSlot
        /\ ~sockets[s].alive
        /\ sockets' = [sockets EXCEPT ![s].alive = TRUE]
        /\ UNCHANGED <<hub, journals, client, run>>

(* The client loses its network, and the hub does not hear of it. *)
Leave(c) ==
    LET s == client[c].at
    IN  /\ s # NoSlot
        /\ sockets' = [sockets EXCEPT ![s].queue = <<>>]
        /\ client' = [client EXCEPT ![c].at = NoSlot]
        /\ UNCHANGED <<hub, journals, run>>

-----------------------------------------------------------------------------
Restart ==
    /\ run < MaxRuns
    /\ run' = run + 1
    /\ hub' = [a \in Scopes |-> Empty]
    /\ journals' = <<>>
    /\ sockets' = <<>>
    /\ client' = [c \in Clients |-> [client[c] EXCEPT !.at = NoSlot]]

Init ==
    /\ hub = [a \in Scopes |-> Empty]
    /\ journals = <<>>
    /\ sockets = <<>>
    /\ client = [c \in Clients |-> [n |-> NoCursor, run |-> 1, at |-> NoSlot]]
    /\ run = 1

Next ==
    \/ \E c \in Clients :
          \/ \E s \in Slots : Attach(c, s)
          \/ Read(c)
          \/ Pong(c)
          \/ Leave(c)
    \/ \E a \in Scopes : \E e \in Events[a], failing \in SUBSET Following(a) :
          Publish(a, e, failing)
    \/ \E s \in Slots : Heartbeat(s) \/ Expire(s) \/ Detach(s)
    \/ Restart

Spec == Init /\ [][Next]_vars

(* The heartbeat's interval passes, and a terminated socket is closed. *)
Fairness ==
    \A s \in Slots :
        /\ WF_vars(Heartbeat(s))
        /\ WF_vars(s \in Subscribers /\ sockets[s].state = "terminated" /\ Detach(s))

FairSpec == Spec /\ Fairness

-----------------------------------------------------------------------------
(* Properties *)

Socket == [client : Clients, alive : BOOLEAN,
           state : {"open", "closing", "terminated"}, queue : Seq(Frame)]

TypeOK ==
    /\ hub \in [Scopes -> [cursor : Nat, replay : Seq(Entry), dropped : Nat, ids : SUBSET Ids]]
    /\ journals \in Seq(Scopes)
    /\ \A i, j \in DOMAIN journals : journals[i] = journals[j] => i = j
    /\ Subscribers \subseteq Slots
    /\ sockets \in [Subscribers -> Socket]
    /\ client \in [Clients -> [n : Nat \cup {NoCursor}, run : 1..MaxRuns,
                               at : Subscribers \cup {NoSlot}]]
    /\ run \in 1..MaxRuns

(* The journal is the tail of the scope's events that droppedThroughCursor *)
(* says it is, without a hole, through trims by count and by bytes,        *)
(* evictions and restarts; an id is remembered just as long as its event   *)
(* is, and has one event (publish, trimReplay, pruneIdleJournals).         *)
JournalIsTail ==
    \A a \in Scopes :
        LET x == hub[a]
        IN  /\ x.dropped + Len(x.replay) = x.cursor
            /\ \A i \in DOMAIN x.replay : x.replay[i].cursor = x.dropped + i
            /\ x.ids = IdsOf(x.replay)
            /\ \A i, j \in DOMAIN x.replay :
                  x.replay[i].id = x.replay[j].id /\ x.replay[i].id # Fresh => i = j

(* The cursor a client has when it comes to frame i of its queue *)
Before(c, i) == LET q == sockets[client[c].at].queue
                IN  IF i = 1 THEN client[c].n ELSE q[i - 1].n

(* A client reaches each cursor by the event of that cursor, or is told to *)
(* resynchronise: no send that fails, trim, eviction or reconnection       *)
(* leaves a hole that it does not hear of (attach, publish, send).         *)
NoSilentGap ==
    \A c \in Clients :
        LET s == client[c].at
        IN  s # NoSlot =>
              \A i \in DOMAIN sockets[s].queue :
                  LET f == sockets[s].queue[i]
                  IN  /\ f.kind = "event" => f.n = Before(c, i) + 1
                      /\ f.kind = "cursor" => f.n = Before(c, i)

(* An open socket has been given everything there is: its client can only  *)
(* be behind by what is on the way to it.                                  *)
OpenIsCurrent ==
    \A c \in Clients :
        LET s == client[c].at
        IN  s # NoSlot /\ sockets[s].state = "open" =>
              Before(c, Len(sockets[s].queue) + 1) = hub[ScopeOf[c]].cursor

(* Journals nobody follows are bounded, also after subscriptions held more *)
(* of them than the limit: at most one stays above it.                     *)
IdleJournalsBounded ==
    Len(journals) > MaxJournals =>
        Cardinality({i \in DOMAIN journals : journals[i] \notin Busy(Subscribers)}) <= 1

(* A subscriber whose client has gone does not stay (and keep the journal  *)
(* of its scope), not even when it went while its socket was being closed. *)
GoneAreDetached ==
    \A s \in Slots :
        s \in Subscribers /\ ~Heard(s)
            ~> s \notin Subscribers

(* What the README says of the journal: "cursor replay" - a client is not  *)
(* sent events as the continuation of a cursor it has from another run of  *)
(* the Router: those up to that cursor would never reach it.               *)
ReplayContinues ==
    \A c \in Clients :
        LET s == client[c].at
        IN  s # NoSlot /\ client[c].n \notin {NoCursor, 0} /\ client[c].run # run =>
              \A i \in DOMAIN sockets[s].queue :
                  sockets[s].queue[i].kind = "event" =>
                      \E j \in 1..i - 1 : sockets[s].queue[j].kind = "resync"
=============================================================================
