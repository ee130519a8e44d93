--------------------------- MODULE GatewayRegistry ---------------------------
(***************************************************************************)
(* The Router's Gateway connections (gatewayRegistry.ts), the supervisor   *)
(* of their heartbeats (gatewayLivenessSupervisor.ts), and the two places  *)
(* where they meet the pairing store (bridgeServer.ts): the upgrade of a   *)
(* Gateway's WebSocket and the claim of a pairing.  The store is the       *)
(* CredentialLedger, which PairingHistory shows it implements.             *)
(*                                                                         *)
(* A handler runs without interruption, so each is one step; a heartbeat   *)
(* is two, its sending and its outcome.  Frames are kept as far as the     *)
(* handlers tell them apart: a valid hello, a valid Agent status, a        *)
(* heartbeat answer, and a frame that makes the Router close the socket.   *)
(* Connections are slots; a slot is used again once nothing refers to it.  *)
(***************************************************************************)
EXTENDS Naturals, FiniteSets

CONSTANTS
    Agents,
    Gateways,
    Credentials,   \* records with an agent and a gateway
    Connections,   \* slots for WebSocket connections
    NoConn,
    LateFrames     \* a frame already under way when the Router closes the
                   \* socket is still handled (ws does this)

VARIABLES
    status,        \* the credential ledger of the pairing store
    gateways,      \* Gateway id -> the connection tracked for it
    conn,          \* the connections: TrackedGateway and its socket
    tracked,       \* Agent -> connection and misses the supervisor holds
    probing,       \* connections with a heartbeat that has no outcome yet
    recovery       \* Agent -> the last thing that happened to its route

vars == <<status, gateways, conn, tracked, probing, recovery>>

Store == INSTANCE CredentialLedger

ASSUME ConstantsAssumption ==
    /\ \A k \in Credentials : k.agent \in Agents /\ k.gateway \in Gateways
    /\ NoConn \notin Connections
    /\ LateFrames \in BOOLEAN

Socket == {"open", "closing", "terminated", "closed"}

Connection == [sock        : Socket,
               cred        : Credentials,
               state       : {"provisional", "active", "revoked"},
               online      : BOOLEAN,
               agentOnline : BOOLEAN,
               routable    : BOOLEAN,
               sidecar     : BOOLEAN]

(* Misses 0, 1 and 2 are the states healthy, suspect and offline. *)
Liveness == [conn : Connections \cup {NoConn}, misses : 0..2]

Untracked == [conn |-> NoConn, misses |-> 2]

Used == DOMAIN conn

AgentOf(c) == conn[c].cred.agent
GatewayOf(c) == conn[c].cred.gateway

Attached(c) == c \in Used /\ gateways[GatewayOf(c)] = c

-----------------------------------------------------------------------------
(* gatewayForAgent: among the Agent's connections with an active           *)
(* credential one that is online and open, if there is one, else any.      *)

Routes(a) == {c \in Used : Attached(c) /\ AgentOf(c) = a /\ conn[c].state = "active"}

Ready(c) == conn[c].online /\ conn[c].sock = "open"

ReadyRoute(c) == c \in Used /\ Attached(c) /\ conn[c].state = "active" /\ Ready(c)

Preferred(a) ==
    IF \E c \in Routes(a) : Ready(c) THEN {c \in Routes(a) : Ready(c)} ELSE Routes(a)

-----------------------------------------------------------------------------
(* Connection records after a handler's assignments *)

Closing(x) == [x EXCEPT !.sock = IF @ = "open" THEN "closing" ELSE @]

Terminated(x) == [x EXCEPT !.sock = IF @ = "open" THEN "terminated" ELSE @]

Off(x) == [x EXCEPT !.online = FALSE, !.agentOnline = FALSE, !.routable = FALSE]

Quarantined(x) == Closing([Off(x) EXCEPT !.state = "revoked"])

Delivers(c) == c \in Used /\ (conn[c].sock = "open" \/ (LateFrames /\ conn[c].sock = "closing"))

-----------------------------------------------------------------------------
(* The WebSocket upgrade: verifyGateway, then attach *)

Unused(c) == c \notin Used /\ \A a \in Agents : tracked[a].conn # c

(* Mutant: every Gateway that authenticates becomes a route. *)
NewConnectionActive(k) ==
    [sock |-> "open", cred |-> k, state |-> "active",
     online |-> FALSE, agentOnline |-> FALSE, routable |-> FALSE, sidecar |-> FALSE]

NewConnection(k) ==
    [sock |-> "open", cred |-> k,
     state |-> IF status[k] = "active" THEN "active" ELSE "provisional",
     online |-> FALSE, agentOnline |-> FALSE, routable |-> FALSE, sidecar |-> FALSE]

Connect(k, c) ==
    LET prior == gateways[k.gateway]
        kept  == Used \ (IF prior \in Used /\ conn[prior].sock = "closed" THEN {prior} ELSE {})
    IN  /\ status[k] \in {"offered", "active"}
        /\ Unused(c)
        /\ conn' = [d \in kept \cup {c} |->
                       IF d = c THEN NewConnection(k)
                       ELSE IF d = prior THEN Closing(conn[d])
                       ELSE conn[d]]
        /\ gateways' = [gateways EXCEPT ![k.gateway] = c]
        /\ UNCHANGED <<status, tracked, probing, recovery>>

-----------------------------------------------------------------------------
(* Frames *)

(* A frame the Router answers with a close: anything but a hello before    *)
(* the hello, a second hello, a malformed or mismatched frame.             *)
Reject(c) ==
    /\ Delivers(c)
    /\ conn' = [conn EXCEPT ![c] = Closing(@)]
    /\ UNCHANGED <<status, gateways, tracked, probing, recovery>>

Hello(c, sidecar) ==
    LET x == conn[c]
        a == AgentOf(c)
    IN  /\ Delivers(c)
        /\ ~x.online
        /\ conn' = [conn EXCEPT ![c] =
                       [@ EXCEPT !.online = TRUE,
                                 !.sidecar = sidecar,
                                 !.agentOnline = ~sidecar,
                                 !.routable = x.state = "active" /\ ~sidecar]]
        /\ recovery' = [recovery EXCEPT ![a] = IF @ = "disconnected" THEN "reconnected" ELSE @]
        /\ tracked' = IF x.state = "active"
                      THEN [tracked EXCEPT ![a] = [conn |-> c, misses |-> 0]]
                      ELSE tracked
        /\ UNCHANGED <<status, gateways, probing>>

(* Mutant: a status frame does not look at the credential. *)
AgentStatusUnchecked(c, up) ==
    /\ Delivers(c)
    /\ conn[c].online /\ conn[c].sidecar
    /\ conn' = [conn EXCEPT ![c] = [@ EXCEPT !.agentOnline = up, !.routable = up]]
    /\ UNCHANGED <<status, gateways, tracked, probing, recovery>>

AgentStatus(c, up) ==
    /\ Delivers(c)
    /\ conn[c].online /\ conn[c].sidecar
    /\ conn' = [conn EXCEPT ![c] =
                   [@ EXCEPT !.agentOnline = up,
                             !.routable = up /\ conn[c].state = "active"]]
    /\ UNCHANGED <<status, gateways, tracked, probing, recovery>>

HelloTimeout(c) ==
    /\ c \in Used
    /\ ~conn[c].online
    /\ conn[c].sock = "open"
    /\ conn' = [conn EXCEPT ![c] = Closing(@)]
    /\ UNCHANGED <<status, gateways, tracked, probing, recovery>>

(* detach: the socket has closed, by either side or by an error.  Nothing  *)
(* refers to a closed connection that has been replaced.                   *)
Detach(c) ==
    LET a == AgentOf(c)
    IN  /\ c \in Used
        /\ conn[c].sock # "closed"
        /\ conn' = IF Attached(c)
                   THEN [conn EXCEPT ![c] = [Off(@) EXCEPT !.sock = "closed"]]
                   ELSE [d \in Used \ {c} |-> conn[d]]
        /\ tracked' = IF tracked[a].conn \in {NoConn, c}
                      THEN [tracked EXCEPT ![a] = [conn |-> c, misses |-> 2]]
                      ELSE tracked
        /\ probing' = probing \ {c}
        /\ recovery' = [recovery EXCEPT ![a] = "disconnected"]
        /\ UNCHANGED <<status, gateways>>

-----------------------------------------------------------------------------
(* Heartbeats *)

Probe(c) ==
    /\ ReadyRoute(c)
    /\ c \notin probing
    /\ probing' = probing \cup {c}
    /\ UNCHANGED <<status, gateways, conn, tracked, recovery>>

(* A client asks for a heartbeat and no route is ready. *)
ProbeNothing(a) ==
    /\ \A c \in Routes(a) : ~Ready(c)
    /\ tracked[a].conn # NoConn
    /\ tracked' = [tracked EXCEPT ![a].misses = 2]
    /\ UNCHANGED <<status, gateways, conn, probing, recovery>>

Ack(c) ==
    LET a == AgentOf(c)
    IN  /\ Delivers(c)
        /\ conn[c].online
        /\ c \in probing
        /\ probing' = probing \ {c}
        /\ tracked' = IF tracked[a].conn = c THEN [tracked EXCEPT ![a].misses = 0] ELSE tracked
        /\ UNCHANGED <<status, gateways, conn, recovery>>

(* Mutant: an outcome counts for the Agent, whatever connection it is of. *)
MissedByAnyone(c, x, fatal) ==
    LET a == AgentOf(c)
    IN  IF tracked[a].misses = 0
        THEN /\ tracked' = [tracked EXCEPT ![a].misses = 1]
             /\ conn' = [conn EXCEPT ![c] = x]
        ELSE /\ tracked' = [tracked EXCEPT ![a].misses = 2]
             /\ conn' = [d \in Used |-> IF d \in Preferred(a) THEN Terminated(Off(conn[d]))
                                        ELSE IF d = c THEN x ELSE conn[d]]

(* Mutant: misses are counted without an end. *)
MissedCounting(c, x, fatal) ==
    LET a == AgentOf(c)
    IN  /\ conn' = [conn EXCEPT ![c] = x]
        /\ tracked' = IF tracked[a].conn = c THEN [tracked EXCEPT ![a].misses = @ + 1] ELSE tracked

(* Mutant: the second miss is only recorded. *)
MissedOnRecord(c, x, fatal) ==
    LET a == AgentOf(c)
    IN  /\ conn' = [conn EXCEPT ![c] = x]
        /\ IF tracked[a].conn # c THEN UNCHANGED tracked
           ELSE tracked' = [tracked EXCEPT ![a].misses = IF @ = 0 THEN 1 ELSE 2]

(* runProbe after a failed heartbeat of c, whose record is x by now: the   *)
(* second miss in a row, or a fatal one, makes the Agent offline and       *)
(* terminates the socket if it is still the Agent's route.                 *)
Missed(c, x, fatal) ==
    LET a == AgentOf(c)
    IN  IF tracked[a].conn # c
        THEN /\ UNCHANGED tracked
             /\ conn' = [conn EXCEPT ![c] = x]
        ELSE IF tracked[a].misses = 0 /\ ~fatal
        THEN /\ tracked' = [tracked EXCEPT ![a].misses = 1]
             /\ conn' = [conn EXCEPT ![c] = x]
        ELSE /\ tracked' = [tracked EXCEPT ![a].misses = 2]
             /\ conn' = [conn EXCEPT ![c] = IF c \in Preferred(a) THEN Terminated(Off(x)) ELSE x]

(* The heartbeat's deadline passes, or it cannot be sent. *)
Miss(c) ==
    /\ c \in probing
    /\ Missed(c, conn[c], FALSE)
    /\ probing' = probing \ {c}
    /\ UNCHANGED <<status, gateways, recovery>>

(* The answer names another Gateway or Agent. *)
Mismatch(c) ==
    /\ Delivers(c)
    /\ conn[c].online
    /\ c \in probing
    /\ Missed(c, Closing(Off(conn[c])), TRUE)
    /\ probing' = probing \ {c}
    /\ UNCHANGED <<status, gateways, recovery>>

-----------------------------------------------------------------------------
(* The claim of a pairing: reserveCredentialActivation while the store     *)
(* validates the claim, the store's durable switch, and                    *)
(* synchronizeCredentialActivation.  Nothing runs between them.            *)

(* Mutant: a connection that is being closed will do. *)
ReservableClosing(k, c) ==
    /\ c = gateways[k.gateway]
    /\ c \in Used
    /\ AgentOf(c) = k.agent
    /\ conn[c].online /\ conn[c].agentOnline

Reservable(k, c) ==
    /\ c = gateways[k.gateway]
    /\ c \in Used
    /\ AgentOf(c) = k.agent
    /\ conn[c].online /\ conn[c].agentOnline
    /\ conn[c].sock = "open"

(* Mutants: the connections of other Gateways are left as they are; the    *)
(* candidate keeps its state; the supervisor is not told.                  *)
SynchronizeOne(c) ==
    /\ conn' = [conn EXCEPT ![c].state = "active", ![c].routable = TRUE]
    /\ tracked' = [tracked EXCEPT ![AgentOf(c)] = [conn |-> c, misses |-> 0]]

SynchronizeRouteOnly(c) ==
    /\ conn' = [d \in Used |->
                   IF d = c THEN [conn[d] EXCEPT !.routable = TRUE]
                   ELSE IF Attached(d) /\ AgentOf(d) = AgentOf(c) THEN Quarantined(conn[d])
                   ELSE conn[d]]
    /\ tracked' = [tracked EXCEPT ![AgentOf(c)] = [conn |-> c, misses |-> 0]]

SynchronizeUnwatched(c) ==
    /\ conn' = [d \in Used |->
                   IF d = c THEN [conn[d] EXCEPT !.state = "active", !.routable = TRUE]
                   ELSE IF Attached(d) /\ AgentOf(d) = AgentOf(c) THEN Quarantined(conn[d])
                   ELSE conn[d]]
    /\ UNCHANGED tracked

Synchronize(c) ==
    /\ conn' = [d \in Used |->
                   IF d = c THEN [conn[d] EXCEPT !.state = "active", !.routable = TRUE]
                   ELSE IF Attached(d) /\ AgentOf(d) = AgentOf(c) THEN Quarantined(conn[d])
                   ELSE conn[d]]
    /\ tracked' = [tracked EXCEPT ![AgentOf(c)] = [conn |-> c, misses |-> 0]]

Claim(k, c) ==
    /\ Reservable(k, c)
    /\ Store!Promote(k)
    /\ Synchronize(c)
    /\ UNCHANGED <<gateways, probing, recovery>>

(* A client repeats its claim: the store does not change. *)
RecoverClaim(k, c) ==
    /\ status[k] = "active"
    /\ Reservable(k, c)
    /\ Synchronize(c)
    /\ UNCHANGED <<status, gateways, probing, recovery>>

(* The store's other operations do not reach the registry. *)
StoreStep ==
    /\ \/ Store!Lapse
       \/ \E k \in Credentials : Store!Offer(k)
    /\ UNCHANGED <<gateways, conn, tracked, probing, recovery>>

Restart ==
    /\ conn' = <<>>
    /\ gateways' = [g \in Gateways |-> NoConn]
    /\ tracked' = [a \in Agents |-> Untracked]
    /\ probing' = {}
    /\ recovery' = [a \in Agents |-> "none"]
    /\ UNCHANGED status

-----------------------------------------------------------------------------
Init ==
    /\ Store!Init
    /\ conn = <<>>
    /\ gateways = [g \in Gateways |-> NoConn]
    /\ tracked = [a \in Agents |-> Untracked]
    /\ probing = {}
    /\ recovery = [a \in Agents |-> "none"]

Next ==
    \/ \E k \in Credentials, c \in Connections :
          Connect(k, c) \/ Claim(k, c) \/ RecoverClaim(k, c)
    \/ \E c \in Connections :
          \/ Reject(c)
          \/ \E sidecar \in BOOLEAN : Hello(c, sidecar)
          \/ \E up \in BOOLEAN : AgentStatus(c, up)
          \/ HelloTimeout(c)
          \/ Detach(c)
          \/ Probe(c)
          \/ Ack(c)
          \/ Miss(c)
          \/ Mismatch(c)
    \/ \E a \in Agents : ProbeNothing(a)
    \/ StoreStep
    \/ Restart

Spec == Init /\ [][Next]_vars

(* Timers fire, and a socket that is closing is closed in the end (ws      *)
(* destroys it after its close timeout).                                   *)
Fairness ==
    \A c \in Connections :
        /\ WF_vars(Probe(c))
        /\ WF_vars(Miss(c))
        /\ WF_vars(HelloTimeout(c))
        /\ WF_vars(c \in Used /\ conn[c].sock \in {"closing", "terminated"} /\ Detach(c))

FairSpec == Spec /\ Fairness

-----------------------------------------------------------------------------
(* Properties *)

TypeOK ==
    /\ Used \subseteq Connections
    /\ conn \in [Used -> Connection]
    /\ status \in [Credentials -> Store!Statuses]
    /\ gateways \in [Gateways -> Connections \cup {NoConn}]
    /\ tracked \in [Agents -> Liveness]
    /\ probing \subseteq Used
    /\ recovery \in [Agents -> {"none", "disconnected", "reconnected"}]

(* gatewayForAgent never has to choose: whatever order Gateways connect,   *)
(* claims, restarts and closes come in, an Agent has at most one tracked   *)
(* connection that is marked active.                                       *)
OneRoute ==
    \A a \in Agents : Cardinality(Routes(a)) <= 1

(* The route goes to the Gateway the pairing store has made active:        *)
(* claims, durable and runtime, cannot disagree about the Gateway.         *)
RouteFollowsStore ==
    \A a \in Agents : \A c \in Routes(a) :
        \E k \in Credentials :
            status[k] = "active" /\ k.agent = a /\ k.gateway = GatewayOf(c)

(* gatewayForAgent never has to choose, and what it finds is a connection  *)
(* of the Gateway the pairing store holds active.                          *)
RoutesAreRight == OneRoute /\ RouteFollowsStore

(* A Gateway whose credential the store holds active is not left behind    *)
(* as provisional or revoked: no claim has to be repeated to get a route.  *)
NoStrandedGateway ==
    \A c \in Used : Attached(c) /\ status[conn[c].cred] = "active" => conn[c].state = "active"

(* A provisional or revoked Gateway, a sidecar without its Agent and a     *)
(* connection without a hello carry no Agent traffic, whichever of the     *)
(* handlers ran last.                                                      *)
RoutableIsWhole ==
    \A c \in Used :
        conn[c].routable => conn[c].online /\ conn[c].agentOnline /\ conn[c].state = "active"

(* The flags of the connections agree with the ledger and with each other: *)
(* no active Gateway is stranded, none that is not whole carries traffic.  *)
FlagsAgree == NoStrandedGateway /\ RoutableIsWhole

(* A connection revoked by a rotation never carries traffic again.         *)
RevokedStaysOut ==
    [][\A c \in Used : conn[c].state = "revoked" =>
          \/ c \notin DOMAIN conn'
          \/ conn'[c].state = "revoked" /\ ~conn'[c].routable]_vars

(* Only the loss of its own heartbeats makes the supervisor terminate an    *)
(* open route: outcomes of an earlier connection never do.                 *)
OwnMissesOnly ==
    [][\A c \in Used : ReadyRoute(c) /\ c \in DOMAIN conn' /\ conn'[c].sock = "terminated"
          => c \in probing]_vars

(* The supervisor watches the connection the Agent's traffic takes.        *)
RouteOwnsLiveness ==
    \A c \in Used : ReadyRoute(c) => tracked[AgentOf(c)].conn = c

(* A route stays up for good only if its Gateway goes on answering its     *)
(* heartbeats: the supervisor finds out that one has stopped and           *)
(* terminates it, unless a client goes on repeating its claim              *)
(* (synchronizeCredentialActivation records the socket as ready without    *)
(* hearing from it).                                                       *)
SilentRouteEnds ==
    \A c \in Connections :
        <>[]ReadyRoute(c)
            => []<><<Ack(c) \/ \E k \in Credentials : Claim(k, c) \/ RecoverClaim(k, c)>>_vars
=============================================================================
