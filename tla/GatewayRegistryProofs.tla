------------------------- MODULE GatewayRegistryProofs -------------------------
(***************************************************************************)
(* The registry's invariants for any number of Agents, Gateways,           *)
(* credentials and connections.  The inductive invariant has four parts:   *)
(* the ledger has one active credential per Agent; the connection tracked  *)
(* for a Gateway id is one of that Gateway; each connection stands to the  *)
(* ledger as the properties say; and the supervisor's sets name open       *)
(* connections only.  Most handlers rewrite the flags of one connection,   *)
(* which one lemma covers; the claim and the upgrade have one each.        *)
(***************************************************************************)
EXTENDS GatewayRegistry, FiniteSetTheorems, TLAPS

Ledger ==
    /\ status \in [Credentials -> Store!Statuses]
    /\ Store!OnePerAgent

Tracking ==
    /\ Used \subseteq Connections
    /\ conn \in [Used -> Connection]
    /\ gateways \in [Gateways -> Used \cup {NoConn}]
    /\ \A g \in Gateways : gateways[g] # NoConn => GatewayOf(gateways[g]) = g

(* The store's active credential of the Agent and Gateway of c *)
Backed(c) ==
    \E k \in Credentials :
        status[k] = "active" /\ k.agent = AgentOf(c) /\ k.gateway = GatewayOf(c)

(* A record the handlers may leave behind *)
Sound(x) ==
    /\ x \in Connection
    /\ x.routable => x.online /\ x.agentOnline /\ x.state = "active"
    /\ x.state = "revoked" => x.sock # "open"

Standing ==
    \A c \in Used :
        /\ Sound(conn[c])
        /\ Attached(c) /\ conn[c].state = "active" => Backed(c)
        /\ Attached(c) /\ status[conn[c].cred] = "active" => conn[c].state = "active"

Watching ==
    /\ tracked \in [Agents -> Liveness]
    /\ probing \subseteq Used
    /\ \A c \in probing : conn[c].sock # "closed"
    /\ recovery \in [Agents -> {"none", "disconnected", "reconnected"}]

IInv == Ledger /\ Tracking /\ Standing /\ Watching

(* What a step may not do to a connection that stays *)
Followed ==
    \A c \in Used : c \in DOMAIN conn' =>
        /\ conn[c].state = "revoked" => conn'[c].state = "revoked"
        /\ ReadyRoute(c) /\ conn'[c].sock = "terminated" => c \in probing

USE ConstantsAssumption

-----------------------------------------------------------------------------
(* Two connections of one Agent that the ledger backs are the same one.    *)
LEMMA BackedIsUnique ==
  ASSUME Ledger, Tracking, NEW c \in Used, NEW d \in Used, Attached(c), Attached(d),
         AgentOf(c) = AgentOf(d), Backed(c), Backed(d)
  PROVE  c = d
<1>1. PICK k \in Credentials : status[k] = "active" /\ k.agent = AgentOf(c) /\ k.gateway = GatewayOf(c)
  BY DEF Backed
<1>2. PICK j \in Credentials : status[j] = "active" /\ j.agent = AgentOf(d) /\ j.gateway = GatewayOf(d)
  BY DEF Backed
<1>3. k = j
  BY <1>1, <1>2 DEF Ledger, Store!OnePerAgent
<1> QED
  BY <1>1, <1>2, <1>3 DEF Attached

LEMMA CredOf ==
  ASSUME Tracking, NEW c \in Used
  PROVE  /\ c \in Connections /\ conn[c] \in Connection /\ conn[c].cred \in Credentials
         /\ AgentOf(c) \in Agents /\ GatewayOf(c) \in Gateways
         /\ conn[c].sock \in Socket
  BY DEF Tracking, Connection, AgentOf, GatewayOf

(* A handler rewrites the flags of one connection and leaves its           *)
(* credential and credential state alone.                                  *)
LEMMA RecordKeeps ==
  ASSUME IInv, NEW c \in Used, NEW x, Sound(x),
         x.cred = conn[c].cred, x.state = conn[c].state,
         x.sock = "terminated" /\ ReadyRoute(c) => c \in probing,
         conn' = [conn EXCEPT ![c] = x], UNCHANGED <<status, gateways>>
  PROVE  /\ Ledger' /\ Tracking' /\ Standing' /\ Followed
         /\ Used' = Used
         /\ \A d \in Used \ {c} : conn'[d] = conn[d]
         /\ conn'[c] = x
<1>1. Ledger /\ Tracking /\ Standing
  BY DEF IInv
<1>2. /\ Used' = Used
      /\ conn'[c] = x
      /\ \A d \in Used \ {c} : conn'[d] = conn[d]
  BY <1>1 DEF Tracking, Used
<1>3. Ledger'
  BY <1>1 DEF Ledger, Store!OnePerAgent
<1>4. \A d \in Used : conn'[d].cred = conn[d].cred /\ conn'[d].state = conn[d].state
  BY <1>2
<1>5. Tracking'
  <2>1. conn' \in [Used' -> Connection]
    BY <1>1, <1>2 DEF Tracking, Sound
  <2>2. \A g \in Gateways : gateways[g] # NoConn => gateways[g] \in Used
    BY <1>1 DEF Tracking
  <2> QED
    BY <1>1, <1>2, <1>4, <2>1, <2>2 DEF Tracking, GatewayOf
<1>6. Standing'
  <2> SUFFICES ASSUME NEW d \in Used
               PROVE  /\ Sound(conn'[d])
                      /\ Attached(d)' /\ conn'[d].state = "active" => Backed(d)'
                      /\ Attached(d)' /\ status'[conn'[d].cred] = "active" => conn'[d].state = "active"
    BY <1>2 DEF Standing, Sound
  <2>1. Sound(conn'[d])
    BY <1>1, <1>2 DEF Standing
  <2>2. Attached(d)' <=> Attached(d)
    BY <1>2, <1>4 DEF Attached, GatewayOf
  <2>3. Backed(d)' <=> Backed(d)
    BY <1>4 DEF Backed, AgentOf, GatewayOf
  <2> QED
    BY <1>1, <1>4, <2>1, <2>2, <2>3 DEF Standing
<1>7. Followed
  <2> SUFFICES ASSUME NEW d \in Used, ReadyRoute(d), conn'[d].sock = "terminated"
               PROVE  d \in probing
    BY <1>4 DEF Followed
  <2>1. conn[d].sock = "open"
    BY DEF ReadyRoute, Ready
  <2> QED
    BY <1>2, <2>1
<1> QED
  BY <1>2, <1>3, <1>5, <1>6, <1>7

LEMMA NoRecordKeeps ==
  ASSUME IInv, UNCHANGED <<conn, status, gateways>>
  PROVE  Ledger' /\ Tracking' /\ Standing' /\ Followed /\ Used' = Used
<1>1. Ledger /\ Tracking /\ Standing
  BY DEF IInv
<1>2. Ledger' /\ Tracking' /\ Used' = Used
  BY <1>1 DEF Ledger, Store!OnePerAgent, Tracking, Used, GatewayOf
<1>3. Standing'
  BY <1>1 DEF Standing, Sound, Attached, Backed, Used, AgentOf, GatewayOf
<1>4. Followed
  BY DEF Followed, ReadyRoute, Ready
<1> QED
  BY <1>2, <1>3, <1>4

(* Closing and terminating a socket, and taking a connection offline,      *)
(* leave a record sound.                                                   *)
LEMMA ClosingSound ==
  ASSUME NEW x, Sound(x)
  PROVE  /\ Sound(Closing(x)) /\ Closing(x).cred = x.cred /\ Closing(x).state = x.state
         /\ Closing(x).sock = IF x.sock = "open" THEN "closing" ELSE x.sock
  BY DEF Sound, Closing, Connection, Socket

LEMMA TerminatedSound ==
  ASSUME NEW x, Sound(x)
  PROVE  /\ Sound(Terminated(x)) /\ Terminated(x).cred = x.cred /\ Terminated(x).state = x.state
         /\ Terminated(x).sock = IF x.sock = "open" THEN "terminated" ELSE x.sock
  BY DEF Sound, Terminated, Connection, Socket

LEMMA OffSound ==
  ASSUME NEW x, Sound(x)
  PROVE  /\ Sound(Off(x)) /\ Off(x).cred = x.cred /\ Off(x).state = x.state
         /\ Off(x).sock = x.sock
  BY DEF Sound, Off, Connection, Socket

LEMMA QuarantinedSound ==
  ASSUME NEW x, Sound(x)
  PROVE  /\ Sound(Quarantined(x)) /\ Quarantined(x).cred = x.cred
         /\ Quarantined(x).state = "revoked"
         /\ Quarantined(x).sock = IF x.sock = "open" THEN "closing" ELSE x.sock
  BY DEF Sound, Quarantined, Closing, Off, Connection, Socket

-----------------------------------------------------------------------------
(* The handlers of frames and timers *)

(* Reject and HelloTimeout *)
LEMMA ClosingKeeps ==
  ASSUME IInv, NEW c \in Used, conn' = [conn EXCEPT ![c] = Closing(@)],
         UNCHANGED <<status, gateways, tracked, probing, recovery>>
  PROVE  IInv' /\ Followed
<1> DEFINE x == Closing(conn[c])
<1>1. /\ Sound(x) /\ x.cred = conn[c].cred /\ x.state = conn[c].state
      /\ x.sock = IF conn[c].sock = "open" THEN "closing" ELSE conn[c].sock
  BY ClosingSound DEF IInv, Standing
<1>2. conn' = [conn EXCEPT ![c] = x]
  OBVIOUS
<1>3. x.sock = "terminated" /\ ReadyRoute(c) => c \in probing
  BY <1>1 DEF ReadyRoute, Ready
<1> HIDE DEF x
<1>4. /\ Ledger' /\ Tracking' /\ Standing' /\ Followed
      /\ Used' = Used
      /\ \A d \in Used \ {c} : conn'[d] = conn[d]
      /\ conn'[c] = x
  BY <1>1, <1>2, <1>3, RecordKeeps
<1>5. Watching'
  BY <1>1, <1>4 DEF IInv, Watching
<1> QED
  BY <1>4, <1>5 DEF IInv

LEMMA HelloKeeps ==
  ASSUME IInv, NEW c \in Connections, NEW sidecar \in BOOLEAN, Hello(c, sidecar)
  PROVE  IInv' /\ Followed
<1>1. /\ c \in Used /\ Sound(conn[c]) /\ conn[c] \in Connection /\ AgentOf(c) \in Agents
      /\ conn[c].sock # "closed"
  BY CredOf DEF Hello, Delivers, IInv, Standing
<1> DEFINE x == [conn[c] EXCEPT !.online = TRUE,
                                !.sidecar = sidecar,
                                !.agentOnline = ~sidecar,
                                !.routable = conn[c].state = "active" /\ ~sidecar]
<1>2. /\ Sound(x) /\ x.cred = conn[c].cred /\ x.state = conn[c].state
      /\ x.sock = conn[c].sock
  BY <1>1 DEF Sound, Connection
<1>3. /\ conn' = [conn EXCEPT ![c] = x]
      /\ UNCHANGED <<status, gateways, probing>>
  BY DEF Hello
<1>4. x.sock = "terminated" /\ ReadyRoute(c) => c \in probing
  BY <1>2 DEF ReadyRoute, Ready
<1> HIDE DEF x
<1>5. /\ Ledger' /\ Tracking' /\ Standing' /\ Followed
      /\ Used' = Used
      /\ \A d \in Used \ {c} : conn'[d] = conn[d]
      /\ conn'[c] = x
  BY <1>1, <1>2, <1>3, <1>4, RecordKeeps
<1>6. Watching'
  <2>1. /\ tracked' \in [Agents -> Liveness]
        /\ recovery' \in [Agents -> {"none", "disconnected", "reconnected"}]
    BY <1>1 DEF Hello, IInv, Watching, Liveness
  <2> QED
    BY <1>1, <1>2, <1>3, <1>5, <2>1 DEF IInv, Watching
<1> QED
  BY <1>5, <1>6 DEF IInv

LEMMA AgentStatusKeeps ==
  ASSUME IInv, NEW c \in Connections, NEW on \in BOOLEAN, AgentStatus(c, on)
  PROVE  IInv' /\ Followed
<1>1. c \in Used /\ Sound(conn[c]) /\ conn[c] \in Connection
  BY CredOf DEF AgentStatus, Delivers, IInv, Standing
<1> DEFINE x == [conn[c] EXCEPT !.agentOnline = on,
                                !.routable = on /\ conn[c].state = "active"]
<1>2. /\ Sound(x) /\ x.cred = conn[c].cred /\ x.state = conn[c].state
      /\ x.sock = conn[c].sock
  BY <1>1 DEF AgentStatus, Sound, Connection
<1>3. /\ conn' = [conn EXCEPT ![c] = x]
      /\ UNCHANGED <<status, gateways, tracked, probing, recovery>>
  BY DEF AgentStatus
<1>4. x.sock = "terminated" /\ ReadyRoute(c) => c \in probing
  BY <1>2 DEF ReadyRoute, Ready
<1> HIDE DEF x
<1>5. /\ Ledger' /\ Tracking' /\ Standing' /\ Followed
      /\ Used' = Used
      /\ \A d \in Used \ {c} : conn'[d] = conn[d]
      /\ conn'[c] = x
  BY <1>1, <1>2, <1>3, <1>4, RecordKeeps
<1>6. Watching'
  BY <1>1, <1>2, <1>3, <1>5 DEF IInv, Watching
<1> QED
  BY <1>5, <1>6 DEF IInv

(* A step of the supervisor that changes no connection *)
LEMMA SupervisorKeeps ==
  ASSUME IInv, UNCHANGED <<conn, status, gateways, recovery>>,
         \/ \E c \in Connections : Probe(c) \/ Ack(c)
         \/ \E a \in Agents : ProbeNothing(a)
  PROVE  IInv' /\ Followed
<1>1. Ledger' /\ Tracking' /\ Standing' /\ Followed /\ Used' = Used
  BY NoRecordKeeps
<1>2. tracked' \in [Agents -> Liveness]
  <2>1. ASSUME NEW c \in Connections, Ack(c) PROVE tracked' \in [Agents -> Liveness]
    <3>1. AgentOf(c) \in Agents
      BY <2>1, CredOf DEF Ack, Delivers, IInv
    <3> QED
      BY <2>1, <3>1 DEF Ack, IInv, Watching, Liveness
  <2>2. ASSUME NEW a \in Agents, ProbeNothing(a) PROVE tracked' \in [Agents -> Liveness]
    BY <2>2 DEF ProbeNothing, IInv, Watching, Liveness
  <2>3. ASSUME NEW c \in Connections, Probe(c) PROVE tracked' \in [Agents -> Liveness]
    BY <2>3 DEF Probe, IInv, Watching
  <2> QED
    BY <2>1, <2>2, <2>3
<1>3. /\ probing' \subseteq Used
      /\ \A c \in probing' : conn[c].sock # "closed"
  <2>1. ASSUME NEW c \in Connections, Probe(c)
        PROVE  probing' = probing \cup {c} /\ c \in Used /\ conn[c].sock = "open"
    BY <2>1 DEF Probe, ReadyRoute, Ready
  <2>2. ASSUME NEW c \in Connections, Ack(c)
        PROVE  probing' \subseteq probing
    BY <2>2 DEF Ack
  <2>3. ASSUME NEW a \in Agents, ProbeNothing(a) PROVE probing' = probing
    BY <2>3 DEF ProbeNothing
  <2> QED
    BY <2>1, <2>2, <2>3 DEF IInv, Watching
<1> QED
  BY <1>1, <1>2, <1>3 DEF IInv, Watching

(* Miss and Mismatch: x is the record of c when runProbe gets the outcome  *)
LEMMA MissedKeeps ==
  ASSUME IInv, NEW c \in probing, NEW x, NEW fatal \in BOOLEAN,
         Sound(x), x.cred = conn[c].cred, x.state = conn[c].state, x.sock # "closed",
         Missed(c, x, fatal), probing' = probing \ {c},
         UNCHANGED <<status, gateways, recovery>>
  PROVE  IInv' /\ Followed
<1>1. c \in Used /\ AgentOf(c) \in Agents
  BY CredOf DEF IInv, Watching
<1>2. PICK y \in {x, Terminated(Off(x))} : conn' = [conn EXCEPT ![c] = y]
  BY DEF Missed
<1>3. Sound(y) /\ y.cred = conn[c].cred /\ y.state = conn[c].state /\ y.sock # "closed"
  <2>1. CASE y = x
    BY <2>1
  <2>2. CASE y = Terminated(Off(x))
    BY <2>2, OffSound, TerminatedSound
  <2> QED
    BY <1>2, <2>1, <2>2
<1>4. /\ Ledger' /\ Tracking' /\ Standing' /\ Followed
      /\ Used' = Used
      /\ \A d \in Used \ {c} : conn'[d] = conn[d]
      /\ conn'[c] = y
  BY <1>1, <1>2, <1>3, RecordKeeps
<1>5. tracked' \in [Agents -> Liveness]
  BY <1>1 DEF Missed, IInv, Watching, Liveness
<1>6. Watching'
  BY <1>3, <1>4, <1>5 DEF IInv, Watching
<1> QED
  BY <1>4, <1>6 DEF IInv

LEMMA MissKeeps ==
  ASSUME IInv, NEW c \in Connections, Miss(c)
  PROVE  IInv' /\ Followed
<1>1. /\ c \in probing /\ Missed(c, conn[c], FALSE) /\ probing' = probing \ {c}
      /\ UNCHANGED <<status, gateways, recovery>>
  BY DEF Miss
<1>2. Sound(conn[c]) /\ conn[c].sock # "closed"
  BY <1>1 DEF IInv, Watching, Standing
<1> QED
  BY <1>1, <1>2, MissedKeeps

LEMMA MismatchKeeps ==
  ASSUME IInv, NEW c \in Connections, Mismatch(c)
  PROVE  IInv' /\ Followed
<1> DEFINE x == Closing(Off(conn[c]))
<1>1. /\ c \in probing /\ Missed(c, x, TRUE) /\ probing' = probing \ {c}
      /\ UNCHANGED <<status, gateways, recovery>>
  BY DEF Mismatch
<1>2. Sound(conn[c]) /\ conn[c].sock # "closed"
  BY <1>1 DEF IInv, Watching, Standing
<1>3. Sound(x) /\ x.cred = conn[c].cred /\ x.state = conn[c].state /\ x.sock # "closed"
  BY <1>2, OffSound, ClosingSound
<1> QED
  BY <1>1, <1>3, MissedKeeps

-----------------------------------------------------------------------------
(* The upgrade.  The slot of the new connection is not in use, the one it  *)
(* supersedes is closed or is tracked no more, and its own state is what   *)
(* the store has just said.                                                *)
LEMMA ConnectKeeps ==
  ASSUME IInv, NEW k \in Credentials, NEW c \in Connections, Connect(k, c)
  PROVE  IInv' /\ Followed
<1> DEFINE prior == gateways[k.gateway]
           kept  == Used \ (IF prior \in Used /\ conn[prior].sock = "closed" THEN {prior} ELSE {})
<1>1. /\ status[k] \in {"offered", "active"} /\ c \notin Used
      /\ conn' = [d \in kept \cup {c} |->
                     IF d = c THEN NewConnection(k)
                     ELSE IF d = prior THEN Closing(conn[d])
                     ELSE conn[d]]
      /\ gateways' = [gateways EXCEPT ![k.gateway] = c]
      /\ UNCHANGED <<status, tracked, probing, recovery>>
  BY DEF Connect, Unused
<1>2. /\ Ledger /\ Tracking /\ Standing /\ Watching
      /\ k.gateway \in Gateways /\ kept \subseteq Used
  BY DEF IInv
<1>3. /\ Used' = kept \cup {c}
      /\ conn'[c] = NewConnection(k)
      /\ \A d \in kept : conn'[d] = IF d = prior THEN Closing(conn[d]) ELSE conn[d]
  BY <1>1, <1>2 DEF Used
<1> HIDE DEF kept
<1>4. /\ Sound(conn'[c]) /\ conn'[c].cred = k
      /\ conn'[c].state = "active" <=> status[k] = "active"
  BY <1>3 DEF NewConnection, Sound, Connection, Socket
<1>5. \A d \in kept :
         /\ Sound(conn'[d]) /\ conn'[d].cred = conn[d].cred
         /\ conn'[d].state = conn[d].state
         /\ conn'[d].sock = "closed" <=> conn[d].sock = "closed"
         /\ conn'[d].sock = "terminated" <=> conn[d].sock = "terminated"
  <2> SUFFICES ASSUME NEW d \in kept
               PROVE  /\ Sound(conn'[d]) /\ conn'[d].cred = conn[d].cred
                      /\ conn'[d].state = conn[d].state
                      /\ conn'[d].sock = "closed" <=> conn[d].sock = "closed"
                      /\ conn'[d].sock = "terminated" <=> conn[d].sock = "terminated"
    OBVIOUS
  <2>1. Sound(conn[d])
    BY <1>2 DEF Standing
  <2> QED
    BY <1>3, <2>1, ClosingSound
<1>6. \A g \in Gateways : g # k.gateway => gateways[g] # prior \/ prior = NoConn
  BY <1>2 DEF Tracking
<1>7. Tracking'
  <2>1. conn' \in [Used' -> Connection] /\ Used' \subseteq Connections
    BY <1>1, <1>2, <1>3, <1>4, <1>5 DEF Sound, Tracking
  <2>2. ASSUME NEW g \in Gateways
        PROVE  /\ gateways'[g] \in Used' \cup {NoConn}
               /\ gateways'[g] # NoConn => conn'[gateways'[g]].cred.gateway = g
    <3>1. CASE g = k.gateway
      BY <1>1, <1>2, <1>3, <1>4, <3>1 DEF Tracking
    <3>2. CASE g # k.gateway /\ gateways[g] # NoConn
      <4>1. gateways'[g] = gateways[g] /\ gateways[g] \in kept
        BY <1>1, <1>2, <1>6, <3>2 DEF Tracking, kept
      <4> QED
        BY <1>2, <1>3, <1>5, <3>2, <4>1 DEF Tracking, GatewayOf
    <3>3. CASE g # k.gateway /\ gateways[g] = NoConn
      BY <1>1, <1>2, <3>3 DEF Tracking
    <3> QED
      BY <3>1, <3>2, <3>3
  <2>3. gateways' \in [Gateways -> Used' \cup {NoConn}]
    BY <1>1, <1>2, <2>2 DEF Tracking
  <2> QED
    BY <2>1, <2>2, <2>3 DEF Tracking, GatewayOf
<1>8. Standing'
  <2>1. ASSUME NEW d \in kept
        PROVE  /\ Attached(d)' => Attached(d)
               /\ Backed(d)' <=> Backed(d)
    <3>1. conn'[d].cred = conn[d].cred /\ d \in Used /\ d # c
      BY <1>1, <1>2, <1>5
    <3>2. Attached(d)' => gateways[conn[d].cred.gateway] = d
      BY <1>1, <1>2, <3>1, CredOf DEF Attached, GatewayOf, Tracking
    <3> QED
      BY <1>1, <3>1, <3>2 DEF Attached, GatewayOf, Backed, AgentOf
  <2>2. conn'[c].state = "active" => Backed(c)'
    BY <1>1, <1>4 DEF Backed, AgentOf, GatewayOf
  <2> SUFFICES ASSUME NEW d \in kept \cup {c}
               PROVE  /\ Sound(conn'[d])
                      /\ Attached(d)' /\ conn'[d].state = "active" => Backed(d)'
                      /\ Attached(d)' /\ status'[conn'[d].cred] = "active" => conn'[d].state = "active"
    BY <1>3 DEF Standing, Sound
  <2>3. CASE d = c
    BY <1>1, <1>4, <2>2, <2>3
  <2>4. CASE d \in kept
    BY <1>1, <1>2, <1>5, <2>1, <2>4 DEF Standing
  <2> QED
    BY <2>3, <2>4
<1>9. Watching'
  <2>1. probing \subseteq kept
    BY <1>2 DEF Watching, kept
  <2> QED
    BY <1>1, <1>2, <1>3, <1>5, <2>1 DEF Watching
<1>10. Followed
  <2> SUFFICES ASSUME NEW d \in kept
               PROVE  /\ conn[d].state = "revoked" => conn'[d].state = "revoked"
                      /\ ReadyRoute(d) /\ conn'[d].sock = "terminated" => d \in probing
    BY <1>1, <1>3 DEF Followed, Used
  <2> QED
    BY <1>5 DEF ReadyRoute, Ready
<1> QED
  BY <1>1, <1>2, <1>7, <1>8, <1>9, <1>10 DEF IInv, Ledger, Store!OnePerAgent

(* The close of a socket: a tracked connection stays, offline; another is  *)
(* forgotten.                                                              *)
LEMMA DetachKeeps ==
  ASSUME IInv, NEW c \in Connections, Detach(c)
  PROVE  IInv' /\ Followed
<1>1. /\ c \in Used /\ Sound(conn[c]) /\ conn[c] \in Connection /\ AgentOf(c) \in Agents
      /\ Ledger /\ Tracking /\ Standing /\ Watching
  BY CredOf DEF Detach, IInv, Standing
<1>2. /\ probing' = probing \ {c}
      /\ tracked' \in [Agents -> Liveness]
      /\ recovery' \in [Agents -> {"none", "disconnected", "reconnected"}]
      /\ UNCHANGED <<status, gateways>>
  BY <1>1 DEF Detach, Watching, Liveness
<1>3. CASE Attached(c)
  <2> DEFINE x == [Off(conn[c]) EXCEPT !.sock = "closed"]
  <2>1. /\ Sound(x) /\ x.cred = conn[c].cred /\ x.state = conn[c].state
        /\ x.sock = "closed"
    BY <1>1 DEF Off, Sound, Connection, Socket
  <2>2. conn' = [conn EXCEPT ![c] = x]
    BY <1>3 DEF Detach
  <2> HIDE DEF x
  <2>3. /\ Ledger' /\ Tracking' /\ Standing' /\ Followed
        /\ Used' = Used
        /\ \A d \in Used \ {c} : conn'[d] = conn[d]
    BY <1>1, <1>2, <2>1, <2>2, RecordKeeps
  <2> QED
    BY <1>1, <1>2, <2>3 DEF IInv, Watching
<1>4. CASE ~Attached(c)
  <2>1. /\ Used' = Used \ {c}
        /\ \A d \in Used \ {c} : conn'[d] = conn[d]
        /\ conn' \in [Used' -> Connection]
    BY <1>1, <1>4 DEF Detach, Used, Tracking
  <2>2. \A g \in Gateways : gateways[g] # c
    BY <1>1, <1>4 DEF Tracking, Attached
  <2>3. Tracking'
    BY <1>1, <1>2, <2>1, <2>2 DEF Tracking, GatewayOf
  <2>4. Standing'
    <3> SUFFICES ASSUME NEW d \in Used \ {c}
                 PROVE  /\ Sound(conn'[d])
                        /\ Attached(d)' /\ conn'[d].state = "active" => Backed(d)'
                        /\ Attached(d)' /\ status'[conn'[d].cred] = "active" => conn'[d].state = "active"
      BY <2>1 DEF Standing, Sound
    <3>1. Attached(d)' => Attached(d)
      BY <1>2, <2>1 DEF Attached, GatewayOf
    <3>2. Backed(d)' <=> Backed(d)
      BY <1>2, <2>1 DEF Backed, AgentOf, GatewayOf
    <3> QED
      BY <1>1, <1>2, <2>1, <3>1, <3>2 DEF Standing
  <2>5. Watching'
    BY <1>1, <1>2, <2>1 DEF Watching
  <2>6. Followed
    BY <2>1 DEF Followed, Used, ReadyRoute, Ready
  <2> QED
    BY <1>1, <1>2, <2>3, <2>4, <2>5, <2>6 DEF IInv, Ledger, Store!OnePerAgent
<1> QED
  BY <1>3, <1>4

-----------------------------------------------------------------------------
(* A claim, first or repeated: the store has k active for its Agent, and   *)
(* the tracked connections of that Agent other than c are quarantined.     *)
LEMMA SynchronizeKeeps ==
  ASSUME IInv, Ledger', NEW k \in Credentials, NEW c \in Connections,
         Reservable(k, c), Synchronize(c), status'[k] = "active",
         \A j \in Credentials : j.agent # k.agent => status'[j] = status[j],
         UNCHANGED <<gateways, probing, recovery>>
  PROVE  IInv' /\ Followed
<1>1. /\ c \in Used /\ c = gateways[k.gateway] /\ AgentOf(c) = k.agent
      /\ k.gateway \in Gateways /\ k.agent \in Agents /\ c # NoConn
      /\ conn[c].online /\ conn[c].agentOnline /\ conn[c].sock = "open"
      /\ Ledger /\ Tracking /\ Standing /\ Watching
  BY DEF Reservable, IInv
<1>2. GatewayOf(c) = k.gateway /\ Attached(c)
  BY <1>1 DEF Tracking, Attached
<1> DEFINE Rival(d) == d # c /\ Attached(d) /\ AgentOf(d) = AgentOf(c)
           x == [conn[c] EXCEPT !.state = "active", !.routable = TRUE]
<1>3. /\ Used' = Used
      /\ \A d \in Used : conn'[d] = IF d = c THEN x
                                    ELSE IF Rival(d) THEN Quarantined(conn[d]) ELSE conn[d]
      /\ tracked' = [tracked EXCEPT ![AgentOf(c)] = [conn |-> c, misses |-> 0]]
  BY <1>1 DEF Synchronize, Used
<1>4. /\ Sound(x) /\ x.cred = conn[c].cred /\ x.state = "active" /\ x.sock = "open"
  BY <1>1, CredOf, ZenonT(40) DEF Sound, Connection
<1>5. \A d \in Used :
         /\ Sound(conn[d])
         /\ Sound(Quarantined(conn[d])) /\ Quarantined(conn[d]).cred = conn[d].cred
         /\ Quarantined(conn[d]).state = "revoked"
         /\ Quarantined(conn[d]).sock = IF conn[d].sock = "open" THEN "closing" ELSE conn[d].sock
  BY <1>1, QuarantinedSound DEF Standing
<1> HIDE DEF x
<1>6. \A d \in Used : Sound(conn'[d]) /\ conn'[d].cred = conn[d].cred
  BY <1>3, <1>4, <1>5
<1>7. \A d \in Used : (Attached(d)' <=> Attached(d)) /\ AgentOf(d)' = AgentOf(d) /\ GatewayOf(d)' = GatewayOf(d)
  BY <1>3, <1>6 DEF Attached, AgentOf, GatewayOf
<1>8. Tracking'
  <2>1. conn' \in [Used' -> Connection]
    <3>1. conn' = [d \in Used |-> conn'[d]]
      BY <1>1 DEF Synchronize
    <3> QED
      BY <1>3, <1>6, <3>1 DEF Sound
  <2>2. \A g \in Gateways : gateways[g] # NoConn => gateways[g] \in Used
    BY <1>1 DEF Tracking
  <2> QED
    BY <1>1, <1>3, <1>7, <2>1, <2>2 DEF Tracking
<1>9. Standing'
  <2> SUFFICES ASSUME NEW d \in Used, Attached(d)
               PROVE  /\ conn'[d].state = "active" => Backed(d)'
                      /\ status'[conn[d].cred] = "active" => conn'[d].state = "active"
    BY <1>3, <1>6, <1>7 DEF Standing, Sound
  <2>1. CASE d = c
    <3>1. Backed(d)'
      BY <1>1, <1>2, <1>7, <2>1 DEF Backed
    <3> QED
      BY <1>3, <1>4, <2>1, <3>1
  <2>2. CASE Rival(d)
    <3>1. conn'[d].state = "revoked" /\ conn[d].cred \in Credentials /\ conn[d].cred.agent = k.agent
      BY <1>1, <1>3, <1>5, <2>2, CredOf DEF AgentOf
    <3>2. conn[d].cred # k
      BY <1>1, <2>2 DEF Attached, GatewayOf
    <3>3. status'[conn[d].cred] # "active"
      BY <3>1, <3>2 DEF Ledger, Store!OnePerAgent
    <3> QED
      BY <3>1, <3>3
  <2>3. CASE d # c /\ AgentOf(d) # AgentOf(c)
    <3>1. conn'[d] = conn[d] /\ conn[d].cred \in Credentials /\ conn[d].cred.agent # k.agent
      BY <1>1, <1>3, <2>3, CredOf DEF AgentOf
    <3>2. Backed(d) => Backed(d)'
      <4> SUFFICES ASSUME NEW j \in Credentials, status[j] = "active",
                          j.agent = AgentOf(d), j.gateway = GatewayOf(d)
                   PROVE  Backed(d)'
        BY DEF Backed
      <4>1. status'[j] = "active"
        BY <1>1, <2>3
      <4> QED
        BY <1>7, <4>1 DEF Backed
    <3> QED
      BY <1>1, <3>1, <3>2 DEF Standing
  <2> QED
    BY <2>1, <2>2, <2>3
<1>10. Watching'
  <2>1. tracked' \in [Agents -> Liveness]
    BY <1>1, <1>3 DEF Watching, Liveness
  <2>2. \A d \in Used : conn[d].sock # "closed" => conn'[d].sock # "closed"
    BY <1>3, <1>4, <1>5
  <2> QED
    BY <1>1, <1>3, <2>1, <2>2 DEF Watching
<1>11. Followed
  <2> SUFFICES ASSUME NEW d \in Used
               PROVE  /\ conn[d].state = "revoked" => conn'[d].state = "revoked"
                      /\ conn[d].sock = "open" => conn'[d].sock # "terminated"
    BY DEF Followed, ReadyRoute, Ready
  <2>1. CASE d = c
    BY <1>1, <1>3, <1>4, <1>5, <2>1 DEF Sound
  <2>2. CASE d # c
    BY <1>3, <1>5, <2>2
  <2> QED
    BY <2>1, <2>2
<1> QED
  BY <1>8, <1>9, <1>10, <1>11 DEF IInv

LEMMA ClaimKeeps ==
  ASSUME IInv, NEW k \in Credentials, NEW c \in Connections, Claim(k, c) \/ RecoverClaim(k, c)
  PROVE  IInv' /\ Followed
<1>1. Ledger
  BY DEF IInv
<1>2. CASE Claim(k, c)
  <2>1. /\ Store!Promote(k) /\ Reservable(k, c) /\ Synchronize(c)
        /\ UNCHANGED <<gateways, probing, recovery>>
    BY <1>2 DEF Claim
  <2>2. /\ status' \in [Credentials -> Store!Statuses] /\ status'[k] = "active"
        /\ \A j \in Credentials \ {k} :
               IF j.agent = k.agent THEN status'[j] # "active" ELSE status'[j] = status[j]
    BY <2>1 DEF Store!Promote
  <2>3. Ledger'
    BY <1>1, <2>2 DEF Ledger, Store!OnePerAgent
  <2> QED
    BY <2>1, <2>2, <2>3, SynchronizeKeeps
<1>3. CASE RecoverClaim(k, c)
  <2>1. /\ status[k] = "active" /\ Reservable(k, c) /\ Synchronize(c)
        /\ UNCHANGED <<status, gateways, probing, recovery>>
    BY <1>3 DEF RecoverClaim
  <2>2. Ledger'
    BY <1>1, <2>1 DEF Ledger, Store!OnePerAgent
  <2> QED
    BY <2>1, <2>2, SynchronizeKeeps
<1> QED
  BY <1>2, <1>3

(* Approvals and their end move no credential to or from active.           *)
LEMMA StoreStepKeeps ==
  ASSUME IInv, StoreStep
  PROVE  IInv' /\ Followed
<1>1. Ledger /\ Tracking /\ Standing /\ Watching
      /\ UNCHANGED <<gateways, conn, tracked, probing, recovery>>
  BY DEF IInv, StoreStep
<1>2. /\ status' \in [Credentials -> Store!Statuses]
      /\ \A k \in Credentials : status'[k] = "active" <=> status[k] = "active"
  <2>1. CASE Store!Lapse
    BY <2>1 DEF Store!Lapse
  <2>2. ASSUME NEW k \in Credentials, Store!Offer(k)
        PROVE  /\ status' \in [Credentials -> Store!Statuses]
               /\ \A j \in Credentials : status'[j] = "active" <=> status[j] = "active"
    BY <1>1, <2>2 DEF Store!Offer, Ledger, Store!Statuses
  <2> QED
    BY <2>1, <2>2 DEF StoreStep
<1>3. Ledger'
  BY <1>1, <1>2 DEF Ledger, Store!OnePerAgent
<1>4. Standing'
  BY <1>1, <1>2, CredOf DEF Standing, Sound, Attached, Backed, Used, AgentOf, GatewayOf
<1>5. Tracking' /\ Watching' /\ Followed
  BY <1>1 DEF Tracking, Watching, Followed, Used, GatewayOf, ReadyRoute, Ready
<1> QED
  BY <1>3, <1>4, <1>5 DEF IInv

LEMMA EmptyIsFine ==
  ASSUME Ledger, conn = <<>>, gateways = [g \in Gateways |-> NoConn],
         tracked = [a \in Agents |-> Untracked], probing = {},
         recovery = [a \in Agents |-> "none"]
  PROVE  IInv
<1>1. Used = {} /\ conn \in [{} -> Connection]
  BY DEF Used
<1>2. Tracking
  BY <1>1 DEF Tracking
<1>3. Standing
  BY <1>1 DEF Standing
<1>4. Watching
  BY DEF Watching, Untracked, Liveness
<1> QED
  BY <1>2, <1>3, <1>4 DEF IInv

LEMMA RestartKeeps ==
  ASSUME IInv, Restart
  PROVE  IInv' /\ Followed
<1>1. Used' = {} /\ conn' \in [{} -> Connection]
  BY DEF Restart, Used
<1>2. Ledger'
  BY DEF Restart, IInv, Ledger, Store!OnePerAgent
<1>3. Tracking' /\ Standing' /\ Followed
  BY <1>1 DEF Restart, Tracking, Standing, Followed, Used
<1>4. Watching'
  BY DEF Restart, Watching, Untracked, Liveness
<1> QED
  BY <1>2, <1>3, <1>4 DEF IInv

LEMMA InitIInv == Init => IInv
  BY EmptyIsFine DEF Init, Store!Init, Ledger

LEMMA NextKeeps == IInv /\ [Next]_vars => IInv' /\ Followed
<1> SUFFICES ASSUME IInv, [Next]_vars
             PROVE  IInv' /\ Followed
  OBVIOUS
<1>1. CASE UNCHANGED vars
  <2>1. Ledger' /\ Tracking' /\ Standing' /\ Followed /\ Used' = Used
    BY <1>1, NoRecordKeeps DEF vars
  <2> QED
    BY <1>1, <2>1 DEF vars, IInv, Watching
<1>2. ASSUME NEW k \in Credentials, NEW c \in Connections,
             Connect(k, c) \/ Claim(k, c) \/ RecoverClaim(k, c)
      PROVE  IInv' /\ Followed
  BY <1>2, ConnectKeeps, ClaimKeeps
<1>3. ASSUME NEW c \in Connections, Reject(c) \/ HelloTimeout(c)
      PROVE  IInv' /\ Followed
  BY <1>3, ClosingKeeps DEF Reject, HelloTimeout, Delivers
<1>4. ASSUME NEW c \in Connections, NEW b \in BOOLEAN, Hello(c, b) \/ AgentStatus(c, b)
      PROVE  IInv' /\ Followed
  BY <1>4, HelloKeeps, AgentStatusKeeps
<1>5. ASSUME NEW c \in Connections, Detach(c)
      PROVE  IInv' /\ Followed
  BY <1>5, DetachKeeps
<1>6. ASSUME NEW c \in Connections, Probe(c) \/ Ack(c)
      PROVE  IInv' /\ Followed
  BY <1>6, SupervisorKeeps DEF Probe, Ack
<1>7. ASSUME NEW c \in Connections, Miss(c) \/ Mismatch(c)
      PROVE  IInv' /\ Followed
  BY <1>7, MissKeeps, MismatchKeeps
<1>8. ASSUME NEW a \in Agents, ProbeNothing(a)
      PROVE  IInv' /\ Followed
  BY <1>8, SupervisorKeeps DEF ProbeNothing
<1>9. CASE StoreStep
  BY <1>9, StoreStepKeeps
<1>10. CASE Restart
  BY <1>10, RestartKeeps
<1> QED
  BY <1>1, <1>2, <1>3, <1>4, <1>5, <1>6, <1>7, <1>8, <1>9, <1>10 DEF Next

LEMMA AlwaysIInv == Spec => []IInv
  BY InitIInv, NextKeeps, PTL DEF Spec

-----------------------------------------------------------------------------
(* Connections, routes and what the supervisor holds are well formed.      *)
THEOREM Typing == Spec => []TypeOK
<1>1. IInv => TypeOK
  BY DEF IInv, Ledger, Tracking, Watching, TypeOK
<1> QED
  BY <1>1, AlwaysIInv, PTL

(* gatewayForAgent finds at most one tracked connection that is marked     *)
(* active: claims (synchronizeCredentialActivation), upgrades, closes and  *)
(* restarts in any order and number never leave two.                       *)
THEOREM OneRouteAlways == Spec => []OneRoute
<1>1. IInv => OneRoute
  <2> SUFFICES ASSUME IInv, NEW a \in Agents
               PROVE  Cardinality(Routes(a)) <= 1
    BY DEF OneRoute
  <2>1. \A c, d \in Routes(a) : c = d
    BY BackedIsUnique DEF IInv, Standing, Routes
  <2>2. CASE Routes(a) = {}
    BY <2>2, FS_EmptySet
  <2>3. CASE Routes(a) # {}
    <3>1. PICK c \in Routes(a) : TRUE
      BY <2>3
    <3>2. Routes(a) = {c}
      BY <2>1, <3>1
    <3>3. Cardinality({c}) = 1
      BY FS_Singleton
    <3> QED
      BY <3>2, <3>3
  <2> QED
    BY <2>2, <2>3
<1> QED
  BY <1>1, AlwaysIInv, PTL

(* The Agent's route is a connection of the Gateway whose credential the   *)
(* pairing store holds active.                                             *)
THEOREM RouteFollowsStoreAlways == Spec => []RouteFollowsStore
<1>1. IInv => RouteFollowsStore
  BY DEF IInv, Standing, Backed, RouteFollowsStore, Routes
<1> QED
  BY <1>1, AlwaysIInv, PTL

(* No tracked Gateway with the active credential waits for a claim.        *)
THEOREM NoneStranded == Spec => []NoStrandedGateway
<1>1. IInv => NoStrandedGateway
  BY DEF IInv, Standing, NoStrandedGateway
<1> QED
  BY <1>1, AlwaysIInv, PTL

(* Whichever of hello, Agent status, heartbeat, claim and close ran last,  *)
(* only a whole connection carries traffic.                                *)
THEOREM RoutableAlwaysWhole == Spec => []RoutableIsWhole
<1>1. IInv => RoutableIsWhole
  BY DEF IInv, Standing, Sound, RoutableIsWhole
<1> QED
  BY <1>1, AlwaysIInv, PTL

(* An Agent has one route at most, to the Gateway the store holds active.  *)
THEOREM RoutesAlwaysRight == Spec => []RoutesAreRight
<1>1. Spec => []OneRoute
  BY OneRouteAlways
<1>2. Spec => []RouteFollowsStore
  BY RouteFollowsStoreAlways
<1>3. OneRoute /\ RouteFollowsStore => RoutesAreRight
  BY DEF RoutesAreRight
<1> QED
  BY <1>1, <1>2, <1>3, PTL

(* No active Gateway is stranded, and none that is not whole is routable.  *)
THEOREM FlagsAlwaysAgree == Spec => []FlagsAgree
<1>1. Spec => []NoStrandedGateway
  BY NoneStranded
<1>2. Spec => []RoutableIsWhole
  BY RoutableAlwaysWhole
<1>3. NoStrandedGateway /\ RoutableIsWhole => FlagsAgree
  BY DEF FlagsAgree
<1> QED
  BY <1>1, <1>2, <1>3, PTL

(* A connection a rotation has revoked is not brought back by frames that  *)
(* are still handled, by another claim or by the store.                    *)
THEOREM RevokedForGood == Spec => RevokedStaysOut
<1>1. IInv /\ [Next]_vars
        => \A c \in Used : conn[c].state = "revoked" =>
              \/ c \notin DOMAIN conn'
              \/ conn'[c].state = "revoked" /\ ~conn'[c].routable
  <2> SUFFICES ASSUME IInv, [Next]_vars, NEW c \in Used, conn[c].state = "revoked",
                      c \in DOMAIN conn'
               PROVE  conn'[c].state = "revoked" /\ ~conn'[c].routable
    OBVIOUS
  <2>1. conn'[c].state = "revoked" /\ Standing'
    BY NextKeeps DEF Followed, IInv
  <2> QED
    BY <2>1 DEF Standing, Sound, Used
<1> QED
  BY <1>1, AlwaysIInv, PTL DEF Spec, RevokedStaysOut

(* The supervisor terminates an open route only for a heartbeat of that    *)
(* very connection (runProbe's check of the tracked connection).           *)
THEOREM EndedForItsOwnMisses == Spec => OwnMissesOnly
<1>1. IInv /\ [Next]_vars
        => \A c \in Used : ReadyRoute(c) /\ c \in DOMAIN conn' /\ conn'[c].sock = "terminated"
              => c \in probing
  BY NextKeeps DEF Followed
<1> QED
  BY <1>1, AlwaysIInv, PTL DEF Spec, OwnMissesOnly

-----------------------------------------------------------------------------
(* Where no frame comes after the Router's close, a connection that has    *)
(* been superseded is heard no more, and so the supervisor watches the     *)
(* route: both are set by the same handlers.                               *)

Owned ==
    /\ \A c \in Used : conn[c].sock = "open" => Attached(c)
    /\ RouteOwnsLiveness

(* A step that opens no socket and attaches nothing.  For each route that  *)
(* is left, the supervisor holds what it held, or has just been told.      *)
LEMMA QuietOwned ==
  ASSUME Owned, Used' \subseteq Used, UNCHANGED gateways,
         \A d \in Used' : conn'[d].cred = conn[d].cred,
         \A d \in Used' : conn'[d].sock = "open" => conn[d].sock = "open",
         \A d \in Used' : ReadyRoute(d)' =>
            \/ tracked'[AgentOf(d)].conn = d
            \/ ReadyRoute(d) /\ tracked'[AgentOf(d)].conn = tracked[AgentOf(d)].conn
  PROVE  Owned'
<1>1. \A d \in Used' : AgentOf(d)' = AgentOf(d) /\ GatewayOf(d)' = GatewayOf(d)
  BY DEF AgentOf, GatewayOf
<1>2. \A d \in Used' : conn'[d].sock = "open" => Attached(d)'
  BY <1>1 DEF Owned, Attached
<1>3. ASSUME NEW d \in Used', ReadyRoute(d)'
      PROVE  tracked'[AgentOf(d)'].conn = d
  BY <1>1, <1>3 DEF Owned, RouteOwnsLiveness
<1> QED
  BY <1>2, <1>3 DEF Owned, RouteOwnsLiveness

(* One connection's record changes and none becomes a route. *)
LEMMA RecordOwned ==
  ASSUME IInv, Owned, NEW c \in Used, NEW x, conn' = [conn EXCEPT ![c] = x],
         x.cred = conn[c].cred, x.sock = "open" => conn[c].sock = "open",
         x.state = "active" /\ x.online => conn[c].state = "active" /\ conn[c].online,
         UNCHANGED gateways,
         \A a \in Agents : tracked'[a].conn = tracked[a].conn
  PROVE  Owned'
<1>1. /\ Used' = Used /\ conn'[c] = x
      /\ \A d \in Used \ {c} : conn'[d] = conn[d]
  BY DEF IInv, Tracking, Used
<1>2. \A d \in Used : conn'[d].cred = conn[d].cred /\ AgentOf(d) \in Agents
  BY <1>1, CredOf DEF IInv
<1>3. \A d \in Used : conn'[d].sock = "open" => conn[d].sock = "open"
  BY <1>1
<1>4. \A d \in Used : ReadyRoute(d)' => ReadyRoute(d)
  BY <1>1, <1>2 DEF ReadyRoute, Ready, Attached, GatewayOf
<1> QED
  BY <1>1, <1>2, <1>3, <1>4, QuietOwned

LEMMA HelloOwned ==
  ASSUME ~LateFrames, IInv, Owned, NEW c \in Connections, NEW sidecar \in BOOLEAN, Hello(c, sidecar)
  PROVE  Owned'
<1>1. c \in Used /\ conn[c].sock = "open" /\ Attached(c) /\ conn[c] \in Connection
      /\ AgentOf(c) \in Agents /\ UNCHANGED gateways
  BY CredOf DEF Hello, Delivers, Owned, IInv
<1> DEFINE x == [conn[c] EXCEPT !.online = TRUE,
                                !.sidecar = sidecar,
                                !.agentOnline = ~sidecar,
                                !.routable = conn[c].state = "active" /\ ~sidecar]
<1>2. x.cred = conn[c].cred /\ x.sock = conn[c].sock /\ x.state = conn[c].state
  BY <1>1 DEF Connection
<1>3. conn' = [conn EXCEPT ![c] = x]
  BY DEF Hello
<1> HIDE DEF x
<1>4. /\ Used' = Used /\ conn'[c] = x
      /\ \A d \in Used \ {c} : conn'[d] = conn[d]
  BY <1>1, <1>3 DEF IInv, Tracking, Used
<1>5. \A d \in Used : conn'[d].cred = conn[d].cred /\ conn'[d].sock = conn[d].sock
                      /\ conn'[d].state = conn[d].state
  BY <1>2, <1>4
<1>6. \A d \in Used : Attached(d)' <=> Attached(d)
  BY <1>1, <1>4, <1>5 DEF Attached, GatewayOf
<1>7. ASSUME NEW d \in Used, ReadyRoute(d)'
      PROVE  \/ tracked'[AgentOf(d)].conn = d
             \/ ReadyRoute(d) /\ tracked'[AgentOf(d)].conn = tracked[AgentOf(d)].conn
  <2>1. Attached(d) /\ conn[d].state = "active"
    BY <1>5, <1>6, <1>7 DEF ReadyRoute
  <2>2. CASE d = c
    BY <1>1, <2>1, <2>2 DEF Hello, IInv, Watching, Liveness
  <2>3. CASE d # c
    <3>1. ReadyRoute(d)
      BY <1>4, <1>6, <1>7, <2>3 DEF ReadyRoute, Ready
    <3>2. ~(conn[c].state = "active" /\ AgentOf(d) = AgentOf(c))
      BY <1>1, <2>1, <2>3, BackedIsUnique DEF IInv, Standing
    <3>3. tracked' = tracked \/ (conn[c].state = "active" /\
                                 tracked' = [tracked EXCEPT ![AgentOf(c)] = [conn |-> c, misses |-> 0]])
      BY DEF Hello
    <3>4. AgentOf(d) \in Agents
      BY CredOf DEF IInv
    <3> QED
      BY <3>1, <3>2, <3>3, <3>4 DEF IInv, Watching
  <2> QED
    BY <2>2, <2>3
<1> QED
  BY <1>1, <1>4, <1>5, <1>7, QuietOwned

LEMMA ConnectOwned ==
  ASSUME IInv, Owned, NEW k \in Credentials, NEW c \in Connections, Connect(k, c)
  PROVE  Owned'
<1> DEFINE g == k.gateway
           prior == gateways[g]
<1>1. /\ c \notin Used /\ g \in Gateways /\ UNCHANGED tracked
      /\ gateways' = [gateways EXCEPT ![g] = c]
      /\ gateways \in [Gateways -> Used \cup {NoConn}]
  BY DEF Connect, Unused, IInv, Tracking
<1>2. /\ Used' \subseteq Used \cup {c} /\ c \in Used'
      /\ conn'[c] = NewConnection(k)
      /\ \A d \in Used' \ {c} : conn'[d] = IF d = prior THEN Closing(conn[d]) ELSE conn[d]
  BY <1>1 DEF Connect, Used
<1>3. /\ conn'[c].cred = k /\ conn'[c].sock = "open" /\ ~conn'[c].online
  BY <1>2 DEF NewConnection
<1>4. ASSUME NEW d \in Used' \ {c}
      PROVE  /\ d \in Used /\ conn'[d].cred = conn[d].cred /\ GatewayOf(d) \in Gateways
             /\ conn'[d].sock = "open" => conn[d].sock = "open" /\ d # prior
             /\ conn'[d].online = conn[d].online /\ conn'[d].state = conn[d].state
  <2>1. d \in Used /\ conn[d] \in Connection /\ GatewayOf(d) \in Gateways
    BY <1>2, <1>4, CredOf DEF IInv
  <2>2. /\ Closing(conn[d]).cred = conn[d].cred /\ Closing(conn[d]).sock # "open"
        /\ Closing(conn[d]).online = conn[d].online /\ Closing(conn[d]).state = conn[d].state
    BY <2>1 DEF Closing, Connection
  <2>3. conn'[d] = IF d = prior THEN Closing(conn[d]) ELSE conn[d]
    BY <1>2
  <2> HIDE DEF prior
  <2> QED
    BY <2>1, <2>2, <2>3
<1>5. Attached(c)'
  BY <1>1, <1>2, <1>3 DEF Attached, GatewayOf
<1>6. ASSUME NEW d \in Used' \ {c}
      PROVE  /\ Attached(d)' => Attached(d)
             /\ Attached(d) /\ d # prior => Attached(d)'
  BY <1>1, <1>2, <1>4 DEF Attached, GatewayOf
<1>7. \A d \in Used' : conn'[d].sock = "open" => Attached(d)'
  BY <1>4, <1>5, <1>6 DEF Owned
<1>8. ASSUME NEW d \in Used', ReadyRoute(d)'
      PROVE  tracked'[AgentOf(d)'].conn = d
  <2>1. d # c
    BY <1>3, <1>8 DEF ReadyRoute, Ready
  <2>2. ReadyRoute(d) /\ AgentOf(d)' = AgentOf(d)
    BY <1>4, <1>6, <1>8, <2>1 DEF ReadyRoute, Ready, AgentOf
  <2> QED
    BY <1>1, <2>2 DEF Owned, RouteOwnsLiveness, ReadyRoute
<1> QED
  BY <1>7, <1>8 DEF Owned, RouteOwnsLiveness

LEMMA DetachOwned ==
  ASSUME IInv, Owned, NEW c \in Connections, Detach(c)
  PROVE  Owned'
<1>1. c \in Used /\ conn[c] \in Connection /\ AgentOf(c) \in Agents /\ UNCHANGED gateways
  BY CredOf DEF Detach, IInv
<1>2. /\ Used' \subseteq Used
      /\ \A d \in Used' \ {c} : conn'[d] = conn[d]
      /\ c \in Used' => conn'[c].sock = "closed" /\ conn'[c].cred = conn[c].cred
  <2>1. CASE Attached(c)
    <3> DEFINE x == [Off(conn[c]) EXCEPT !.sock = "closed"]
    <3>1. x.sock = "closed" /\ x.cred = conn[c].cred
      BY <1>1 DEF Off, Connection
    <3>2. conn' = [conn EXCEPT ![c] = x]
      BY <2>1 DEF Detach
    <3> HIDE DEF x
    <3> QED
      BY <1>1, <3>1, <3>2 DEF IInv, Tracking, Used
  <2>2. CASE ~Attached(c)
    BY <1>1, <2>2 DEF Detach, Used
  <2> QED
    BY <2>1, <2>2
<1>3. ASSUME NEW d \in Used', ReadyRoute(d)'
      PROVE  ReadyRoute(d) /\ tracked'[AgentOf(d)].conn = tracked[AgentOf(d)].conn
  <2>1. d # c /\ d \in Used /\ conn'[d] = conn[d]
    BY <1>2, <1>3 DEF ReadyRoute, Ready
  <2>2. ReadyRoute(d) /\ AgentOf(d) \in Agents /\ d # NoConn
    BY <1>1, <1>3, <2>1, CredOf DEF ReadyRoute, Ready, Attached, GatewayOf, IInv
  <2>3. tracked[AgentOf(d)].conn = d
    BY <2>1, <2>2 DEF Owned, RouteOwnsLiveness
  <2>4. tracked'[AgentOf(d)] = tracked[AgentOf(d)]
    <3>1. CASE AgentOf(d) = AgentOf(c)
      BY <2>1, <2>2, <2>3, <3>1 DEF Detach
    <3>2. CASE AgentOf(d) # AgentOf(c)
      BY <1>1, <2>2, <3>2 DEF Detach, IInv, Watching
    <3> QED
      BY <3>1, <3>2
  <2> QED
    BY <2>2, <2>4
<1>4. \A d \in Used' : conn'[d].cred = conn[d].cred
  BY <1>2
<1>5. \A d \in Used' : conn'[d].sock = "open" => conn[d].sock = "open"
  BY <1>2
<1> QED
  BY <1>1, <1>2, <1>3, <1>4, <1>5, QuietOwned

LEMMA SynchronizeOwned ==
  ASSUME IInv, Owned, NEW k \in Credentials, NEW c \in Connections,
         Reservable(k, c), Synchronize(c), UNCHANGED <<gateways, probing, recovery>>
  PROVE  Owned'
<1> DEFINE Rival(d) == d # c /\ Attached(d) /\ AgentOf(d) = AgentOf(c)
           x == [conn[c] EXCEPT !.state = "active", !.routable = TRUE]
<1>1. c \in Used /\ conn[c].sock = "open" /\ Tracking /\ Standing
  BY DEF Reservable, IInv
<1>2. AgentOf(c) \in Agents /\ conn[c] \in Connection
  BY <1>1, CredOf
<1>3. /\ tracked' = [tracked EXCEPT ![AgentOf(c)] = [conn |-> c, misses |-> 0]]
      /\ tracked \in [Agents -> Liveness]
  <2>1. tracked \in [Agents -> Liveness]
    BY DEF IInv, Watching
  <2>2. tracked' = [tracked EXCEPT ![AgentOf(c)] = [conn |-> c, misses |-> 0]]
    BY Zenon DEF Synchronize
  <2> QED
    BY <2>1, <2>2
<1>4. /\ Used' = Used
      /\ \A d \in Used : conn'[d] = IF d = c THEN x
                                    ELSE IF Rival(d) THEN Quarantined(conn[d]) ELSE conn[d]
  <2> DEFINE F(d) == IF d = c THEN [conn[d] EXCEPT !.state = "active", !.routable = TRUE]
                     ELSE IF Attached(d) /\ AgentOf(d) = AgentOf(c) THEN Quarantined(conn[d])
                     ELSE conn[d]
  <2>1. conn' = [d \in Used |-> F(d)]
    BY Zenon DEF Synchronize
  <2>2. ASSUME NEW d \in Used
        PROVE  F(d) = IF d = c THEN x ELSE IF Rival(d) THEN Quarantined(conn[d]) ELSE conn[d]
    BY Zenon
  <2> HIDE DEF x, Rival, F
  <2>3. Used' = Used /\ \A d \in Used : conn'[d] = F(d)
    BY <2>1, Zenon DEF Used
  <2> QED
    BY <2>2, <2>3, Zenon
<1>5. x.cred = conn[c].cred
  BY <1>2 DEF Connection
<1>6. \A d \in Used :
         /\ AgentOf(d) \in Agents
         /\ Quarantined(conn[d]).cred = conn[d].cred
         /\ Quarantined(conn[d]).state = "revoked"
         /\ Quarantined(conn[d]).sock # "open"
  BY <1>1, CredOf, QuarantinedSound DEF Standing
<1> HIDE DEF x
<1>7. \A d \in Used : conn'[d].cred = conn[d].cred
  BY <1>4, <1>5, <1>6
<1>8. \A d \in Used : conn'[d].sock = "open" => conn[d].sock = "open"
  BY <1>1, <1>4, <1>6
<1>9. ASSUME NEW d \in Used, ReadyRoute(d)'
      PROVE  \/ tracked'[AgentOf(d)].conn = d
             \/ ReadyRoute(d) /\ tracked'[AgentOf(d)].conn = tracked[AgentOf(d)].conn
  <2>1. CASE d = c
    BY <1>2, <1>3, <2>1
  <2>2. CASE d # c
    <3>1. Attached(d)
      BY <1>7, <1>9 DEF ReadyRoute, Attached, GatewayOf
    <3>2. ~Rival(d)
      BY <1>4, <1>6, <1>9, <2>2 DEF ReadyRoute
    <3>3. AgentOf(d) # AgentOf(c)
      BY <2>2, <3>1, <3>2
    <3>4. conn'[d] = conn[d]
      BY <1>4, <2>2, <3>2
    <3>5. ReadyRoute(d)
      BY <1>9, <3>1, <3>4 DEF ReadyRoute, Ready
    <3> QED
      BY <1>2, <1>3, <1>6, <3>3, <3>5
  <2> QED
    BY <2>1, <2>2
<1> HIDE DEF Rival
<1> QED
  BY <1>4, <1>7, <1>8, <1>9, QuietOwned

LEMMA MissedOwned ==
  ASSUME IInv, Owned, NEW c \in probing, NEW x \in {conn[c], Closing(Off(conn[c]))},
         NEW fatal \in BOOLEAN, Missed(c, x, fatal), UNCHANGED gateways
  PROVE  Owned'
<1>1. c \in Used /\ AgentOf(c) \in Agents /\ conn[c] \in Connection
  BY CredOf DEF IInv, Watching
<1>2. PICK y \in {x, Terminated(Off(x))} : conn' = [conn EXCEPT ![c] = y]
  BY DEF Missed
<1>3. /\ x.cred = conn[c].cred /\ (x.sock = "open" => conn[c].sock = "open")
      /\ x.state = "active" /\ x.online => conn[c].state = "active" /\ conn[c].online
      /\ x \in Connection
  BY <1>1 DEF Closing, Off, Connection, Socket
<1>4. /\ y.cred = conn[c].cred /\ (y.sock = "open" => conn[c].sock = "open")
      /\ y.state = "active" /\ y.online => conn[c].state = "active" /\ conn[c].online
  BY <1>2, <1>3 DEF Terminated, Off, Connection
<1>5. \A a \in Agents : tracked'[a].conn = tracked[a].conn
  BY <1>1 DEF Missed, IInv, Watching, Liveness
<1> QED
  BY <1>1, <1>2, <1>4, <1>5, RecordOwned

LEMMA ClosingOwned ==
  ASSUME IInv, Owned, NEW c \in Used, conn' = [conn EXCEPT ![c] = Closing(@)],
         UNCHANGED <<gateways, tracked>>
  PROVE  Owned'
<1> DEFINE x == Closing(conn[c])
<1>1. conn[c] \in Connection
  BY CredOf DEF IInv
<1>2. /\ x.cred = conn[c].cred /\ (x.sock = "open" => conn[c].sock = "open")
      /\ x.state = conn[c].state /\ x.online = conn[c].online
  BY <1>1 DEF Closing, Connection
<1>3. conn' = [conn EXCEPT ![c] = x]
  OBVIOUS
<1> HIDE DEF x
<1> QED
  BY <1>2, <1>3, RecordOwned

LEMMA StatusOwned ==
  ASSUME IInv, Owned, NEW c \in Connections, NEW on \in BOOLEAN, AgentStatus(c, on)
  PROVE  Owned'
<1> DEFINE x == [conn[c] EXCEPT !.agentOnline = on,
                                !.routable = on /\ conn[c].state = "active"]
<1>1. c \in Used /\ conn[c] \in Connection
  BY CredOf DEF IInv, AgentStatus, Delivers
<1>2. /\ x.cred = conn[c].cred /\ x.sock = conn[c].sock
      /\ x.state = conn[c].state /\ x.online = conn[c].online
  BY <1>1 DEF Connection
<1>3. conn' = [conn EXCEPT ![c] = x] /\ UNCHANGED <<gateways, tracked>>
  BY DEF AgentStatus
<1> HIDE DEF x
<1> QED
  BY <1>1, <1>2, <1>3, RecordOwned

(* Connections and tracked connections stay as they are. *)
LEMMA SameOwned ==
  ASSUME Owned, UNCHANGED <<conn, gateways>>, Tracking,
         \A a \in Agents : tracked'[a].conn = tracked[a].conn
  PROVE  Owned'
<1>1. \A d \in Used : ReadyRoute(d)' => ReadyRoute(d) /\ AgentOf(d) \in Agents
  BY CredOf DEF ReadyRoute, Ready, Attached, GatewayOf, Used
<1>2. Used' = Used
  BY DEF Used
<1> QED
  BY <1>1, <1>2, QuietOwned

LEMMA StepOwned ==
  ASSUME ~LateFrames, IInv, Owned, [Next]_vars
  PROVE  Owned'
<1>1. Tracking
  BY DEF IInv
<1>2. CASE UNCHANGED vars \/ StoreStep
  BY <1>1, <1>2, SameOwned DEF vars, StoreStep
<1>3. ASSUME NEW k \in Credentials, NEW c \in Connections,
             Connect(k, c) \/ Claim(k, c) \/ RecoverClaim(k, c)
      PROVE  Owned'
  BY <1>3, ConnectOwned, SynchronizeOwned DEF Claim, RecoverClaim
<1>4. ASSUME NEW c \in Connections, Reject(c) \/ HelloTimeout(c)
      PROVE  Owned'
  BY <1>4, ClosingOwned DEF Reject, HelloTimeout, Delivers
<1>5. ASSUME NEW c \in Connections, NEW b \in BOOLEAN, Hello(c, b) \/ AgentStatus(c, b)
      PROVE  Owned'
  BY <1>5, HelloOwned, StatusOwned
<1>6. ASSUME NEW c \in Connections, Detach(c)
      PROVE  Owned'
  BY <1>6, DetachOwned
<1>7. ASSUME NEW c \in Connections, Probe(c)
      PROVE  Owned'
  BY <1>1, <1>7, SameOwned DEF Probe
<1>8. ASSUME NEW c \in Connections, Ack(c)
      PROVE  Owned'
  <2>1. \A a \in Agents : tracked'[a].conn = tracked[a].conn
    BY <1>8 DEF Ack, IInv, Watching, Liveness
  <2> QED
    BY <1>1, <1>8, <2>1, SameOwned DEF Ack
<1>9. ASSUME NEW a \in Agents, ProbeNothing(a)
      PROVE  Owned'
  <2>1. \A b \in Agents : tracked'[b].conn = tracked[b].conn
    BY <1>9 DEF ProbeNothing, IInv, Watching, Liveness
  <2> QED
    BY <1>1, <1>9, <2>1, SameOwned DEF ProbeNothing
<1>10. ASSUME NEW c \in Connections, Miss(c) \/ Mismatch(c)
       PROVE  Owned'
  BY <1>10, MissedOwned DEF Miss, Mismatch
<1>11. CASE Restart
  <2>1. DOMAIN conn' = {}
    BY <1>11 DEF Restart
  <2> QED
    BY <2>1 DEF Owned, RouteOwnsLiveness, Used
<1> QED
  BY <1>2, <1>3, <1>4, <1>5, <1>6, <1>7, <1>8, <1>9, <1>10, <1>11 DEF Next

(* Where the Router hears no frame of a socket it is closing, the          *)
(* supervisor watches the connection the Agent's traffic takes, whatever   *)
(* connects, is claimed, closes and is missed, in any order.               *)
THEOREM LivenessFollowsRoute == ~LateFrames => (Spec => []RouteOwnsLiveness)
<1> SUFFICES ASSUME ~LateFrames PROVE Spec => []RouteOwnsLiveness
  OBVIOUS
<1>1. Init => Owned
  BY DEF Init, Owned, RouteOwnsLiveness, Used
<1>2. IInv /\ Owned /\ [Next]_vars => Owned'
  BY StepOwned
<1>3. Owned => RouteOwnsLiveness
  BY DEF Owned
<1> QED
  BY <1>1, <1>2, <1>3, AlwaysIInv, PTL DEF Spec
=============================================================================
