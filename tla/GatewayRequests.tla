--------------------------- MODULE GatewayRequests ---------------------------
(***************************************************************************)
(* The calls the Router has under way to a Gateway (gatewayRegistry.ts):   *)
(* RPC calls with a deadline, a whole or a chunked response and a          *)
(* cancellation; native requests, which count among the calls in flight;   *)
(* runtime snapshots; and the tombstones of calls that timed out           *)
(* (gatewayRequestTombstones.ts).                                          *)
(*                                                                         *)
(* The Gateway may send any frame about any call it was given, in any      *)
(* order, again, late or malformed.  A connection is open, closing (frames *)
(* and timers are still handled) or gone, and then another one may open.   *)
(***************************************************************************)
EXTENDS Naturals, Sequences, FiniteSets

CONSTANTS
    RpcCalls,        \* calls of requestByAgentId
    InParts,         \* those that are answered in chunks, if at all
    NativeCalls,     \* calls of nativeRequestByAgentId
    SnapshotCalls,   \* calls of requestRuntimeSnapshotByAgentId
    ChunkCount,      \* chunks of a response in parts
    MaxTombstones,   \* maximumEntries
    MaxLinks         \* bound on the connections

VARIABLES
    link,     \* the connection: its number, its state, whether it has rpc.cancel
    calls,    \* call -> state, connection, chunks, outcome
    inFlight, \* inFlightRpc of the connection
    tombs,    \* tombstones, oldest first
    counted   \* the counters of the Agent

requestVars == <<link, calls, inFlight, tombs, counted>>

ASSUME RequestConstantsAssumption ==
    /\ ChunkCount \in Nat \ {0} /\ MaxTombstones \in Nat \ {0} /\ MaxLinks \in Nat \ {0}
    /\ InParts \subseteq RpcCalls
    /\ RpcCalls \cap NativeCalls = {} /\ (RpcCalls \cup NativeCalls) \cap SnapshotCalls = {}
    /\ IsFiniteSet(RpcCalls \cup NativeCalls \cup SnapshotCalls)

Calls == RpcCalls \cup NativeCalls \cup SnapshotCalls
CancelOutcomes == {"cancelled", "not_found", "already_completed"}
Versions == 1..2   \* bound on the responses a Gateway begins for one call

(* A chunk is told by the response it belongs to and its index. *)
Chunk == Versions \X (1..ChunkCount)

NoChunks == [version |-> 0, chunks |-> <<>>]

Fresh == [state |-> "new", on |-> 0, chunked |-> NoChunks, outcome |-> "none", body |-> <<>>]

RequestsInit ==
    /\ \E cancel \in BOOLEAN : link = [number |-> 1, state |-> "open", cancel |-> cancel]
    /\ calls = [c \in Calls |-> Fresh]
    /\ inFlight = 0
    /\ tombs = <<>>
    /\ counted = [timedOut |-> 0, dispatched |-> 0, failed |-> 0, late |-> 0, acked |-> 0]

(* Mutant: the deadline answers the caller and leaves the call pending. *)
PendingAfterDeadline(c) == calls[c].state = "pending" \/ calls[c].outcome = "timeout"

Pending(c) == calls[c].state = "pending"

PendingSet(cs) == {c \in Calls : cs[c].state = "pending"}

Counting(cs) == Cardinality(PendingSet(cs) \ SnapshotCalls)

(* A frame of the current connection about a call it was given. *)
MayHear(c) == link.state # "gone" /\ calls[c].on = link.number

(* pending.delete, inFlightRpc, clearTimeout and the promise *)
EndCall(c, outcome, body) ==
    /\ calls' = [calls EXCEPT ![c] = [@ EXCEPT !.state = "ended", !.outcome = outcome,
                                               !.body = body, !.chunked = NoChunks]]
    /\ inFlight' = IF c \in SnapshotCalls THEN inFlight ELSE Counting(calls')

-----------------------------------------------------------------------------
(* requestByAgentId, nativeRequestByAgentId, requestRuntimeSnapshotByAgentId *)

Request(c) ==
    /\ calls[c].state = "new"
    /\ link.state = "open"
    /\ calls' = [calls EXCEPT ![c].state = "pending", ![c].on = link.number]
    /\ inFlight' = IF c \in SnapshotCalls THEN inFlight ELSE Counting(calls')
    /\ UNCHANGED <<link, tombs, counted>>

(* the callback of `send' has an error *)
SendFails(c) ==
    /\ Pending(c) /\ link.state # "open"
    /\ EndCall(c, "error", <<>>)
    /\ UNCHANGED <<link, tombs, counted>>

(* Mutant: a tombstone is kept for every call. *)
RememberAll(c, dispatched) ==
    tombs' = Append(tombs, [call |-> c, on |-> calls[c].on, dispatched |-> dispatched,
                            acked |-> FALSE, late |-> FALSE])

(* recordTimeout with enforceBound: the oldest give way *)
Remember(c, dispatched) ==
    LET all == Append(tombs, [call |-> c, on |-> calls[c].on, dispatched |-> dispatched,
                              acked |-> FALSE, late |-> FALSE])
    IN  tombs' = IF Len(all) > MaxTombstones THEN Tail(all) ELSE all

(* The deadline of an RPC: a tombstone, and rpc_cancel where the Gateway   *)
(* knows it.  A socket that is not open counts as a failed dispatch; so    *)
(* does an error of `send' that is reported later (fails).                 *)
TimeOutRpc(c) ==
    /\ c \in RpcCalls /\ Pending(c)
    /\ EndCall(c, "timeout", <<>>)
    /\ Remember(c, link.cancel)
    /\ \E fails \in BOOLEAN :
          /\ link.state # "open" => fails
          /\ counted' = [counted EXCEPT !.timedOut = @ + 1,
                                        !.dispatched = @ + (IF link.cancel THEN 1 ELSE 0),
                                        !.failed = @ + (IF link.cancel /\ fails THEN 1 ELSE 0)]
    /\ UNCHANGED link

TimeOut(c) ==
    /\ c \notin RpcCalls /\ Pending(c)
    /\ EndCall(c, "timeout", <<>>)
    /\ UNCHANGED <<link, tombs, counted>>

(* prune: all tombstones live equally long *)
ForgetOldest ==
    /\ tombs # <<>>
    /\ tombs' = Tail(tombs)
    /\ UNCHANGED <<link, calls, inFlight, counted>>

-----------------------------------------------------------------------------
(* Frames *)

FindTomb(c) == {i \in DOMAIN tombs : tombs[i].call = c /\ tombs[i].on = link.number}

(* Mutant: a response that is repeated counts again. *)
ClassifyAgain(c) ==
    IF FindTomb(c) = {} THEN UNCHANGED <<tombs, counted>>
    ELSE counted' = [counted EXCEPT !.late = @ + 1] /\ UNCHANGED tombs

(* classifyResponse; the count of unknown responses is left out *)
ClassifyResponse(c) ==
    IF \E i \in FindTomb(c) : ~tombs[i].late
    THEN /\ tombs' = [i \in DOMAIN tombs |-> IF i \in FindTomb(c)
                                             THEN [tombs[i] EXCEPT !.late = TRUE] ELSE tombs[i]]
         /\ counted' = [counted EXCEPT !.late = @ + 1]
    ELSE UNCHANGED <<tombs, counted>>

(* rpc_response *)
WholeResponse(c) ==
    /\ c \in RpcCalls /\ MayHear(c)
    /\ IF Pending(c)
       THEN EndCall(c, "answered", <<>>) /\ UNCHANGED <<tombs, counted>>
       ELSE ClassifyResponse(c) /\ UNCHANGED <<calls, inFlight>>
    /\ UNCHANGED link

(* rpc_response_start begins anew, whatever was received before *)
ResponseStart(c, v) ==
    /\ c \in InParts /\ MayHear(c) /\ Pending(c)
    /\ v = calls[c].chunked.version + 1 /\ v \in Versions
    /\ calls' = [calls EXCEPT ![c].chunked = [version |-> v, chunks |-> <<>>]]
    /\ UNCHANGED <<link, inFlight, tombs, counted>>

(* A response that is too large, or whose frame, chunk or digest is not    *)
(* right, ends the call; what follows of it is dropped without a trace.    *)
MalformedResponse(c) ==
    /\ c \in RpcCalls /\ MayHear(c) /\ Pending(c)
    /\ EndCall(c, "error", <<>>)
    /\ UNCHANGED <<link, tombs, counted>>

ResponseChunk(c, chunk) ==
    /\ c \in RpcCalls /\ MayHear(c) /\ Pending(c)
    /\ calls[c].chunked.version > 0 /\ chunk[1] <= calls[c].chunked.version
    /\ IF chunk[2] = Len(calls[c].chunked.chunks) + 1
       THEN /\ calls' = [calls EXCEPT ![c].chunked.chunks = Append(@, chunk)]
            /\ UNCHANGED inFlight
       ELSE EndCall(c, "error", <<>>)
    /\ UNCHANGED <<link, tombs, counted>>

(* Mutant: the number of chunks is enough. *)
AllThere(chunked) == Len(chunked.chunks) = ChunkCount

(* the digest of the start is that of its own chunks *)
DigestMatches(chunked) ==
    chunked.chunks = [i \in 1..ChunkCount |-> <<chunked.version, i>>]

ResponseEnd(c) ==
    /\ c \in RpcCalls /\ MayHear(c) /\ Pending(c)
    /\ calls[c].chunked.version > 0
    /\ IF DigestMatches(calls[c].chunked)
       THEN EndCall(c, "answered", calls[c].chunked.chunks)
       ELSE EndCall(c, "error", <<>>)
    /\ UNCHANGED <<link, tombs, counted>>

(* native_ack and an error of it *)
NativeAck(c) ==
    /\ c \in NativeCalls /\ MayHear(c) /\ Pending(c)
    /\ EndCall(c, "answered", <<>>)
    /\ UNCHANGED <<link, tombs, counted>>

(* rpc_cancel_ack: only the first one of a tombstone is counted *)
CancelAck(c) ==
    /\ c \in RpcCalls /\ MayHear(c)
    /\ \E i \in FindTomb(c) :
          /\ ~tombs[i].acked
          /\ tombs' = [tombs EXCEPT ![i].acked = TRUE]
    /\ counted' = [counted EXCEPT !.acked = @ + 1]
    /\ UNCHANGED <<link, calls, inFlight>>

(* runtime_snapshot with the id of a call: the session is the one asked    *)
(* for, or the connection is closed and the call is left to its deadline   *)
RuntimeSnapshot(c, matches) ==
    /\ c \in SnapshotCalls /\ MayHear(c) /\ Pending(c)
    /\ IF matches
       THEN EndCall(c, "answered", <<>>) /\ UNCHANGED link
       ELSE link' = [link EXCEPT !.state = "closing"] /\ UNCHANGED <<calls, inFlight>>
    /\ UNCHANGED <<tombs, counted>>

-----------------------------------------------------------------------------
(* What the cleaning of each frame accepts.  `identity' says that Gateway  *)
(* and Agent are those of the connection.                                  *)

CancelAckOk(f) == f.outcome \in CancelOutcomes

RuntimeSnapshotOk(f) ==
    /\ f.identity /\ f.contract
    /\ f.scope \in {"agent", "session"}
    /\ f.scope = "session" => f.session # 0 /\ f.frameSession \in {0, f.session}

OperationalSnapshotOk(f) == f.identity /\ f.contract /\ f.version \in {1, 2} /\ f.reasonOk

GlobalEventOk(f) == f.identity /\ f.event = "sessions.changed" /\ f.dataOk

SessionEventOk(f) ==
    /\ f.identity /\ f.known /\ f.dataOk
    /\ f.lane \/ (f.event = "session.external_delivery" /\ f.conversation)
    /\ f.event \in {"session.title", "session.transcript.committed"} => f.session # 0
    /\ f.event = "session.info" /\ f.previous # 0 => f.session # 0 /\ f.previous # f.session

Frames ==
    [type : {"rpc_cancel_ack"}, outcome : CancelOutcomes \cup {"other"}]
    \cup [type : {"runtime_snapshot"}, identity : BOOLEAN, contract : BOOLEAN,
          scope : {"agent", "session", "other"}, session : 0..1, frameSession : 0..2]
    \cup [type : {"operational_snapshot"}, identity : BOOLEAN, contract : BOOLEAN,
          version : 1..3, reasonOk : BOOLEAN]
    \cup [type : {"global_event"}, identity : BOOLEAN, event : {"sessions.changed", "other"},
          dataOk : BOOLEAN]
    \cup [type : {"session_event"}, identity : BOOLEAN, known : BOOLEAN, dataOk : BOOLEAN,
          lane : BOOLEAN, conversation : BOOLEAN, session : 0..1, previous : 0..1,
          event : {"session.title", "session.info", "session.transcript.committed",
                   "session.external_delivery", "message.delta"}]

Acceptable(f) ==
    CASE f.type = "rpc_cancel_ack" -> CancelAckOk(f)
      [] f.type = "runtime_snapshot" -> RuntimeSnapshotOk(f)
      [] f.type = "operational_snapshot" -> OperationalSnapshotOk(f)
      [] f.type = "global_event" -> GlobalEventOk(f)
      [] f.type = "session_event" -> SessionEventOk(f)

BadFrames == {f \in Frames : ~Acceptable(f)}

(* The connection is closed with 4400 for a frame that is not acceptable.  *)
BadFrame ==
    /\ link.state = "open"
    /\ BadFrames # {}
    /\ link' = [link EXCEPT !.state = "closing"]
    /\ UNCHANGED <<calls, inFlight, tombs, counted>>

(* Mutant: the snapshots under way are left to their deadlines. *)
RejectedWithoutSnapshots(cs) ==
    [c \in Calls |-> IF cs[c].state = "pending" /\ c \notin SnapshotCalls
                     THEN [cs[c] EXCEPT !.state = "ended", !.outcome = "offline",
                                        !.chunked = NoChunks]
                     ELSE cs[c]]

(* detach: every call that is under way ends *)
RejectedAll(cs) ==
    [c \in Calls |-> IF cs[c].state = "pending"
                     THEN [cs[c] EXCEPT !.state = "ended", !.outcome = "offline",
                                        !.chunked = NoChunks]
                     ELSE cs[c]]

DetachLink ==
    /\ link.state # "gone"
    /\ link' = [link EXCEPT !.state = "gone"]
    /\ calls' = RejectedAll(calls)
    /\ inFlight' = 0
    /\ UNCHANGED <<tombs, counted>>

AttachLink ==
    /\ link.state = "gone" /\ link.number < MaxLinks
    /\ link' = [link EXCEPT !.number = @ + 1, !.state = "open"]
    /\ UNCHANGED <<calls, inFlight, tombs, counted>>

RequestsNext ==
    \/ \E c \in Calls : Request(c) \/ SendFails(c) \/ TimeOutRpc(c) \/ TimeOut(c)
    \/ ForgetOldest
    \/ \E c \in Calls : WholeResponse(c) \/ MalformedResponse(c) \/ ResponseEnd(c)
                        \/ NativeAck(c) \/ CancelAck(c)
    \/ \E c \in Calls, v \in Versions : ResponseStart(c, v)
    \/ \E c \in Calls, chunk \in Chunk : ResponseChunk(c, chunk)
    \/ \E c \in Calls, matches \in BOOLEAN : RuntimeSnapshot(c, matches)
    \/ BadFrame
    \/ DetachLink
    \/ AttachLink

(* setTimeout fires *)
RequestsFairness == \A c \in Calls : WF_requestVars(TimeOutRpc(c) \/ TimeOut(c))

RequestsSpec == RequestsInit /\ [][RequestsNext]_requestVars /\ RequestsFairness

-----------------------------------------------------------------------------

RequestsTypeOK ==
    /\ link \in [number : 1..MaxLinks, state : {"open", "closing", "gone"}, cancel : BOOLEAN]
    /\ calls \in [Calls -> [state : {"new", "pending", "ended"}, on : 0..MaxLinks,
                            chunked : [version : {0} \cup Versions, chunks : Seq(Chunk)],
                            outcome : {"none", "answered", "error", "timeout", "offline"},
                            body : Seq(Chunk)]]
    /\ inFlight \in 0..Cardinality(Calls)
    /\ tombs \in Seq([call : RpcCalls, on : 1..MaxLinks, dispatched : BOOLEAN,
                      acked : BOOLEAN, late : BOOLEAN])
    /\ counted \in [timedOut : Nat, dispatched : Nat, failed : Nat, late : Nat, acked : Nat]

(* No call waits on a connection that is gone: what is pending is pending  *)
(* on the connection there is.                                             *)
PendingHasLink ==
    \A c \in PendingSet(calls) : link.state # "gone" /\ calls[c].on = link.number

(* A response that came in parts is handed on only if it is all the parts  *)
(* of one response, in their order, although a Gateway may begin again.    *)
DeliveredWhole ==
    \A c \in RpcCalls : calls[c].body # <<>> =>
        \E v \in Versions : calls[c].body = [i \in 1..ChunkCount |-> <<v, i>>]

(* The counters of timed-out calls add up: what came late, was cancelled   *)
(* or could not be cancelled is not counted twice, over reconnections and  *)
(* evictions; and the tombstones are bounded.                              *)
TombstonesAddUp ==
    /\ Len(tombs) <= MaxTombstones
    /\ counted.late <= counted.timedOut /\ counted.acked <= counted.timedOut
    /\ counted.failed <= counted.dispatched /\ counted.dispatched <= counted.timedOut
    /\ Cardinality({i \in DOMAIN tombs : tombs[i].late}) <= counted.late

(* Calls are accounted for: none waits on a connection that is gone, parts *)
(* are put together rightly, the counters of those that timed out add up.  *)
CallsAddUp == RequestsTypeOK /\ PendingHasLink /\ DeliveredWhole /\ TombstonesAddUp

(* An outcome is final: what a Gateway sends after a call has ended, by    *)
(* whatever path, does not reach its caller.                               *)
OutcomeIsFinal ==
    [][\A c \in Calls : calls[c].state = "ended" => calls'[c] = calls[c]]_requestVars
=============================================================================
