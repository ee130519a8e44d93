# Hermes Hub Server Router: a verification project in TLA+

The Router sits between a Flutter client and the Gateway Plugin of a Hermes
Agent. It is one Node process: every handler runs without interruption up to
its next `await`, and everything that is hard about it happens between
handlers, between a handler and the file it saves, and between the Router and
sockets that deliver late or not at all. The modules here model those
handlers and the two scripts that install and start the Router; TLC checks
them on small instances, and TLAPS proves the most important properties for
every size of instance. Paths below are relative to the repository.

## 1. The system

| Component | State | Operations | Talks to |
|---|---|---|---|
| Pairing store (`src/features/pairing/pairingStore.ts`) | pairing requests, each with its credential, its state and its claim; one JSON file | create (with replacement), approve, enroll with a ticket, claim, verify a Gateway, reload | pairing routes, the registry's upgrade |
| Pairing rate limiter (`pairingRateLimiter.ts`) | counters by scope and source | admit or refuse an attempt | pairing routes |
| Gateway registry (`src/features/gateway/gatewayRegistry.ts`) | a WebSocket per Gateway id, its credential state, hello and Agent status, pending requests | attach, detach, hello, status, heartbeat, activation, RPC, native messages | pairing store, supervisor, Gateways |
| Liveness supervisor (`gatewayLivenessSupervisor.ts`) | Agent -> connection, misses | probe, outcome, ready, disconnected | registry |
| Requests and tombstones (`gatewayRequestTombstones.ts`, `requestByAgentId`) | pending calls, what became of timed-out calls | call, time out, cancel, whole and chunked response | registry |
| Native message handlers (`bridgeServer.ts`) | the request under way, across an `await` | submit, resubmit, settle | conversation store, registry |
| Conversation store (`src/features/sessions/nativeConversationStore.ts`) | conversations with their Hermes session, aliases, submissions, prompts; one JSON file | begin and update a submission, session event, reconcile lineages, adopt, prompts | message and prompt routes, registry callbacks |
| Session lineage (`sessionLineage.ts`) | none | group the rows of a directory into chains | conversation store |
| Prompt responses (`handleNativePromptResponse`) | pending prompts | register, answer, resolve | conversation store, registry |
| Session directory cache and metadata (`sessionDirectoryCacheStore.ts`, `sessionMetadataStore.ts`) | lists by query; categories | put, get, invalidate; set, delete, copy | session routes, `sessions.changed` |
| Message pages, sync, reconcile (`sessionMessagePage.ts`, `sessionHistoryCursor.ts`, `bridgeServer.ts`) | a cursor; shared calls and heads; a pool of workers | read a page, read conditionally, compare | session routes, registry |
| Client event hub (`src/features/realtime/clientEventHub.ts`) | per scope a cursor and a bounded journal; subscribers | attach with replay, publish, trim, evict | session events, client WebSockets |
| Pending frames (`pendingRealtimeFrames.ts`), SSE writer (`boundedSseWriter.ts`) | a bounded buffer; a bounded queue with a drain timer | append, take; write, drain, flush, fail | a stream's reader |
| Push notifications (`src/features/notifications`) | registered tokens in an encrypted file, events seen | register, remove, dispatch | provider, session events |
| Cron and Kanban bridges, features (`cronBridge.ts`, `kanbanBridgeAdapter.ts`, `agentFeatureCapability.ts`) | none; a cache of what was found | translate, check, call, project | the Hermes host, by RPC |
| Installer (`server-router-installer.mjs`) | the files of an installation, a service | install, update, uninstall | release source, systemd |
| Launcher (`router-local-env.mjs`) | approval token in two files, a record of the process | init, rotate, clear, run, stop | processes |
| Private state files (`privateStateFile.ts`) | temporary file, rename, fsync | atomic save | all stores |
| The rest | projections, repository adapters, diagnostics, bridge tokens, observatory | stateless translation, observation | |

### What makes them correct, and what makes that hard

* **Pairing.** One credential of an Agent is active, a Gateway id stands for
  one, nothing becomes active without a claim, nothing revoked comes back.
  Hard: long sequences of legal calls that replace, expire and re-pair; saves
  that throw after the rename; files of an earlier Router.
* **Gateway connections.** An Agent has one route, the one the pairing store
  made active, and a route that stops answering is ended. Hard: frames of a
  superseded socket, rotation while a hello is under way, a heartbeat whose
  outcome belongs to an earlier connection.
* **Calls.** A late, repeated or chunked answer reaches its own caller or
  nobody. Hard: the deadline, the cancellation and the close race the parts.
* **Native messages.** A message reaches Hermes at most once; what a client is
  told is true and stays so. Hard: deadline against acknowledgement, restart
  between dispatch and outcome, a save that throws.
* **Conversations, prompts, lists, transcripts.** What a client reads is of its
  conversation, of one revision, and not from before a change it was told of.
  Hard: directory responses that are older than the events handled before them,
  merges while something waits, two devices that answer one prompt.
* **Realtime events.** A client that resumes misses nothing or is told so.
  Hard: trimming, eviction, restart, slow clients.
* **Operator scripts.** An update leaves a whole package and its secrets, a
  stop ends Routers only. Hard: kills between two writes, stale pids, a release
  published in the middle of a download.

`PROJECT.json` lists the hazards, each at its line, with the properties that
cover it or the reason none does.

## 2. Modules, and how they are composed

`PROJECT.json` maps each definition to its lines. The general rules: a public
operation or a handler that does not await is one step; an `await` ends a step;
a save is part of the operation that makes it; a timer is an action that may
fire; ids that are random are slots or model values; a check of a secret (code,
ticket, token, signature) that fails refuses the request without a change, so
that only right ones are modelled.

Operators marked `Mutant:` stand before some definitions: the definition as a
plausible slip would have it. They are used by nothing; with one in place of
its original the property it is meant for fails. A property that joins several
has several of them, of which `PROJECT.json` lists one.

Several runs check modules that do not share state in one model: the MC module
has a variable `part` that says which module moves, the others keep one initial
state. The states are the sum of those of the parts, and each part is explored
in full. Properties of such a run join those of its parts under a name.

| Model | Modules | Properties |
|---|---|---|
| `MCPairingHistory` | `PairingStore`, `PairingHistory` (an instance of `CredentialLedger`) | pairing |
| `MCGatewayRegistry` | `GatewayRegistry` over `CredentialLedger` | routes |
| `MCGatewayCalls` | `GatewayRegistry`; `GatewayRequests`; `CronBridge`; `KanbanBridge`; `FeatureProbe`; `StreamWriter` | what is done over a route |
| `MCClientEvents` | `ClientEventHub`; `PendingFrames`; `PairingRates` | streams and limits |
| `MCNativeSubmission` | `NativeSubmission` | messages with saves that throw |
| `MCRestarts` | `NativeSubmission` with saves that succeed; `PushDelivery`; `RouterInstaller`; `LocalRouter` | what outlives a process |
| `MCSessions` | `ConversationLanes` over `SessionLineage`; `PromptResponses`; `SessionDirectory`; `HistoryPaging`; `TranscriptSync`; `SessionReconcile`; `SessionLineage` on the directories of `LineageInputs` | sessions |

### Pairing: `PairingStore`, `PairingHistory`, `CredentialLedger`, `PairingRates`

| Model | Code |
|---|---|
| `records`, `file` | the `Map` of `PairingStore` and its JSON file |
| `cred`, `state` of a record | `agentId`, `gatewayId`, `gatewayToken`; `credentialState` ("unset" where an earlier file has none) |
| `Create`, `Approve`, `Enroll`, `Claim`, `Expire` | `create`, `approve`, `enroll`, `claim` with `claimRecord`; the clock |
| `Restart` | the constructor: load and `reconcileCredentialStates`, which saves |
| `Save` | `savePrivateFileAtomic` and the `catch` that puts the memory back |
| `buckets`, `counted` in `PairingRates` | the limiter's buckets; the times of what it let in, in order, for the properties |

`CredentialLedger` has no requests, file or devices: a credential is unknown,
offered, active or retired, and an Agent's active credential changes by one
switch, from an offered one. `PairingHistory` maps the records to it and adds
the credentials that lost their route without a new enrollment. `VerifiedAs`
and `ClaimRecoverable` say how the store answers what changes nothing.

### Gateways: `GatewayRegistry`, `GatewayRequests`

| Model | Code |
|---|---|
| `gateways`, `conn` | `GatewayRegistry.gateways` and each `TrackedGateway` with its WebSocket |
| `tracked`, `probing` | the supervisor's map, and the probes without an outcome |
| `status` | the pairing store, as `CredentialLedger` |
| `Connect`, `Hello`, `AgentStatus`, `Ack`, `Mismatch`, `Reject` | the upgrade handler with `attach`; `handleMessage` and what it calls |
| `HelloTimeout`, `Detach`, `Probe`, `ProbeNothing`, `Miss` | timers and the `close` of the socket; `probe`, `runProbe`, the heartbeat's deadline |
| `Claim`, `RecoverClaim` | `reserveCredentialActivation`, the store's claim, `synchronizeCredentialActivation` |
| `calls`, `inFlight`, `tombs`, `counted` | `pendingRpc`, `pendingNativeRequests`, `pendingRuntimeSnapshots`; the tombstones and their counters |
| `Request`, `TimeOutRpc`, `WholeResponse`, `ResponseStart/Chunk/End`, `CancelAck`, `RuntimeSnapshot`, `BadFrame` | `requestByAgentId`, its timer, the frames of `handleMessage` |

The three parts of a claim are one step because nothing is awaited between
them; a crash between the store's save and the runtime switch is a `Restart`
right after `Store!Promote`. `LateFrames` is how `ws` treats a frame that is
already in its receiver when the Router calls `close`. A Gateway may send any
frame about any call it was given, in any order, again, late or malformed.

### Over a route: `CronBridge`, `KanbanBridge`, `FeatureProbe`, `StreamWriter`

Each Cron request is matched with its route and permission (`AskCron`), makes
its first call, and a second one where the code has two; the host may lose an
answer after it made the change, and jobs change in between (`HostEdits`). A
Kanban request is planned, checked and called once (`Plan`, `AskKanban`), the
host answers something or nothing, and the projection refuses an answer of
another shape. `FeatureProbe` has a clock: what is told of an Agent's features
was true within the time it may be kept. `StreamWriter` has the response as its
environment: it drains, fails, closes or does nothing.

### Messages and conversations: `NativeSubmission`, `ConversationLanes`, `PromptResponses`

| Model | Code |
|---|---|
| `store`, `file`, `flight`, `told` | conversations and submissions in memory and on disk; the handler at its `await`; the last answer for a submission |
| `Submit`, `SubmitToNewConversation`, `Resubmit`, `Settle` | `handleNativeSessionMessage`, `handleExternalSessionMessage`, before and after the `await` |
| `AckAccepted`, `AckRefused`, `AckInvalid`, `Lost` | the acknowledgement frame, `cleanNativeAck`, `rejectAmbiguous` |
| `conv`, `lane`, `subs` of `ConversationLanes` | conversation records, the `lanes` map with its copies, submissions |
| `HandleResponse` | `projectSessionList`: lineages, `reconcileSessionLineages`, `ensureForSessions` |
| `Ask`, `LoseResponse` | the legacy reconciliation, a list request |
| `SessionEventOn`, `Acknowledge`, `Adopt`, `Reload` | `acceptSessionEvent`, `updateSubmission`, `adoptExternalSession`, `load` |
| `prompt`, `answers`, `arriving` | a prompt record; the handlers of two devices; frames on their way |

`Take` is the Gateway and not the Router: a message that was sent is taken at
any later time, before, after or without its acknowledgement. Sessions of a
conversation are numbers in the order of their compressions, so that "an
earlier session" is `<`.

`ConversationLanes` uses the lineage algorithm itself on the rows of a
response. The agreement of lanes and submissions is stated for conversations
that are not adopted: `cleanConversation` accepts a superseding id of the native
form only, so that an alias of an adopted conversation is a conversation of its
own after a reload (`LoadedConversation`, a hazard of `PROJECT.json`).

### Lists and transcripts: `SessionDirectory`, `HistoryPaging`, `TranscriptSync`, `SessionReconcile`, `SessionLineage`

`SessionDirectory` has the cache entries with their age, the list handlers and
the four kinds of change, each waiting once for the Gateway, and the category of
a session. `HistoryPaging` takes the page algorithm from `sessionMessagePage.ts`;
`bridgeServer.ts` returns at line 3942, before its own use of it, and the
Gateway pages by the same rule. A transcript may change between any two pages,
and the Gateway may still answer from the revision of the cursor.
`TranscriptSync` and `SessionReconcile` have calls that end in any order.
`LineageInputs` says what a directory is (`IsDirectory`: two rows of one session
are equal, since they are answers of one Hermes about it) and what the grouping
should be, by the parents of the rows and without the walk; which `Directories`
there are is a constant. `MCSessions` takes those of up to three rows
(`MCDirectories`): plain and collapsed ones, rows of another source,
forks, rows that started before their parent ended, and a session shown twice.
What is stated of hints is stated where they name roots (a hint that names a row
which itself has another root is not something Hermes lists).

### Clients: `ClientEventHub`, `PendingFrames`, `PushDelivery`

`hub` is `ScopeState`, `journals` the key order of `scopes` (an LRU queue),
`sockets` the subscribers with the frames on their way; `Attach`, `Publish`,
`Heartbeat`, `Expire`, `Detach` are the hub's operations, `Restart` a new process,
`client`, `Read`, `Pong`, `Leave` the client. `PushDelivery` has the registry in
memory and on disk, the events seen, and one dispatch per event that waits for
the provider before each device.

### Scripts: `RouterInstaller`, `LocalRouter`

An installation is a sequence of steps over the files of a release; the source
may publish another release in between, every step may fail, and the installer
may be killed after each. `SwapPackage` has the staging and the renames as steps
of their own, and `PutBack` the rollback. `LocalRouter` has the two places of the
approval token, each write a step, and processes with pids that are given again
(`born` tells one from the next).

## 3. The runs

| Run | Shows |
|---|---|
| `pairing` | one active credential of an Agent, one credential per Gateway id, in memory and on disk (`CredentialsAreUnique`); no activation without a claim (`ClaimsHold`); no revival, no device loses its pairing to another's; the store implements the ledger |
| `pairing_reuse` *(violation)* | a replaced request that was approved blocks the Agent's active credential for the operator |
| `pairing_ticket` *(violation)* | re-pairing a device with another Gateway removes the record that the old credential was revoked; an approval without a ticket accepts it |
| `gateway_registry` | one route per Agent, the one the store made active, whole, not revived, not ended by another connection's misses; frames are handled while the socket closes |
| `gateway_stale_hello` *(violation)* | with such frames a late hello takes the supervisor to the superseded connection |
| `gateway_calls` | without such frames the supervisor watches the route and a silent one ends; calls, chunks, cancellations and counters; Cron, Kanban, features and streams tell the truth (`AnswersAreTrue`); every call ends |
| `client_events` | the journal is the tail of the events; a client has no gap it is not told of; bounds hold, and quiet restores what a limit refused; subscribers whose client has gone are detached |
| `client_restart` *(violation)* | a cursor of the previous run is accepted by the new one: events are skipped without `bridge.resync_required` |
| `native_submission` | at most one dispatch, true answers, settled records and bindings that move forward only, with saves that throw |
| `restarts` | with saves that succeed a 202 stays a 202; events are pushed as asked, once; an installation is whole or the one before; secrets and token change by their commands only; stops end Routers |
| `sessions` | conversations, lanes and submissions agree; responses only merge; one answer to a prompt counts and an open prompt can be answered; the cache follows changes; a walk over pages is one transcript; lineages are the chains; every wait ends |
| `directory_invalidation` *(violation)* | a list fetched before `sessions.changed` is stored as fresh after it and served |

Each violation is a finding in `PROJECT.json` with the line of the repository
that says otherwise.

### Bounds, and why they are enough

* *Pairing*: three requests, two devices, two Agents, four credentials,
  `MaxLive = 2`. A rotation with a replaced request takes three requests. The
  credentials are two Gateways of one Agent, a second token for the first, and
  the second Gateway's id under another Agent: one for each conflict `approve`
  looks for. The initial files are an empty one and two of an earlier Router.
  `pairing_reuse` needs a fourth request to be refused.
* *Gateways*: one Agent, two Gateways, three connection slots (the route, its
  successor, the candidate of a claim); two slots where the question is about a
  route and its successor. Agents share nothing here but the maps' keys.
* *Calls*: two RPC calls, of which one is answered in two parts, with a native
  or a snapshot call beside them (they share the count of calls in flight); one
  tombstone, so that the second timeout evicts the first; two connections in
  succession. One Cron request over two jobs with one edit by others, one Kanban
  request over two tasks with one move of the host, all operations and
  permissions of both. One feature, kept for 2 or 1 units of a clock that runs
  to 5: it can expire and be found again. A stream of three values of sizes that
  fit, fill and exceed its limit, with two flushes.
* *Events*: two scopes, one client with two sockets (an old one that is still
  subscribed and a new one), a journal of two small events or one large one,
  one journal at most, two runs of the Router. Frames: a buffer of two, four
  appended, sizes that fit, fill and exceed it. Rates: two sources, two scopes
  with different windows, limits 1 (source) and 2 (all), three keys for the four
  there could be.
* *Native messages*: two submissions of one conversation, or one native and one
  reply to an adopted conversation; two sessions, so one compression.
* *Sessions*: a chain of three sessions and three conversations, so that two
  merges can come one after the other; one submission. `PartialPages = FALSE`:
  responses show the chain from its root, or its two ends. Two devices answer,
  four prompt events, two reconnections. Two queries for a cache of one entry,
  two lists and one change under way at once. Three revisions of a transcript of
  up to four messages; pages of two. Two syncs, two workers for three items.
  Directories of up to three rows (`MCDirectories`, see above).
* *Restarts*: two devices and one event that arrives twice; two installations,
  two releases, one published meanwhile, two runtime files and one package file
  beside its manifest, starting from another release than the one served; two
  terminals, two pids, two tokens.

### Fairness

Fairness is weak and of single modules' own steps; nothing is assumed of
clients, Gateways, Hermes hosts or operators, except that a user who wants no
Router gives `stop` again and again.

* Timers fire, because Node's do: heartbeat interval and deadline, hello timer,
  the deadlines of calls, requests, prompts and syncs, the drain deadline, the
  provider's ten seconds, the time to live of a list.
* A socket that is being closed or was terminated closes in the end (`ws`
  destroys it after its own timeout).
* A promise that is settled goes on: `Settle`, `PoolSteps`, the steps of a push
  dispatch, of a Cron or a Kanban request.

`CallsProgress`, `SessionsProgress` and `RestartsProgress` have the form
`<>[](nothing waits)`: each call, answer, sync and dispatch is made at most once
in an instance, so that "in the end nothing waits" says that each ends, and it
is cheaper to check than one leads-to for each. `SilentRouteEnds` and
`StaleRowsEnd` are about things that come again: a route that stays up for good
is answered for good, and a stale row is fresh for a time only.
Deadlock is not checked in the sums: their parts are bounded and stop when the
bound is reached.

## 4. The proofs

TLAPS checks these for every value of the constants that satisfies the
modules' assumptions.

`PairingStoreProofs`: type correctness, `CredentialsAreUnique` (one active
credential of an Agent, one credential of a Gateway id), `ClaimsHold` (active
implies claimed; claims are settled), `NoRevival`, `OtherDevicesKept`. The
invariants are not inductive one by one: an approval keeps one credential active
only because the record it inherits "active" from is itself claimed and its
Gateway stands for one credential. The inductive invariant is their conjunction
`Good`, of the memory and of the file; the file needs it because a save that
throws may have replaced it, and a restart loads it. One lemma per operation
says that it takes a good set of records to a good one; `SaveKeepsGood` lifts
that to every outcome of a save; `GoodIsLoadable` and `ReconciledIsGood` do the
restart. Assumed: a credential's Agent is an Agent, names of free slots are no
members, the initial files are loadable. The action properties need
`Follows(records, file)`: what no operation may do, the file must not have done
behind the memory's back.

The same module has the refinement, `HistorySpec => ImplementsLedger`. It
reads a ledger status for each credential off the records (`StatusOf`), shows
for each operation that the new records are one ledger step from the old ones,
that the clock and the reload of a good file change no status, and keeps
`Ahead(records, file)`: the file is at most one ledger step ahead of the memory.

`GatewayRegistryProofs`: type correctness, `RoutesAreRight`, `FlagsAgree`,
`RevokedStaysOut`, `OwnMissesOnly`. Its store is the ledger of which the
previous theorem speaks. That an Agent has one route is not inductive: it
follows from `Backed` (an active tracked connection has an active credential of
its Agent and Gateway in the store), one active credential per Agent in the
ledger, and one tracked connection per Gateway id. `Sound` is what the handlers
leave of a record; a revoked one has a socket that is not open, which is why no
claim can take it up again. `LivenessFollowsRoute` assumes `~LateFrames`: where
no frame comes after the Router's close, a superseded connection is heard no
more (`Owned`: each open socket is attached), and the handlers that make a route
also tell the supervisor. Without the assumption it is false, which the finding
of `gateway_stale_hello` shows.

`NativeSubmissionProofs`: type correctness, `AtMostOnce`, `OutcomesAreTrue`,
`SubmissionsFollowLanes`, `RequestsSettle`, `LaneNeverRollsBack`. `AtMostOnce`
says nothing of files, but it holds because of them: what was sent is on disk
(`Traced`), the submissions of the file are among those of the memory
(`Stores`), and a submission that is known is not dispatched. `Traced` also
follows each record's state back to what the Gateway did, which gives the two
truths about answers. `Good` relates the session of a submission to its lane's;
`Grown` is the order in which lanes move. `AcceptedSurvives` assumes
`~DiskFails`: then file and memory are one (`Kept`), only a pending record has a
request under way, and what a client was told is in the record.

`GatewayRequestsProofs`: `CallsAddUp` and `OutcomeIsFinal`, for finitely many
calls. The bound on the counters is not inductive: late and timed-out calls are
counted by different handlers, between which a tombstone may be evicted.
`Balanced` counts the tombstones by their calls: a call has at most one, so that
a first late frame moves one call from those not yet heard of to the counter,
and eviction only takes calls away. That a call has at most one tombstone holds
because a buried call has ended (`TombsInv`) and only a pending one times out. A
body that was put together is that of one version in order (`Whole`), whatever
chunks came before.

`SessionProofs`: `PromptsAreSound`, `DirectoryIsSound`, `ReadsAreWhole`,
`LineagesSound`, and for the conversations `LanesAreSound` and
`ResponsesOnlyMerge`. That at
most one device is told its answer counts rests on `Won`: an answer has won when
the Gateway has taken it and the acknowledgement is on its way or has come.
Before the Gateway has taken any, it sends the question only and nothing settles
the prompt (`PromptUntaken`); that no device is called "prompt" is assumed, and
keeps the subjects of the frames apart. Of the cache the invariant says, for each
position of the sequence, that its query was put since the last invalidation and
stands at no other position; removals and evictions move positions, so that the
proof rests on what `RemoveAt` and `SubSeq` leave. A walk over pages relates the
cursor to what was read: the pages so far are the end of one transcript, and the
cursor says where it begins (`WalkHasTheEnd`); transcripts are only added, so the
walk can go on whatever is committed meanwhile. A shared sync was asked for a
revision there was and has read none older (`CallsAreOfRevisions`), and who waits
for it asked for that one. In a reconciliation an index that was taken is
compared or still held by a worker; that there is a worker is assumed, as the
code's `Math.min(4, items.length)` has it.

The lineages are a computation and not a behaviour: the theorem is about every
directory, of any length and order and with any parents, cycles among them. The
recursive functions of `SessionLineage` are taken round by round, from a least
counterexample (`UpTo`) and from a first round that is shown to exist
(`HistoryExists`). Of each round of the walk `WalkInv` says: what it has seen
came of the root, what follows a seen session is seen or still on the stack, a
path leads there from the root by parents, and the best so far is no worse than
what was seen. The walk ends because each session it takes leaves fewer rows
`Unseen`. Hints are then joined one by one. Assumed is only that a directory
shows one session with equal rows (`DirectoriesAssumption`, which TLC evaluates
for its directories).

The conversations rest on that: a response that shows a whole chain has one
lineage (`WholeChain`) and its tip is the newest session shown (`ChainTip`), so
that one round of merging makes every candidate an alias of one conversation
(`MergeOf`). In `LanesInv`, an alias and what it was merged into are both known
to stand for the first session of the chain, and that one is no alias itself
(`AliasesMerged`): chains of aliases are one step long, whatever the order of
responses, and following them ends. The lane of an id is then what a reload
would make of the records (`LaneCopies`), so that a reload changes nothing, and
a submission's conversation is no alias and is what its lane leads to, or is of
the same chain where it was adopted (`SubBound`). A response leaves one conversation with the sessions
it shows, and no step but a response moves one, which is `ResponsesOnlyMerge`.
Both are for any number of conversations, sessions and submissions, and assume
`~PartialPages`, that a response shows the chain with its root. This is not for
convenience: where pages may leave the root out, a conversation can be given a
later session as its root, after which an alias is no candidate of the next
response and its lane keeps an older record. `AliasesResolve` alone still held
when TLC checked the instance with `PartialPages = TRUE`; `LanesAreCurrent` and
`SubmissionLaneAgrees` did not (see 5).

`RestartProofs`: `PushedOnce` and `EveryDeviceTried` whatever saves fail, and
`PushAsAsked`, which says beside them that an unregistered device stays so, where
they do not (`~PushDiskFails`); `LauncherIsSound`, `InstallIsSound`,
`SecretsStay`. A dispatch divides the devices that were due into those tried, the
one it waits for and those left (`DispatchDivided`); what was pushed of an event
and is left of it does not exceed what is remembered or was forgotten of it
(`PushesCounted`). For the tokens, neither of the two files holds one that is
retired, and `OrderAtWork` says what the command under way has read and written
so far, which is all that a kill can leave. For the processes, the start that is
recorded for a pid is a Router's: who gets the pid later was born later
(`RecordedIsRouter`). For the installer, what is fetched of a package is of the
manifest's release (`PackageFetched`), a package that was there is away only
while the new one is moved to its place (`PackageThere`), and as long as nothing
is published all that a run has fetched and written is of the release that is
served (`FreshFetched`, `FreshWritten`). `SecretsKept` and `TokenKept` follow
step by step; `None` and `Malformed` are assumed not to be numbers of runs, by
which new secrets are told apart.

`BridgeProofs`: `AnswersAreTrue`. What a Cron request has changed can be told
from its last call (`ChangedByNow`): all the calls before it, and that one if
the host said so. That scripts stay as they are holds for requests that were
asked before anyone edits jobs at the host, and needs that the job such a request
has in hand is a prompt, or gone, until its change arrives (`JobsInHand`). A
Kanban request is handled as often as its payload says, and an open one has not
been answered but for a failure; its moves are those its plan was made for
(`PlansAreMeant`, one case per operation). For the features, one that is offered
was there at this very moment, one that is not was missing at it, so that what
is found counts from there. The writer keeps a counter of queued bytes, which
the code adds to and takes from item by item: that it is the sum of what is
queued needs facts about sums (`SumsAre`, `BytesDivided`), proved by a least
counterexample since the library's induction theorem cannot be used; the bytes
on the wire and in the queue together are those accepted (`WireThenQueue`), and
a flush that is resolved has everything before it on the wire (`FlushesAfter`).

`ClientEventProofs`: `JournalIsTail`, `ClientsHearAll`, `LimitsHold`, for any
scopes, clients, events and limits. The loops of the code come first: `Kept` is
what a filter leaves, in order (`KeptPlaces`, `KeptCount`), and the trims are
taken turn by turn, all from a least counterexample. `HubInv` then says that each
journal is whole and that each attached client is served (`Serves`): the frames
on their way take it from its cursor step by step, each by the event of the next
cursor or by a resynchronisation, and end at the scope's cursor if its socket is
open. A greeting establishes it (`GreetingTells`): the replay starts right after
the accepted cursor because the journal is the tail, and a cursor that the journal
no longer covers is answered with `bridge.resync_required`. A send that fails
closes the socket, which is then owed nothing more than what it has. That idle
journals are bounded is so after every call that prunes, whoever it protects:
the loop takes as many idle scopes as there are too many, or all of them
(`PruneBounds`). `FramesInv` has the frames in order and no more to trim
(`Settled`): a terminal frame is given up only where another one is left. Of the
rate limit, `Fair` says for a key that its bucket stands for the attempts since
the window opened, and that what was counted as many attempts before that as a
window admits is older than a window; two windows filled back to back are then
the worst there is. The bounds on runs, events and pushes are constants of the
instances and arbitrary in the theorems.

Only model-checked:

* liveness under fairness, which is beyond the prover: `SilentRouteEnds`,
  `CallsProgress`, `GoneAreDetached`, `RestartsProgress`, `SessionsProgress`.
  Every invariant and every other action property of a passing run has a theorem;
* what the theorems assume away: conversations under `PartialPages = TRUE`, and
  whatever else a theorem's `ASSUME` names, is checked at most on an instance.

## 5. What was seen on the way

Beside the findings, behaviours that the models have and that no property calls
wrong, for whoever changes this code:

* *Pairing*: the live limit is checked on create only. A claim compares Gateway
  and Agent, not the token with which the route was authenticated
  (`gatewayRegistry.ts:1185`): it may take up a connection made with an earlier
  token of the same Gateway. Attempts are counted before the body is read and
  also when the Router refuses them; `Retry-After` of a refusal by the table of
  keys is not the time after which it will be admitted.
* *Messages*: a save that throws in `beginSubmission` leaves a pending record
  that was never sent, and retries get 409. When the save of an acceptance
  throws, duplicates are told 202 from memory, and after a restart the same
  submission is ambiguous. A malformed acknowledgement of a message that was
  taken marks the submission failed (constant `Unusable`).
* *Conversations*: with pages that leave out the root of a chain
  (`PartialPages`) a conversation can be given a root that is not the chain's,
  and a late event can then move it back; a conversation merged earlier is then
  no candidate of a response, and the copy in its lane stays behind the record.
  A device that tracks an alias for push is not notified after the merge.
  Transcript heads are kept under the id a client used and under the canonical
  one. A late sync response sets the head of a transcript back until the next
  event.
* *Lists*: a category is kept under the id a client used and applied by the
  session's; setting one does not invalidate the cache. One conversation without
  a session makes a whole reconciliation answer 409.
* *Push*: an answer that a token is invalid removes the registration of the
  device, whatever token it has by now (`pushNotificationDispatcher.ts:52`). A
  registration whose save throws is answered 400 and kept in memory. A removal
  whose save throws, given again, is answered as done although the file still has
  the device, which is back after a restart (`pushDeviceRegistry.ts:88`).
* *Cron, Kanban*: a job is checked in one call and changed in another. A
  creation whose pause fails is answered as an error although the job exists.
  A Kanban request is validated before its permission is checked; a task that
  was created but answered in another shape is logged as rejected before
  dispatch.
* *Installer*: runtime files are fetched one by one without a manifest, so a
  release published meanwhile gives a mix (`OkIsComplete` excepts it); the
  Observatory's index is written before its assets; a kill between the two
  renames leaves no package until the next run.
* *Launcher*: a rotation killed between its writes leaves two tokens, and `run`
  refuses until one is chosen; a record whose pid is another program's makes
  `stop` refuse; a second `run` hides the first Router's record.

## 6. What is not modelled, and why

* `ensureDebugGateway`: a seed for development that production does not run.
* Native session projection, repository adapters, plugin source: pure reshaping
  and file reads, without state; a model would restate them.
* Bridge tokens and policy: cryptography, which a model would assume.
* Diagnostics and logs, metrics, the Observatory: observation only.
* Health, bootstrap, export, attachment and proxy handlers: one call each, with
  no state but that of the modules above.
* Contents: payloads, texts, schedules, HTTP statuses other than those that tell
  a client what became of its request. Permissions, paths, encryption and the
  provider's HTTP are I/O. The installer's macOS and Windows services differ
  from the Linux one in the commands they call, and have no model of their own.
