----------------------------- MODULE PairingStore -----------------------------
(***************************************************************************)
(* The Router's pairing store (src/src/features/pairing/pairingStore.ts):  *)
(* pairing requests, the Gateway credentials they carry, and the file the  *)
(* store is saved to.  One action per public operation; each operation     *)
(* edits the records in memory, saves the whole file, and puts the memory  *)
(* back when the save throws.  Node runs an operation without interruption *)
(* (none of them awaits), so each one is a single step.                    *)
(*                                                                         *)
(* Abstractions.  A clock is the flag `expired', flipped by Expire.  A     *)
(* pairing code, ticket or replacement token is either right or the        *)
(* request is refused without a change, so only the right ones are         *)
(* modelled.  A request id is a slot that becomes free when its record is  *)
(* deleted (ids are random, so nobody can tell a reused slot).             *)
(***************************************************************************)
EXTENDS Naturals, FiniteSets

CONSTANTS
    Requests,     \* slots for pairing requests
    Devices,      \* client device ids
    Agents,       \* Hermes Agent ids
    Credentials,  \* Gateway credentials: an Agent, a Gateway id and a token
    NoCred,       \* no credential: the request is not approved
    NoDevice,     \* the device of a free slot
    NoRequest,    \* create: no request is being replaced
    MaxLive,      \* MAX_LIVE_PAIRING_REQUESTS (64 in the code)
    StoredFiles   \* files an earlier Router may have left behind

VARIABLES
    records,      \* the Map the running store works on
    file          \* the content of the pairing store file

storeVars == <<records, file>>

CredentialState == {"unset", "provisional", "active", "revoked"}

Record == [present : BOOLEAN,
           device  : Devices \cup {NoDevice},
           cred    : Credentials \cup {NoCred},
           state   : CredentialState,
           claimed : BOOLEAN,
           expired : BOOLEAN]

Blank == [present |-> FALSE, device |-> NoDevice, cred |-> NoCred,
          state |-> "unset", claimed |-> FALSE, expired |-> FALSE]

Files == [Requests -> Record]

-----------------------------------------------------------------------------
(* What the store reads off a record *)

Approved(x) == x.present /\ x.cred # NoCred

Inferred(x) ==
    IF ~Approved(x) THEN "unset"
    ELSE IF x.state # "unset" THEN x.state
    ELSE IF x.claimed THEN "active" ELSE "provisional"

LivePending(x) ==
    x.present /\ ~x.claimed /\ ~x.expired /\ Inferred(x) # "revoked"

Prunable(x) ==
    x.present /\ ~x.claimed /\ x.expired /\ Inferred(x) \notin {"active", "revoked"}

Holders(f, k) == {r \in Requests : Approved(f[r]) /\ f[r].cred = k}

InState(f, k, s) == \E r \in Holders(f, k) : Inferred(f[r]) = s

(* verifyGateway: the state a Gateway that presents credential k is        *)
(* attached with; "refused" when the store throws                          *)
VerifiedAs(f, k) ==
    IF InState(f, k, "active") THEN "active"
    ELSE IF \E r \in Holders(f, k) : Inferred(f[r]) = "provisional" /\ ~f[r].expired
         THEN "provisional"
         ELSE "refused"

-----------------------------------------------------------------------------
(* Saving.  A save either works, or throws before the new file is in place, *)
(* or throws after the rename (chmod or fsync of the directory): in both    *)
(* failures the operation restores the memory and rethrows.                 *)

Save(new) ==
    \/ records' = new /\ file' = new
    \/ records' = records /\ file' \in {file, new}

-----------------------------------------------------------------------------
(* The operations, as functions of the records *)

Pruned(f) == [r \in Requests |-> IF Prunable(f[r]) THEN Blank ELSE f[r]]

(* Mutant: a replaced request gets a state of its own. *)
ReplacedAsExpired(f, old) ==
    IF old = NoRequest THEN f ELSE [f EXCEPT ![old].state = "expired", ![old].expired = TRUE]

Replaced(f, old) ==
    IF old = NoRequest THEN f
    ELSE [f EXCEPT ![old].state = "revoked", ![old].expired = TRUE]

Created(f, r, d) ==
    [f EXCEPT ![r] = [Blank EXCEPT !.present = TRUE, !.device = d]]

(* Mutant: an Agent that already has a route takes any approved Gateway. *)
ApprovedByAgent(f, r, k) ==
    LET shared == \E q \in Requests : /\ Inferred(f[q]) = "active"
                                      /\ f[q].cred.agent = k.agent
    IN  [f EXCEPT ![r].cred = k,
                  ![r].state = IF shared THEN "active" ELSE "provisional"]

ApprovedAs(f, r, k) ==
    LET others == Holders(f, k) \ {r}
        shared == \E q \in others : Inferred(f[q]) = "active"
    IN  [f EXCEPT ![r].cred = k,
                  ![r].state = IF shared THEN "active" ELSE "provisional"]

(* Mutants: a claim that revokes nothing, and one that overwrites the      *)
(* pairing of every device.                                                *)
PromotedOnly(f, r) ==
    [q \in Requests |->
        IF q = r THEN [f[q] EXCEPT !.state = "active", !.claimed = TRUE]
        ELSE IF Approved(f[q]) /\ f[q].cred = f[r].cred THEN [f[q] EXCEPT !.state = "active"]
        ELSE f[q]]

PromotedAlone(f, r) ==
    [q \in Requests |->
        IF q = r THEN [f[q] EXCEPT !.state = "active", !.claimed = TRUE]
        ELSE IF Approved(f[q]) /\ f[q].cred.agent = f[r].cred.agent /\ f[q].claimed THEN Blank
        ELSE IF ~Approved(f[q]) \/ f[q].cred.agent # f[r].cred.agent THEN f[q]
        ELSE [f[q] EXCEPT !.state = IF f[q].cred = f[r].cred THEN "active" ELSE "revoked"]]

Promoted(f, r) ==
    LET k == f[r].cred
        Overwritten(q) == /\ q # r
                          /\ Approved(f[q])
                          /\ f[q].claimed
                          /\ f[q].cred.agent = k.agent
                          /\ f[q].device = f[r].device
        Cut(q) == IF Overwritten(q) THEN Blank
                  ELSE IF ~Approved(f[q]) \/ f[q].cred.agent # k.agent THEN f[q]
                  ELSE [f[q] EXCEPT !.state = IF f[q].cred = k THEN "active" ELSE "revoked"]
    IN  [q \in Requests |-> IF q = r THEN [Cut(q) EXCEPT !.claimed = TRUE] ELSE Cut(q)]

(* reconcileCredentialStates, run by the constructor: the newest active    *)
(* record of each Agent names the one credential that stays active.  Which *)
(* one is newest is left open (timestamps are not modelled).               *)
ActiveCredentials(f, a) ==
    {k \in Credentials : k.agent = a /\ InState(f, k, "active")}

Winners(f) ==
    {w \in [Agents -> Credentials \cup {NoCred}] :
        \A a \in Agents : IF ActiveCredentials(f, a) = {}
                          THEN w[a] = NoCred
                          ELSE w[a] \in ActiveCredentials(f, a)}

ReconciledState(x, winner) ==
    IF winner = NoCred THEN Inferred(x)
    ELSE IF x.cred = winner THEN "active"
    ELSE IF x.state = "active" \/ x.claimed THEN "revoked"
    ELSE Inferred(x)

Reconciled(f, w) ==
    [r \in Requests |->
        IF Approved(f[r])
        THEN [f[r] EXCEPT !.state = ReconciledState(f[r], w[f[r].cred.agent])]
        ELSE f[r]]

-----------------------------------------------------------------------------
(* The steps *)

Create(r, d, old) ==
    LET kept  == Pruned(records)
        other == {q \in Requests \ {old} : LivePending(kept[q])}
    IN  /\ ~records[r].present
        /\ old # NoRequest => LivePending(records[old])
        /\ \/ /\ Cardinality(other) < MaxLive
              /\ Save(Created(Replaced(kept, old), r, d))
           \/ /\ Cardinality(other) >= MaxLive   \* refused: only the pruning is saved
              /\ kept # records
              /\ Save(kept)

Open(r) == records[r].present /\ ~records[r].expired     \* requireLive

(* Mutants: no conflict check on the Gateway id, no check that the request *)
(* is not claimed yet.                                                     *)
MayApproveAnyGateway(r, k, reenroll) ==
    /\ Open(r)
    /\ ~records[r].claimed
    /\ records[r].state # "revoked"
    /\ records[r].cred \in {NoCred, k}

MayApproveAgain(r, k, reenroll) ==
    LET bound == {q \in Requests \ {r} :
                     Approved(records[q]) /\ records[q].cred.gateway = k.gateway}
    IN  /\ Open(r)
        /\ records[r].state # "revoked"
        /\ records[r].cred \in {NoCred, k}
        /\ \A q \in bound : records[q].cred = k

MayApprove(r, k, reenroll) ==
    LET bound == {q \in Requests \ {r} :
                     Approved(records[q]) /\ records[q].cred.gateway = k.gateway}
    IN  /\ Open(r)
        /\ ~records[r].claimed
        /\ records[r].state # "revoked"
        /\ records[r].cred \in {NoCred, k}
        /\ \A q \in bound : records[q].cred = k
        /\ reenroll \/ \A q \in bound : Inferred(records[q]) # "revoked"

(* The operator's approval, and a Gateway's own with its one-time ticket.  *)
Approve(r, k) == MayApprove(r, k, FALSE) /\ Save(ApprovedAs(records, r, k))

Enroll(r, k) ==
    /\ ~Approved(records[r])                 \* the ticket is not consumed
    /\ MayApprove(r, k, TRUE)
    /\ Save(ApprovedAs(records, r, k))

(* Mutant: a claim that does not look at the credential's state. *)
ClaimableWhenRevoked(r) == Open(r) /\ Approved(records[r]) /\ ~records[r].claimed

Claimable(r) ==
    /\ Open(r)
    /\ Approved(records[r])
    /\ ~records[r].claimed
    /\ Inferred(records[r]) # "revoked"

Claim(r) == Claimable(r) /\ Save(Promoted(records, r))

(* A claim repeated by its client: the receipt is returned again and the   *)
(* store does not change.                                                  *)
ClaimRecoverable(r) ==
    /\ Open(r)
    /\ Approved(records[r])
    /\ records[r].claimed
    /\ Inferred(records[r]) = "active"

(* The clock passes expiresAt of request r. *)
Expire(r) ==
    /\ records[r].present \/ file[r].present
    /\ ~(records[r].expired /\ file[r].expired)
    /\ records' = [records EXCEPT ![r].expired = @ \/ records[r].present]
    /\ file'    = [file EXCEPT ![r].expired = @ \/ file[r].present]

(* The process dies and a new one loads the file. *)
Restart ==
    \E w \in Winners(file) :
        /\ records' = Reconciled(file, w)
        /\ file' = records'

Init ==
    \E f \in StoredFiles : \E w \in Winners(f) :
        /\ records = Reconciled(f, w)
        /\ file = records

Next ==
    \/ \E r \in Requests, d \in Devices, old \in Requests \cup {NoRequest} : Create(r, d, old)
    \/ \E r \in Requests, k \in Credentials : Approve(r, k)
    \/ \E r \in Requests, k \in Credentials : Enroll(r, k)
    \/ \E r \in Requests : Claim(r)
    \/ \E r \in Requests : Expire(r)
    \/ Restart

Spec == Init /\ [][Next]_storeVars

-----------------------------------------------------------------------------
(* Assumptions on the constants *)

ASSUME CredentialsAssumption ==
    /\ \A k \in Credentials : k.agent \in Agents
    /\ NoCred \notin Credentials

ASSUME NamesAssumption ==
    /\ NoDevice \notin Devices
    /\ NoRequest \notin Requests
    /\ MaxLive \in Nat

-----------------------------------------------------------------------------
(* Properties *)

(* At most one credential of an Agent is active, whatever order approvals, *)
(* claims, failed saves and restarts come in (claimRecord, approve,        *)
(* reconcileCredentialStates).                                             *)
OneActive(f) ==
    \A r, q \in Requests :
        /\ Approved(f[r]) /\ f[r].state = "active"
        /\ Approved(f[q]) /\ f[q].state = "active"
        /\ f[r].cred.agent = f[q].cred.agent
        => f[r].cred = f[q].cred

(* A Gateway id never stands for two Agents or two tokens at once: every   *)
(* record that names it carries the same credential (the conflict checks   *)
(* of approve).                                                            *)
Bound(f) ==
    \A r, q \in Requests :
        /\ Approved(f[r]) /\ Approved(f[q])
        /\ f[r].cred.gateway = f[q].cred.gateway
        => f[r].cred = f[q].cred

(* A credential is active only because some device has claimed it: an      *)
(* approval alone, a replaced prompt, a failed save or a restart never     *)
(* promotes one (README: a provisional Gateway carries no Agent traffic    *)
(* until a claim).                                                         *)
Anchored(f) ==
    \A r \in Requests :
        Approved(f[r]) /\ f[r].state = "active" =>
            \E q \in Holders(f, f[r].cred) : f[q].claimed /\ f[q].state = "active"

(* A paired device's record is settled: its credential is the active one   *)
(* or a revoked one, so a repeated claim is either recovered or reported   *)
(* as superseded.                                                          *)
Settled(f) ==
    \A r \in Requests :
        f[r].present /\ f[r].claimed => Approved(f[r]) /\ f[r].state \in {"active", "revoked"}

(* Files of an earlier Router: claimed records are approved ones, states    *)
(* may be missing, a Gateway id stands for one credential.                 *)
Loadable(f) ==
    /\ f \in Files
    /\ Bound(f)
    /\ \A r \in Requests :
          /\ f[r].present /\ f[r].claimed =>
                Approved(f[r]) /\ f[r].state # "provisional"
          /\ Inferred(f[r]) = "active" =>
                \E q \in Holders(f, f[r].cred) : f[q].claimed /\ Inferred(f[q]) = "active"

ASSUME StoredFilesAssumption == \A f \in StoredFiles : Loadable(f)

TypeOK == records \in Files /\ file \in Files

OneActiveCredential == OneActive(records) /\ OneActive(file)
GatewayBoundOnce    == Bound(records) /\ Bound(file)
ActiveIsClaimed     == Anchored(records) /\ Anchored(file)
ClaimIsSettled      == Settled(records) /\ Settled(file)

(* One credential at a time: an Agent has one that is active, and a Gateway *)
(* id stands for one credential, in memory and on disk.                    *)
CredentialsAreUnique == OneActiveCredential /\ GatewayBoundOnce

(* Claims and active credentials belong together: what is active has been  *)
(* claimed, and what has been claimed is active or revoked.                *)
ClaimsHold == ActiveIsClaimed /\ ClaimIsSettled

(* Revoking is final short of a new enrollment: a credential all of whose  *)
(* records are revoked does not become active in one step, by a claim that *)
(* comes late, by a restart or otherwise.                                  *)
Retired(f, k) ==
    Holders(f, k) # {} /\ \A r \in Holders(f, k) : f[r].state = "revoked"

NoRevival ==
    [][\A k \in Credentials : Retired(records, k) => ~InState(records', k, "active")]_storeVars

(* Pairing one device never takes away another device's pairing: a claim   *)
(* deletes claimed records of its own device only, and nothing else        *)
(* deletes a claimed record.                                               *)
OtherDevicesKept ==
    [][\A r \in Requests :
          records[r].present /\ records[r].claimed /\ ~(records'[r].present)
          => \E q \in Requests : /\ ~records[q].claimed /\ records'[q].claimed
                                 /\ records'[q].device = records[r].device]_storeVars

(* What the rotation test says: "the same active Gateway credential must   *)
(* be reusable for another device pairing".                                *)
ActiveCredentialReusable ==
    \A r \in Requests, k \in Credentials :
        /\ Open(r) /\ records[r].cred = NoCred /\ records[r].state = "unset"
        /\ InState(records, k, "active")
        => MayApprove(r, k, FALSE)
=============================================================================
