---------------------------- MODULE PairingHistory ----------------------------
(* The pairing store seen from outside: the life of each credential, as    *)
(* the abstract ledger knows it, and the set of credentials that have lost *)
(* their route and have not been enrolled again.  `retired' is a history   *)
(* variable: no step of the store reads it.                                *)
EXTENDS PairingStore

VARIABLE retired

CredentialStatus ==
    [k \in Credentials |->
        IF InState(records, k, "active") THEN "active"
        ELSE IF InState(records, k, "provisional") THEN "offered"
        ELSE IF InState(records, k, "revoked") THEN "retired"
        ELSE "unknown"]

Ledger == INSTANCE CredentialLedger WITH status <- CredentialStatus

ActiveIn(f) == {k \in Credentials : InState(f, k, "active")}

OfferedIn(f) == {k \in Credentials : InState(f, k, "provisional")}

HistoryInit == Init /\ retired = {}

HistoryNext ==
    /\ Next
    /\ retired' = (retired \cup ActiveIn(records))
                     \ (ActiveIn(records') \cup OfferedIn(records'))

HistorySpec == HistoryInit /\ [][HistoryNext]_<<storeVars, retired>>

-----------------------------------------------------------------------------

(* The store implements the ledger: every operation, failed save and       *)
(* restart is an offer, a lapse or a switch of credentials, or no change.  *)
ImplementsLedger == Ledger!Spec

(* What the rotation test says: "revoked credentials require a fresh       *)
(* one-time enrollment ticket before reuse" - the operator's approval,     *)
(* which uses no ticket, is refused for a credential that was revoked.     *)
RevokedNeedsTicket ==
    \A k \in retired, r \in Requests : ~MayApprove(r, k, FALSE)
=============================================================================
