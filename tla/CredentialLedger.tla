--------------------------- MODULE CredentialLedger ---------------------------
(* What the pairing store promises of Gateway credentials, without its     *)
(* records, file and requests: a credential is offered by an approval,     *)
(* becomes its Agent's active one by a claim, and is retired when another   *)
(* credential of the Agent takes over.  Only an offered credential can      *)
(* become active, the switch is one step, and nothing but a switch ends an  *)
(* active credential.                                                       *)
CONSTANTS Agents, Credentials

VARIABLE status

Statuses == {"unknown", "offered", "active", "retired"}

OnePerAgent ==
    \A k, j \in Credentials :
        status[k] = "active" /\ status[j] = "active" /\ k.agent = j.agent => k = j

(* A Gateway id stands for one credential. *)
Free(k) == \A j \in Credentials \ {k} : j.gateway = k.gateway => status[j] = "unknown"

Init ==
    /\ status \in [Credentials -> Statuses]
    /\ OnePerAgent
    /\ \A k \in Credentials : status[k] # "unknown" => Free(k)

Offer(k) ==
    /\ status[k] \in {"unknown", "retired"}
    /\ Free(k)
    /\ status' = [status EXCEPT ![k] = "offered"]

(* Approvals that expire or are replaced. *)
Lapse ==
    /\ status' \in [Credentials -> Statuses]
    /\ \A k \in Credentials :
          \/ status'[k] = status[k]
          \/ status[k] = "offered" /\ status'[k] \in {"unknown", "retired"}

Promote(k) ==
    /\ status[k] \in {"offered", "active"}
    /\ status' \in [Credentials -> Statuses]
    /\ status'[k] = "active"
    /\ \A j \in Credentials \ {k} :
          IF j.agent = k.agent
          THEN \/ status[j] = "unknown" /\ status'[j] = "unknown"
               \/ status[j] # "unknown" /\ status'[j] \in {"unknown", "retired"}
          ELSE status'[j] = status[j]

Next == Lapse \/ \E k \in Credentials : Offer(k) \/ Promote(k)

Spec == Init /\ [][Next]_status
=============================================================================
