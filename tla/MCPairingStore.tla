---------------------------- MODULE MCPairingStore ----------------------------
(* The pairing store on a small instance: four requests of two devices; one *)
(* Agent with a Gateway (k1) and a second Gateway (k2), the first Gateway's *)
(* id under a new token (k3), and the second Gateway's id claimed for       *)
(* another Agent (k4).                                                      *)
EXTENDS PairingStore, TLC

CONSTANTS a1, a2, d1, d2, q1, q2, q3, q4

MCRequests == {q1, q2, q3, q4}
MCDevices == {d1, d2}
MCAgents == {a1, a2}
k1 == [agent |-> a1, gateway |-> 1, token |-> 1]
k2 == [agent |-> a1, gateway |-> 2, token |-> 1]
k3 == [agent |-> a1, gateway |-> 1, token |-> 2]
k4 == [agent |-> a2, gateway |-> 2, token |-> 1]
MCCredentials == {k1, k2, k3, k4}

EmptyFile == [q \in MCRequests |-> Blank]

Paired(d, k, s) == [present |-> TRUE, device |-> d, cred |-> k, state |-> s,
                    claimed |-> TRUE, expired |-> TRUE]

(* Files of an earlier Router that did not save credential states: one     *)
(* device paired, and two devices paired with different Gateways.          *)
MCStoredFiles ==
    {EmptyFile,
     [EmptyFile EXCEPT ![q1] = Paired(d1, k1, "unset")],
     [EmptyFile EXCEPT ![q1] = Paired(d1, k1, "unset"), ![q2] = Paired(d2, k2, "unset")]}

Perms == Permutations(MCRequests) \cup Permutations(MCDevices)
=============================================================================
