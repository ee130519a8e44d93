-------------------------- MODULE PairingStoreProofs --------------------------
(***************************************************************************)
(* The pairing store's invariants for any number of requests, devices,     *)
(* Agents and credentials.  Every operation edits the records through one  *)
(* of the functions of PairingStore, and a save leaves the memory and the  *)
(* file each at the old or the new value; so it is enough that each        *)
(* function keeps a file good (Good below), which is what the lemmas say.  *)
(*                                                                         *)
(* The second part proves that the store implements the credential ledger. *)
(* Each operation's new records are one ledger step from the old ones; a   *)
(* failed save may leave them on disk only, so the file too is always at   *)
(* most one step ahead of the memory, and a restart takes that step.       *)
(***************************************************************************)
EXTENDS PairingHistory, TLAPS

(* Every approved record has an explicit state once the file is loaded. *)
Explicit(f) == \A r \in Requests : Approved(f[r]) => f[r].state # "unset"

Good(f) ==
    /\ f \in Files
    /\ OneActive(f)
    /\ Bound(f)
    /\ Anchored(f)
    /\ Settled(f)
    /\ Explicit(f)

IInv == Good(records) /\ Good(file)

USE CredentialsAssumption, NamesAssumption

LEMMA BlankIsRecord == Blank \in Record
  BY DEF Blank, Record, CredentialState

LEMMA PrunedKeepsGood ==
  ASSUME NEW f, Good(f)
  PROVE  Good(Pruned(f))
<1> DEFINE g == Pruned(f)
<1>1. g \in Files
  BY BlankIsRecord DEF Good, Pruned, Files
<1>2. \A r \in Requests : \/ g[r] = f[r]
                          \/ g[r] = Blank /\ Prunable(f[r])
  BY DEF Pruned
<1>3. \A r \in Requests : Approved(g[r]) => g[r] = f[r]
  BY <1>2 DEF Approved, Blank
<1>4. \A r \in Requests : g[r].present => g[r] = f[r]
  BY <1>2 DEF Blank
<1>5. OneActive(g) /\ Bound(g) /\ Settled(g) /\ Explicit(g)
  BY <1>3, <1>4 DEF Good, OneActive, Bound, Settled, Explicit
<1>6. ASSUME NEW r \in Requests, Approved(g[r]), g[r].state = "active"
      PROVE  \E q \in Holders(g, g[r].cred) : g[q].claimed /\ g[q].state = "active"
  <2>1. PICK q \in Holders(f, f[r].cred) : f[q].claimed /\ f[q].state = "active"
    BY <1>3, <1>6 DEF Good, Anchored
  <2>2. g[q] = f[q]
    BY <1>2, <2>1 DEF Prunable, Holders
  <2> QED
    BY <1>3, <1>6, <2>1, <2>2 DEF Holders
<1> QED
  BY <1>1, <1>5, <1>6 DEF Good, Anchored

LEMMA ReplacedKeepsGood ==
  ASSUME NEW f, Good(f), NEW old \in Requests \cup {NoRequest},
         old # NoRequest => LivePending(f[old])
  PROVE  Good(Replaced(f, old))
<1>1. CASE old = NoRequest
  BY <1>1 DEF Replaced
<1>2. CASE old # NoRequest
  <2> DEFINE g == Replaced(f, old)
  <2>1. g \in Files /\ f \in Files /\ old \in Requests
    BY <1>2, ZenonT(40) DEF Good, Replaced, Files, Record, CredentialState
  <2>2. /\ g[old].present = f[old].present
        /\ g[old].cred = f[old].cred
        /\ g[old].claimed = f[old].claimed
        /\ g[old].state = "revoked"
        /\ \A r \in Requests \ {old} : g[r] = f[r]
    BY <1>2, <2>1 DEF Replaced, Files, Record
  <2>3. \A r \in Requests : Approved(g[r]) <=> Approved(f[r])
    BY <2>1, <2>2 DEF Approved
  <2>4. OneActive(g) /\ Bound(g) /\ Settled(g) /\ Explicit(g)
    BY <2>1, <2>2, <2>3 DEF Good, OneActive, Bound, Settled, Explicit, LivePending
  <2>5. ASSUME NEW r \in Requests, Approved(g[r]), g[r].state = "active"
        PROVE  \E q \in Holders(g, g[r].cred) : g[q].claimed /\ g[q].state = "active"
    <3>1. r # old
      BY <2>1, <2>2, <2>5
    <3>2. PICK q \in Holders(f, f[r].cred) : f[q].claimed /\ f[q].state = "active"
      BY <2>2, <2>5, <3>1 DEF Good, Anchored
    <3>3. q # old
      BY <1>2, <3>2 DEF LivePending
    <3> QED
      BY <2>2, <2>3, <3>1, <3>2, <3>3 DEF Holders
  <2> QED
    BY <2>1, <2>4, <2>5 DEF Good, Anchored
<1> QED
  BY <1>1, <1>2

LEMMA CreatedKeepsGood ==
  ASSUME NEW f, Good(f), NEW r \in Requests, NEW d \in Devices, ~f[r].present
  PROVE  Good(Created(f, r, d))
<1> DEFINE g == Created(f, r, d)
<1>1. g \in Files /\ f \in Files
  BY DEF Good, Created, Files, Record, Blank, CredentialState
<1>2. /\ g[r].cred = NoCred
      /\ ~g[r].claimed
      /\ \A q \in Requests \ {r} : g[q] = f[q]
  BY <1>1 DEF Created, Files, Record, Blank
<1>3. \A q \in Requests : /\ Approved(g[q]) <=> Approved(f[q])
                          /\ Approved(f[q]) => g[q] = f[q]
  BY <1>2 DEF Approved
<1>4. OneActive(g) /\ Bound(g) /\ Settled(g) /\ Explicit(g)
  BY <1>2, <1>3 DEF Good, OneActive, Bound, Settled, Explicit
<1>5. Anchored(g)
  BY <1>2, <1>3 DEF Good, Anchored, Holders
<1> QED
  BY <1>1, <1>4, <1>5 DEF Good

LEMMA ApprovedKeepsGood ==
  ASSUME NEW r \in Requests, NEW k \in Credentials, NEW reenroll \in BOOLEAN,
         Good(records), MayApprove(r, k, reenroll)
  PROVE  Good(ApprovedAs(records, r, k))
<1> DEFINE f == records
           g == ApprovedAs(f, r, k)
           shared == \E q \in Holders(f, k) \ {r} : Inferred(f[q]) = "active"
<1>1. g \in Files /\ f \in Files
  BY ZenonT(40) DEF Good, ApprovedAs, Files, Record, CredentialState
<1>2. /\ g[r].present /\ g[r].cred = k /\ ~g[r].claimed
      /\ g[r].state = IF shared THEN "active" ELSE "provisional"
      /\ \A q \in Requests \ {r} : g[q] = f[q]
  BY <1>1 DEF ApprovedAs, Files, Record, MayApprove, Open
<1>3. \A q \in Requests : q # r /\ Approved(f[q]) /\ f[q].cred.gateway = k.gateway
                          => f[q].cred = k
  BY DEF MayApprove
<1>4. ~f[r].claimed /\ f[r].cred \in {NoCred, k} /\ f[r].present
  BY DEF MayApprove, Open
<1>5. Bound(g)
  BY <1>2, <1>3 DEF Good, Bound, Approved
<1>6. Settled(g) /\ Explicit(g)
  BY <1>2 DEF Good, Settled, Explicit, Approved
<1>7. CASE shared
  <2>1. PICK q \in Requests : /\ q # r /\ Approved(f[q]) /\ f[q].cred = k
                             /\ f[q].state = "active"
    BY <1>7 DEF Holders, Inferred, Good, Explicit
  <2>2. OneActive(g)
    BY <1>2, <2>1 DEF Good, OneActive, Approved
  <2>3. PICK p \in Holders(f, k) : f[p].claimed /\ f[p].state = "active"
    BY <2>1 DEF Good, Anchored
  <2>4. p \in Holders(g, k) /\ g[p].claimed /\ g[p].state = "active"
    BY <1>2, <1>4, <2>3 DEF Holders
  <2>5. Anchored(g)
    <3> SUFFICES ASSUME NEW x \in Requests, Approved(g[x]), g[x].state = "active"
                 PROVE  \E y \in Holders(g, g[x].cred) : g[y].claimed /\ g[y].state = "active"
      BY DEF Anchored
    <3>1. CASE x = r
      BY <1>2, <2>4, <3>1
    <3>2. CASE x # r
      <4>1. PICK y \in Holders(f, f[x].cred) : f[y].claimed /\ f[y].state = "active"
        BY <1>2, <3>2 DEF Good, Anchored
      <4>2. y # r
        BY <1>4, <4>1
      <4> QED
        BY <1>2, <3>2, <4>1, <4>2 DEF Holders
    <3> QED
      BY <3>1, <3>2
  <2> QED
    BY <1>1, <1>5, <1>6, <2>2, <2>5 DEF Good
<1>8. CASE ~shared
  <2>1. g[r].state = "provisional"
    BY <1>2, <1>8
  <2>2. OneActive(g)
    BY <1>2, <2>1 DEF Good, OneActive
  <2>3. Anchored(g)
    <3> SUFFICES ASSUME NEW x \in Requests, Approved(g[x]), g[x].state = "active"
                 PROVE  \E y \in Holders(g, g[x].cred) : g[y].claimed /\ g[y].state = "active"
      BY DEF Anchored
    <3>1. x # r
      BY <2>1
    <3>2. PICK y \in Holders(f, f[x].cred) : f[y].claimed /\ f[y].state = "active"
      BY <1>2, <3>1 DEF Good, Anchored
    <3>3. y # r
      BY <1>4, <3>2
    <3> QED
      BY <1>2, <3>1, <3>2, <3>3 DEF Holders
  <2> QED
    BY <1>1, <1>5, <1>6, <2>2, <2>3 DEF Good
<1> QED
  BY <1>7, <1>8

LEMMA PromotedKeepsGood ==
  ASSUME NEW f, Good(f), NEW r \in Requests, Approved(f[r])
  PROVE  Good(Promoted(f, r))
<1> DEFINE k == f[r].cred
           g == Promoted(f, r)
           Same(q) == f[q].cred.agent = k.agent
           New(q) == IF f[q].cred = k THEN "active" ELSE "revoked"
<1>1. f \in Files /\ k \in Credentials
  BY DEF Good, Files, Record, Approved
<1>2. /\ g[r].present /\ g[r].cred = k /\ g[r].state = "active" /\ g[r].claimed
      /\ g[r] \in Record
  BY <1>1 DEF Promoted, Approved, Files, Record, CredentialState
<1>3. ASSUME NEW q \in Requests, q # r
      PROVE  \/ g[q] = Blank /\ Approved(f[q]) /\ Same(q)
             \/ g[q] = f[q] /\ (~Approved(f[q]) \/ ~Same(q))
             \/ /\ Approved(f[q]) /\ Same(q)
                /\ g[q] \in Record
                /\ g[q].present /\ g[q].cred = f[q].cred /\ g[q].claimed = f[q].claimed
                /\ g[q].state = New(q)
  BY <1>1, <1>3 DEF Promoted, Approved, Files, Record, CredentialState
<1>4. g \in Files
  BY <1>1, <1>2, <1>3, BlankIsRecord DEF Promoted, Files
<1>5. ASSUME NEW q \in Requests, Approved(g[q])
      PROVE  /\ Approved(f[q])
             /\ g[q].cred = f[q].cred
             /\ (g[q].claimed = f[q].claimed) \/ (q = r)
             /\ \/ g[q] = f[q] /\ ~Same(q)
                \/ Same(q) /\ g[q].state = New(q)
  BY <1>2, <1>3, <1>5 DEF Approved, Blank
<1> HIDE DEF g
<1>6. Bound(g)
  <2> SUFFICES ASSUME NEW p \in Requests, NEW q \in Requests,
                      Approved(g[p]), Approved(g[q]),
                      g[p].cred.gateway = g[q].cred.gateway
               PROVE  g[p].cred = g[q].cred
    BY DEF Bound
  <2>1. Approved(f[p]) /\ g[p].cred = f[p].cred
    BY <1>5
  <2>2. Approved(f[q]) /\ g[q].cred = f[q].cred
    BY <1>5
  <2> QED
    BY <2>1, <2>2 DEF Good, Bound
<1>7. OneActive(g)
  <2> SUFFICES ASSUME NEW p \in Requests, NEW q \in Requests,
                      Approved(g[p]), g[p].state = "active",
                      Approved(g[q]), g[q].state = "active",
                      g[p].cred.agent = g[q].cred.agent
               PROVE  g[p].cred = g[q].cred
    BY DEF OneActive
  <2>1. /\ Approved(f[p]) /\ g[p].cred = f[p].cred
        /\ (g[p] = f[p] /\ ~Same(p)) \/ (Same(p) /\ f[p].cred = k)
    BY <1>5
  <2>2. /\ Approved(f[q]) /\ g[q].cred = f[q].cred
        /\ (g[q] = f[q] /\ ~Same(q)) \/ (Same(q) /\ f[q].cred = k)
    BY <1>5
  <2>3. CASE Same(p)
    BY <2>1, <2>2, <2>3
  <2>4. CASE ~Same(p)
    BY <2>1, <2>2, <2>4 DEF Good, OneActive
  <2> QED
    BY <2>3, <2>4
<1>8. Explicit(g)
  BY <1>5 DEF Good, Explicit
<1>9. Settled(g)
  <2> SUFFICES ASSUME NEW q \in Requests, g[q].present, g[q].claimed
               PROVE  Approved(g[q]) /\ g[q].state \in {"active", "revoked"}
    BY DEF Settled
  <2>1. CASE q = r
    BY <1>1, <1>2, <2>1 DEF Approved
  <2>2. CASE q # r
    BY <1>1, <1>3, <2>2 DEF Good, Settled, Approved, Blank
  <2> QED
    BY <2>1, <2>2
<1>10. ASSUME NEW x \in Requests, Approved(g[x]), g[x].state = "active"
       PROVE  \E y \in Holders(g, g[x].cred) : g[y].claimed /\ g[y].state = "active"
  <2>1. CASE Same(x)
    <3>1. g[x].cred = k
      BY <1>5, <1>10, <2>1
    <3> QED
      BY <1>1, <1>2, <3>1 DEF Holders, Approved
  <2>2. CASE ~Same(x)
    <3>0. Approved(f[x]) /\ f[x].state = "active" /\ g[x].cred = f[x].cred
      BY <1>5, <1>10, <2>2
    <3>1. PICK y \in Holders(f, f[x].cred) : f[y].claimed /\ f[y].state = "active"
      BY <3>0 DEF Good, Anchored
    <3>2. /\ y \in Requests /\ y # r /\ Approved(f[y])
          /\ f[y].cred = f[x].cred /\ ~Same(y)
      BY <2>2, <3>1 DEF Holders
    <3>3. g[y] = f[y]
      BY <1>3, <3>2
    <3> QED
      BY <3>0, <3>1, <3>2, <3>3 DEF Holders
  <2> QED
    BY <2>1, <2>2
<1> QED
  BY <1>4, <1>6, <1>7, <1>8, <1>9, <1>10 DEF Good, Anchored, g

LEMMA ExpiredKeepsGood ==
  ASSUME NEW f, Good(f), NEW r \in Requests, NEW b \in BOOLEAN
  PROVE  Good([f EXCEPT ![r].expired = b])
<1> DEFINE g == [f EXCEPT ![r].expired = b]
<1>1. g \in Files /\ f \in Files
  BY DEF Good, Files, Record
<1>2. \A q \in Requests : /\ g[q].present = f[q].present
                          /\ g[q].cred = f[q].cred
                          /\ g[q].state = f[q].state
                          /\ g[q].claimed = f[q].claimed
  BY <1>1 DEF Files, Record
<1>3. \A q \in Requests : Approved(g[q]) <=> Approved(f[q])
  BY <1>2 DEF Approved
<1> HIDE DEF g
<1>4. OneActive(g) /\ Bound(g) /\ Settled(g) /\ Explicit(g)
  BY <1>2, <1>3 DEF Good, OneActive, Bound, Settled, Explicit
<1>5. Anchored(g)
  BY <1>2, <1>3 DEF Good, Anchored, Holders
<1> QED
  BY <1>1, <1>4, <1>5 DEF Good, g

(***************************************************************************)
(* Loading a file.  A good file is loadable, and so are the files the      *)
(* store may start from; the states a loadable file is given are good.     *)
(***************************************************************************)
LEMMA GoodIsLoadable ==
  ASSUME NEW f, Good(f)
  PROVE  Loadable(f)
<1>1. \A r \in Requests : Approved(f[r]) => Inferred(f[r]) = f[r].state
  BY DEF Good, Explicit, Inferred
<1>2. \A r \in Requests : Inferred(f[r]) = "active" => Approved(f[r])
  BY DEF Inferred
<1>3. ASSUME NEW r \in Requests, Inferred(f[r]) = "active"
      PROVE  \E q \in Holders(f, f[r].cred) : f[q].claimed /\ Inferred(f[q]) = "active"
  <2>1. PICK q \in Holders(f, f[r].cred) : f[q].claimed /\ f[q].state = "active"
    BY <1>1, <1>2, <1>3 DEF Good, Anchored
  <2> QED
    BY <1>1, <2>1 DEF Holders
<1> QED
  BY <1>3 DEF Good, Settled, Loadable

LEMMA ReconciledIsGood ==
  ASSUME NEW f, Loadable(f), NEW w \in Winners(f)
  PROVE  Good(Reconciled(f, w))
<1> DEFINE g == Reconciled(f, w)
           winner(r) == w[f[r].cred.agent]
<1>1. f \in Files
  BY DEF Loadable
<1>2. ASSUME NEW r \in Requests, Approved(f[r])
      PROVE  /\ f[r].cred \in Credentials /\ f[r].cred.agent \in Agents
             /\ Inferred(f[r]) \in {"provisional", "active", "revoked"}
  BY <1>1, <1>2 DEF Approved, Files, Record, Inferred, CredentialState
<1>3. ASSUME NEW r \in Requests, Approved(f[r]), winner(r) = NoCred
      PROVE  Inferred(f[r]) # "active"
  <2>1. ActiveCredentials(f, f[r].cred.agent) = {}
    BY <1>2, <1>3 DEF Winners, ActiveCredentials
  <2> QED
    BY <1>2, <1>3, <2>1 DEF ActiveCredentials, InState, Holders
<1>4. ASSUME NEW r \in Requests, Approved(f[r])
      PROVE  /\ g[r].present = f[r].present /\ g[r].cred = f[r].cred
             /\ g[r].claimed = f[r].claimed
             /\ g[r].state = ReconciledState(f[r], winner(r))
             /\ g[r].state \in {"provisional", "active", "revoked"}
             /\ g[r].state = "active" <=> f[r].cred = winner(r)
             /\ g[r].claimed => g[r].state # "provisional"
  <2>1. /\ g[r].present = f[r].present /\ g[r].cred = f[r].cred
        /\ g[r].claimed = f[r].claimed
        /\ g[r].state = ReconciledState(f[r], winner(r))
    BY <1>1, <1>4 DEF Reconciled, Files, Record
  <2>2. f[r].claimed => f[r].state # "provisional"
    BY <1>4 DEF Loadable, Approved
  <2>3. f[r].claimed => Inferred(f[r]) # "provisional"
    BY <1>4, <2>2 DEF Inferred
  <2>4. Inferred(f[r]) = "active" => f[r].state = "active" \/ f[r].claimed
    BY DEF Inferred
  <2>5. ReconciledState(f[r], winner(r)) \in {"provisional", "active", "revoked"}
    BY <1>2, <1>4 DEF ReconciledState
  <2>6. CASE winner(r) = NoCred
    BY <1>2, <1>3, <1>4, <2>1, <2>3, <2>5, <2>6 DEF ReconciledState
  <2>7. CASE winner(r) # NoCred
    BY <2>1, <2>3, <2>4, <2>5, <2>7 DEF ReconciledState
  <2> QED
    BY <2>6, <2>7
<1>5. ASSUME NEW r \in Requests, ~Approved(f[r])
      PROVE  g[r] = f[r]
  BY <1>5 DEF Reconciled
<1>6. g \in Files
  <2>1. ASSUME NEW r \in Requests, Approved(f[r])
        PROVE  [f[r] EXCEPT !.state = ReconciledState(f[r], winner(r))] \in Record
    BY <1>1, <1>2, <1>4, <2>1, SMTT(40) DEF Files, Record, CredentialState
  <2> QED
    BY <1>1, <2>1 DEF Reconciled, Files
<1> HIDE DEF g
<1>7. \A r \in Requests : Approved(g[r]) <=> Approved(f[r])
  BY <1>4, <1>5 DEF Approved
<1>8. Bound(g)
  <2> SUFFICES ASSUME NEW p \in Requests, NEW q \in Requests,
                      Approved(g[p]), Approved(g[q]),
                      g[p].cred.gateway = g[q].cred.gateway
               PROVE  g[p].cred = g[q].cred
    BY DEF Bound
  <2>1. Approved(f[p]) /\ g[p].cred = f[p].cred
    BY <1>4, <1>7
  <2>2. Approved(f[q]) /\ g[q].cred = f[q].cred
    BY <1>4, <1>7
  <2> QED
    BY <2>1, <2>2 DEF Loadable, Bound
<1>9. OneActive(g)
  BY <1>4, <1>7 DEF OneActive
<1>10. Explicit(g)
  BY <1>4, <1>7 DEF Explicit
<1>11. Settled(g)
  BY <1>4, <1>5, <1>7 DEF Settled, Loadable
<1>12. ASSUME NEW r \in Requests, Approved(g[r]), g[r].state = "active"
       PROVE  \E q \in Holders(g, g[r].cred) : g[q].claimed /\ g[q].state = "active"
  <2> DEFINE k == f[r].cred
  <2>1. Approved(f[r]) /\ k = winner(r) /\ g[r].cred = k /\ k \in Credentials
    BY <1>2, <1>4, <1>7, <1>12
  <2>2. k \in ActiveCredentials(f, k.agent)
    BY <1>2, <2>1 DEF Winners
  <2>3. PICK p \in Holders(f, k) : Inferred(f[p]) = "active"
    BY <2>2 DEF ActiveCredentials, InState
  <2>4. PICK q \in Holders(f, f[p].cred) : f[q].claimed /\ Inferred(f[q]) = "active"
    BY <2>3 DEF Loadable, Holders
  <2>5. q \in Requests /\ Approved(f[q]) /\ f[q].cred = k
    BY <2>3, <2>4 DEF Holders
  <2>6. Approved(g[q]) /\ g[q].cred = k /\ g[q].claimed /\ g[q].state = "active"
    BY <1>4, <1>7, <2>1, <2>4, <2>5
  <2> QED
    BY <2>1, <2>5, <2>6 DEF Holders
<1> QED
  BY <1>6, <1>8, <1>9, <1>10, <1>11, <1>12 DEF Good, Anchored, g

(***************************************************************************)
(* The steps.                                                              *)
(***************************************************************************)
LEMMA SaveKeepsGood ==
  ASSUME IInv, NEW g, Good(g), Save(g)
  PROVE  IInv'
<1>1. Good(records) /\ Good(file)
  BY DEF IInv
<1>2. records' \in {records, g} /\ file' \in {file, g}
  BY DEF Save
<1>3. Good(records')
  BY <1>1, <1>2
<1>4. Good(file')
  BY <1>1, <1>2
<1> QED
  BY <1>3, <1>4 DEF IInv, Good, Files, OneActive, Bound, Anchored, Settled, Explicit,
                    Holders, Approved

(* The store starts good, whatever file an earlier Router has left.        *)
LEMMA InitIsGood == Init => IInv
<1> SUFFICES ASSUME NEW f \in StoredFiles, NEW w \in Winners(f),
                    records = Reconciled(f, w), file = records
             PROVE  IInv
  BY DEF Init
<1>1. Loadable(f)
  BY StoredFilesAssumption
<1> QED
  BY <1>1, ReconciledIsGood DEF IInv

LEMMA NextKeepsGood == IInv /\ [Next]_storeVars => IInv'
<1> SUFFICES ASSUME IInv, [Next]_storeVars
             PROVE  IInv'
  OBVIOUS
<1>1. ASSUME NEW r \in Requests, NEW d \in Devices, NEW old \in Requests \cup {NoRequest},
             Create(r, d, old)
      PROVE  IInv'
  <2> DEFINE kept == Pruned(records)
  <2>1. Good(kept)
    BY PrunedKeepsGood DEF IInv
  <2>2. old # NoRequest => LivePending(kept[old])
    BY <1>1 DEF Create, Pruned, Prunable, LivePending
  <2>3. Good(Replaced(kept, old))
    BY <2>1, <2>2, ReplacedKeepsGood
  <2>4. ~Replaced(kept, old)[r].present
    BY <1>1, <2>1 DEF Create, Replaced, Pruned, Blank, LivePending, Good, Files
  <2>5. Good(Created(Replaced(kept, old), r, d))
    BY <2>3, <2>4, CreatedKeepsGood
  <2> HIDE DEF kept
  <2>6. Save(Created(Replaced(kept, old), r, d)) \/ Save(kept)
    BY <1>1 DEF Create, kept
  <2> QED
    BY <2>1, <2>5, <2>6, SaveKeepsGood
<1>2. ASSUME NEW r \in Requests, NEW k \in Credentials, Approve(r, k)
      PROVE  IInv'
  <2>1. Good(ApprovedAs(records, r, k))
    BY <1>2, ApprovedKeepsGood DEF Approve, IInv
  <2> QED
    BY <1>2, <2>1, SaveKeepsGood DEF Approve
<1>3. ASSUME NEW r \in Requests, NEW k \in Credentials, Enroll(r, k)
      PROVE  IInv'
  <2>1. Good(ApprovedAs(records, r, k))
    BY <1>3, ApprovedKeepsGood DEF Enroll, IInv
  <2> QED
    BY <1>3, <2>1, SaveKeepsGood DEF Enroll
<1>4. ASSUME NEW r \in Requests, Claim(r)
      PROVE  IInv'
  <2>1. Good(Promoted(records, r))
    BY <1>4, PromotedKeepsGood DEF Claim, Claimable, IInv
  <2> QED
    BY <1>4, <2>1, SaveKeepsGood DEF Claim
<1>5. ASSUME NEW r \in Requests, Expire(r)
      PROVE  IInv'
  <2>1. /\ (records[r].expired \/ records[r].present) \in BOOLEAN
        /\ (file[r].expired \/ file[r].present) \in BOOLEAN
    OBVIOUS
  <2>2. /\ Good([records EXCEPT ![r].expired = records[r].expired \/ records[r].present])
        /\ Good([file EXCEPT ![r].expired = file[r].expired \/ file[r].present])
    BY <2>1, ExpiredKeepsGood DEF IInv
  <2>3. Good(records') /\ Good(file')
    BY <1>5, <2>2 DEF Expire
  <2> QED
    BY <2>3 DEF IInv, Good, Files, OneActive, Bound, Anchored, Settled, Explicit, Holders, Approved
<1>6. ASSUME Restart
      PROVE  IInv'
  <2>1. PICK w \in Winners(file) : records' = Reconciled(file, w) /\ file' = records'
    BY <1>6 DEF Restart
  <2>2. Good(Reconciled(file, w))
    BY GoodIsLoadable, ReconciledIsGood DEF IInv
  <2>3. Good(records') /\ Good(file')
    BY <2>1, <2>2
  <2> QED
    BY <2>3 DEF IInv, Good, Files, OneActive, Bound, Anchored, Settled, Explicit, Holders, Approved
<1>7. CASE UNCHANGED storeVars
  BY <1>7 DEF storeVars, IInv, Good, Files, OneActive, Bound, Anchored, Settled, Explicit,
              Holders, Approved
<1> QED
  BY <1>1, <1>2, <1>3, <1>4, <1>5, <1>6, <1>7 DEF Next

LEMMA AlwaysGood == Spec => []IInv
BY InitIsGood, NextKeepsGood, PTL DEF Spec

(***************************************************************************)
(* The theorems.                                                           *)
(***************************************************************************)

(* The memory and the file hold only well-formed records.                  *)
THEOREM Typing == Spec => []TypeOK
<1>1. IInv => TypeOK
  BY DEF IInv, Good, TypeOK
<1> QED
  BY <1>1, AlwaysGood, PTL

(* An Agent never has two active credentials (claimRecord, approve, create, *)
(* reconcileCredentialStates), in memory or on disk.                       *)
THEOREM OneActiveAlways == Spec => []OneActiveCredential
<1>1. IInv => OneActiveCredential
  BY DEF IInv, Good, OneActiveCredential
<1> QED
  BY <1>1, AlwaysGood, PTL

(* A Gateway id stands for one credential (the conflict checks of approve). *)
THEOREM BoundAlways == Spec => []GatewayBoundOnce
<1>1. IInv => GatewayBoundOnce
  BY DEF IInv, Good, GatewayBoundOnce
<1> QED
  BY <1>1, AlwaysGood, PTL

(* A credential is active only through a claim: neither an approval nor a  *)
(* reload makes one active by itself.                                      *)
THEOREM ActiveAlwaysClaimed == Spec => []ActiveIsClaimed
<1>1. IInv => ActiveIsClaimed
  BY DEF IInv, Good, ActiveIsClaimed
<1> QED
  BY <1>1, AlwaysGood, PTL

(* A claimed record is active or revoked, so a repeated claim has an       *)
(* answer (claimRecord's receipt or "superseded").                         *)
THEOREM ClaimsStaySettled == Spec => []ClaimIsSettled
<1>1. IInv => ClaimIsSettled
  BY DEF IInv, Good, ClaimIsSettled
<1> QED
  BY <1>1, AlwaysGood, PTL

(* An Agent has one active credential and a Gateway id stands for one.     *)
THEOREM CredentialsStayUnique == Spec => []CredentialsAreUnique
<1>1. Spec => []OneActiveCredential
  BY OneActiveAlways
<1>2. Spec => []GatewayBoundOnce
  BY BoundAlways
<1>3. OneActiveCredential /\ GatewayBoundOnce => CredentialsAreUnique
  BY DEF CredentialsAreUnique
<1> QED
  BY <1>1, <1>2, <1>3, PTL

(* What is active has been claimed, and a claim is active or revoked.      *)
THEOREM ClaimsAlwaysHold == Spec => []ClaimsHold
<1>1. Spec => []ActiveIsClaimed
  BY ActiveAlwaysClaimed
<1>2. Spec => []ClaimIsSettled
  BY ClaimsStaySettled
<1>3. ActiveIsClaimed /\ ClaimIsSettled => ClaimsHold
  BY DEF ClaimsHold
<1> QED
  BY <1>1, <1>2, <1>3, PTL

(***************************************************************************)
(* What one state of the records allows of the next.  A failed save may    *)
(* leave the next state on disk for a restart to find, so the file has to  *)
(* follow the memory all the time.                                         *)
(***************************************************************************)
Follows(f, g) ==
    /\ \A k \in Credentials : Retired(f, k) => ~InState(g, k, "active")
    /\ \A r \in Requests :
          f[r].present /\ f[r].claimed /\ ~g[r].present
            => \E q \in Requests : ~f[q].claimed /\ g[q].claimed /\ g[q].device = f[r].device

IInvFollows == IInv /\ Follows(records, file)

(* A step that makes no credential active and deletes no claimed record    *)
LEMMA QuietFollows ==
  ASSUME NEW f, NEW g,
         \A r \in Requests :
            /\ Approved(g[r]) /\ Inferred(g[r]) = "active" =>
                  Approved(f[r]) /\ f[r].cred = g[r].cred /\ f[r].state # "revoked"
            /\ f[r].present /\ f[r].claimed => g[r].present
  PROVE  Follows(f, g)
  BY DEF Follows, Retired, InState, Holders

LEMMA SelfFollows ==
  ASSUME NEW f
  PROVE  Follows(f, f)
<1>1. \A r \in Requests : Approved(f[r]) /\ Inferred(f[r]) = "active" => f[r].state # "revoked"
  BY DEF Inferred
<1> QED
  BY <1>1, QuietFollows

(* create: pruning, replacing and a new record *)
LEMMA CreatedFollows ==
  ASSUME Good(records), NEW r \in Requests, NEW d \in Devices,
         NEW old \in Requests \cup {NoRequest},
         ~records[r].present, old # NoRequest => LivePending(records[old])
  PROVE  /\ Follows(records, Pruned(records))
         /\ Follows(records, Created(Replaced(Pruned(records), old), r, d))
<1> DEFINE kept == Pruned(records)
           next == Created(Replaced(kept, old), r, d)
<1>1. records \in [Requests -> Record]
  BY DEF Good, Files
<1>2. \A q \in Requests : kept[q] = IF Prunable(records[q]) THEN Blank ELSE records[q]
  BY DEF Pruned
<1>3. \A q \in Requests :
         next[q] = IF q = r THEN [Blank EXCEPT !.present = TRUE, !.device = d]
                   ELSE IF q = old THEN [kept[q] EXCEPT !.state = "revoked", !.expired = TRUE]
                   ELSE kept[q]
  BY <1>1 DEF Created, Replaced, Pruned
<1>4. Follows(records, kept)
  <2> HIDE DEF kept
  <2>1. \A q \in Requests : records[q].present /\ records[q].claimed => kept[q] = records[q]
    BY <1>2 DEF Prunable
  <2>2. \A q \in Requests : Approved(kept[q]) => kept[q] = records[q]
    BY <1>2 DEF Approved, Blank
  <2> QED
    BY <2>1, <2>2, QuietFollows DEF Inferred
<1>5. Follows(records, next)
  <2> HIDE DEF kept, next
  <2>1. ASSUME NEW q \in Requests
        PROVE  /\ Approved(next[q]) /\ Inferred(next[q]) = "active" => next[q] = records[q]
               /\ records[q].present /\ records[q].claimed => next[q].present
    <3>1. CASE q = r
      BY <1>3, <3>1 DEF Approved, Blank
    <3>2. CASE q # r /\ q = old
      <4>1. records[q] \in Record /\ LivePending(records[q]) /\ kept[q] = records[q]
        BY <1>1, <1>2, <3>2, NamesAssumption DEF LivePending, Prunable
      <4> QED
        BY <1>3, <3>2, <4>1 DEF Inferred, LivePending, Record
    <3>3. CASE q # r /\ q # old
      <4>1. next[q] = kept[q]
        BY <1>3, <3>3
      <4>2. CASE Prunable(records[q])
        BY <1>2, <4>1, <4>2 DEF Approved, Blank, Prunable
      <4>3. CASE ~Prunable(records[q])
        BY <1>2, <4>1, <4>3
      <4> QED
        BY <4>2, <4>3
    <3> QED
      BY <3>1, <3>2, <3>3
  <2> QED
    BY <2>1, QuietFollows DEF Inferred
<1> QED
  BY <1>4, <1>5

LEMMA ApprovedFollows ==
  ASSUME Good(records), NEW r \in Requests, NEW k \in Credentials, NEW reenroll \in BOOLEAN,
         MayApprove(r, k, reenroll)
  PROVE  Follows(records, ApprovedAs(records, r, k))
<1> DEFINE g == ApprovedAs(records, r, k)
           shared == \E q \in Holders(records, k) \ {r} : Inferred(records[q]) = "active"
<1>1. records \in [Requests -> Record]
  BY DEF Good, Files
<1>2. /\ \A q \in Requests \ {r} : g[q] = records[q]
      /\ g[r] = [records[r] EXCEPT !.cred = k,
                                  !.state = IF shared THEN "active" ELSE "provisional"]
  BY <1>1 DEF ApprovedAs
<1>3. /\ records[r].present /\ records[r].state # "revoked"
      /\ records[r].cred \in {NoCred, k}
  BY DEF MayApprove, Open
<1>4. g[r].cred = k /\ g[r].state = (IF shared THEN "active" ELSE "provisional")
      /\ g[r].present
  BY <1>1, <1>2, <1>3 DEF Record
<1> HIDE DEF g
<1>5. ASSUME NEW j \in Credentials, Retired(records, j)
      PROVE  ~InState(g, j, "active")
  <2> SUFFICES ASSUME NEW q \in Requests, Approved(g[q]), g[q].cred = j, Inferred(g[q]) = "active"
               PROVE  FALSE
    BY DEF InState, Holders
  <2>1. \A p \in Holders(records, j) : records[p].state = "revoked" /\ Inferred(records[p]) = "revoked"
    BY <1>5 DEF Retired, Inferred, Holders
  <2>2. CASE q # r
    BY <1>2, <2>1, <2>2 DEF Holders
  <2>3. CASE q = r
    <3>1. j = k /\ shared
      BY <1>4, <2>3 DEF Inferred
    <3> QED
      BY <2>1, <3>1
  <2> QED
    BY <2>2, <2>3
<1>6. \A q \in Requests : records[q].present => g[q].present
  BY <1>2, <1>4
<1> QED
  BY <1>5, <1>6 DEF Follows, g

LEMMA PromotedFollows ==
  ASSUME Good(records), NEW r \in Requests, Claimable(r)
  PROVE  Follows(records, Promoted(records, r))
<1> DEFINE k == records[r].cred
           g == Promoted(records, r)
           Overwritten(q) == /\ q # r
                             /\ Approved(records[q])
                             /\ records[q].claimed
                             /\ records[q].cred.agent = k.agent
                             /\ records[q].device = records[r].device
           Cut(q) == IF Overwritten(q) THEN Blank
                     ELSE IF ~Approved(records[q]) \/ records[q].cred.agent # k.agent THEN records[q]
                     ELSE [records[q] EXCEPT !.state = IF records[q].cred = k THEN "active" ELSE "revoked"]
<1>1. records \in [Requests -> Record]
  BY DEF Good, Files
<1>2. \A q \in Requests : g[q] = IF q = r THEN [Cut(q) EXCEPT !.claimed = TRUE] ELSE Cut(q)
  BY DEF Promoted
<1>3. /\ Approved(records[r]) /\ ~records[r].claimed /\ Inferred(records[r]) # "revoked"
      /\ records[r].state # "revoked"
  BY DEF Claimable, Inferred
<1>4. g[r].claimed /\ g[r].device = records[r].device /\ g[r].present
  BY <1>1, <1>2, <1>3, ZenonT(40) DEF Record, Approved
<1> HIDE DEF g
<1>5. ASSUME NEW j \in Credentials, Retired(records, j)
      PROVE  ~InState(g, j, "active")
  <2> SUFFICES ASSUME NEW q \in Requests, Approved(g[q]), g[q].cred = j, Inferred(g[q]) = "active"
               PROVE  FALSE
    BY DEF InState, Holders
  <2>1. \A p \in Holders(records, j) : records[p].state = "revoked"
    BY <1>5 DEF Retired
  <2>2. k # j
    BY <1>3, <2>1 DEF Holders
  <2>3. q # r
    <3>1. Cut(r) = [records[r] EXCEPT !.state = "active"]
      BY <1>3
    <3>2. g[r] = [[records[r] EXCEPT !.state = "active"] EXCEPT !.claimed = TRUE]
      BY <1>2, <3>1
    <3>3. g[r].cred = k
      BY <1>1, <3>2 DEF Record
    <3> QED
      BY <2>2, <3>3
  <2>4. ~Overwritten(q)
    <3>1. Overwritten(q) => g[q] = Blank
      BY <1>2, <2>3
    <3> QED
      BY <3>1 DEF Blank, Approved
  <2>5. CASE Approved(records[q]) /\ records[q].cred.agent = k.agent
    <3>1. records[q].cred = j /\ g[q].state = "revoked"
      BY <1>1, <1>2, <2>2, <2>3, <2>4, <2>5 DEF Record, CredentialState
    <3> QED
      BY <3>1 DEF Inferred
  <2>6. CASE ~(Approved(records[q]) /\ records[q].cred.agent = k.agent)
    <3>1. g[q] = records[q]
      BY <1>2, <2>3, <2>4, <2>6
    <3> QED
      BY <2>1, <3>1 DEF Holders, Inferred
  <2> QED
    BY <2>5, <2>6
<1>6. ASSUME NEW q \in Requests, records[q].present, records[q].claimed, ~g[q].present
      PROVE  \E p \in Requests : ~records[p].claimed /\ g[p].claimed /\ g[p].device = records[q].device
  <2>1. q # r
    BY <1>4, <1>6
  <2>2. Overwritten(q)
    BY <1>1, <1>2, <1>6, <2>1 DEF Record
  <2> QED
    BY <1>3, <1>4, <2>2
<1> QED
  BY <1>5, <1>6 DEF Follows, g

(* A restart keeps presence, claims and devices, and an active credential  *)
(* was active in the file.                                                 *)
LEMMA ReconciledFollows ==
  ASSUME Good(file), Follows(records, file), NEW w \in Winners(file)
  PROVE  Follows(records, Reconciled(file, w))
<1> DEFINE g == Reconciled(file, w)
<1>1. file \in [Requests -> Record]
  BY DEF Good, Files
<1>2. \A r \in Requests :
         g[r] = IF Approved(file[r])
                THEN [file[r] EXCEPT !.state = ReconciledState(file[r], w[file[r].cred.agent])]
                ELSE file[r]
  BY DEF Reconciled
<1> HIDE DEF g
<1>3. \A r \in Requests : /\ g[r].present = file[r].present /\ g[r].claimed = file[r].claimed
                          /\ g[r].device = file[r].device /\ g[r].cred = file[r].cred
  BY <1>1, <1>2 DEF Record
<1>4. ASSUME NEW k \in Credentials, InState(g, k, "active")
      PROVE  InState(file, k, "active")
  <2>1. PICK r \in Requests : Approved(g[r]) /\ g[r].cred = k /\ Inferred(g[r]) = "active"
    BY <1>4 DEF InState, Holders
  <2>2. Approved(file[r]) /\ file[r].cred = k
    BY <1>3, <2>1 DEF Approved
  <2>3. Inferred(g[r]) = ReconciledState(file[r], w[k.agent]) \/ Inferred(file[r]) = "active"
    <3>1. /\ g[r].state = ReconciledState(file[r], w[k.agent])
          /\ file[r].state # "unset"
      BY <1>1, <1>2, <2>2 DEF Record, Good, Explicit
    <3>2. g[r].state # "unset"
      BY <3>1, <2>2 DEF ReconciledState, Inferred
    <3> QED
      BY <2>1, <3>1, <3>2 DEF Inferred
  <2>4. w[k.agent] = k \/ Inferred(file[r]) = "active"
    BY <2>1, <2>2, <2>3 DEF ReconciledState
  <2>5. w[k.agent] = k => k \in ActiveCredentials(file, k.agent)
    BY DEF Winners
  <2> QED
    BY <2>2, <2>4, <2>5 DEF ActiveCredentials, InState, Holders
<1> QED
  BY <1>3, <1>4 DEF Follows, g

LEMMA SaveFollows ==
  ASSUME Follows(records, file), NEW g, Follows(records, g), Save(g)
  PROVE  Follows(records, records') /\ Follows(records', file')
<1>1. CASE records' = g /\ file' = g
  BY <1>1, SelfFollows
<1>2. CASE records' = records /\ file' \in {file, g}
  BY <1>2, SelfFollows
<1> QED
  BY <1>1, <1>2 DEF Save

(* Only the clock of the records differs. *)
Aged(f, h) == \A r \in Requests : \E b \in BOOLEAN : h[r] = [f[r] EXCEPT !.expired = b]

LEMMA ExpiredFollows ==
  ASSUME NEW f, NEW g, Follows(f, g), Good(f), Good(g), NEW h, NEW i, Aged(f, h), Aged(g, i)
  PROVE  Follows(h, i)
<1>1. \A r \in Requests :
         /\ h[r].present = f[r].present /\ h[r].claimed = f[r].claimed
         /\ h[r].device = f[r].device /\ h[r].cred = f[r].cred /\ h[r].state = f[r].state
         /\ i[r].present = g[r].present /\ i[r].claimed = g[r].claimed
         /\ i[r].device = g[r].device /\ i[r].cred = g[r].cred /\ i[r].state = g[r].state
  <2> SUFFICES ASSUME NEW r \in Requests
               PROVE  /\ h[r].present = f[r].present /\ h[r].claimed = f[r].claimed
                      /\ h[r].device = f[r].device /\ h[r].cred = f[r].cred /\ h[r].state = f[r].state
                      /\ i[r].present = g[r].present /\ i[r].claimed = g[r].claimed
                      /\ i[r].device = g[r].device /\ i[r].cred = g[r].cred /\ i[r].state = g[r].state
    OBVIOUS
  <2>1. PICK b \in BOOLEAN : h[r] = [f[r] EXCEPT !.expired = b]
    BY DEF Aged
  <2>2. PICK c \in BOOLEAN : i[r] = [g[r] EXCEPT !.expired = c]
    BY DEF Aged
  <2>3. f[r] \in Record /\ g[r] \in Record
    BY DEF Good, Files
  <2> QED
    BY <2>1, <2>2, <2>3 DEF Record
<1>2. ASSUME NEW k \in Credentials, Retired(h, k)
      PROVE  ~InState(i, k, "active")
  <2>1. Retired(f, k)
    BY <1>1, <1>2 DEF Retired, Holders, Approved
  <2>2. ~InState(g, k, "active")
    BY <2>1 DEF Follows
  <2> QED
    BY <1>1, <2>2 DEF InState, Holders, Approved, Inferred
<1> QED
  BY <1>1, <1>2 DEF Follows

LEMMA NextFollows ==
  IInvFollows /\ [Next]_storeVars => IInvFollows' /\ Follows(records, records')
<1> SUFFICES ASSUME IInvFollows, [Next]_storeVars
             PROVE  Follows(records, records') /\ Follows(records', file') /\ IInv'
  BY DEF IInvFollows, Follows, Retired, InState, Holders, Approved, Inferred
<1>0. IInv' /\ Good(records) /\ Good(file) /\ Follows(records, file)
  BY NextKeepsGood DEF IInvFollows, IInv
<1>1. ASSUME NEW r \in Requests, NEW d \in Devices, NEW old \in Requests \cup {NoRequest},
             Create(r, d, old)
      PROVE  Follows(records, records') /\ Follows(records', file')
  <2>1. /\ Save(Created(Replaced(Pruned(records), old), r, d)) \/ Save(Pruned(records))
        /\ ~records[r].present /\ (old # NoRequest => LivePending(records[old]))
    BY <1>1 DEF Create
  <2> QED
    BY <1>0, <2>1, CreatedFollows, SaveFollows
<1>2. ASSUME NEW r \in Requests, NEW k \in Credentials, Approve(r, k) \/ Enroll(r, k)
      PROVE  Follows(records, records') /\ Follows(records', file')
  <2>1. /\ MayApprove(r, k, FALSE) \/ MayApprove(r, k, TRUE)
        /\ Save(ApprovedAs(records, r, k))
    BY <1>2 DEF Approve, Enroll
  <2> QED
    BY <1>0, <2>1, ApprovedFollows, SaveFollows
<1>3. ASSUME NEW r \in Requests, Claim(r)
      PROVE  Follows(records, records') /\ Follows(records', file')
  BY <1>0, <1>3, PromotedFollows, SaveFollows DEF Claim
<1>4. ASSUME NEW r \in Requests, Expire(r)
      PROVE  Follows(records, records') /\ Follows(records', file')
  <2>1. /\ Aged(records, records) /\ Aged(file, file)
    <3>1. \A x \in Record : x.expired \in BOOLEAN /\ x = [x EXCEPT !.expired = x.expired]
      BY DEF Record
    <3> QED
      BY <1>0, <3>1 DEF Good, Files, Aged
  <2>2. Aged(records, records') /\ Aged(file, file')
    <3>1. /\ records' = [records EXCEPT ![r].expired = records[r].expired \/ records[r].present]
          /\ file'    = [file EXCEPT ![r].expired = file[r].expired \/ file[r].present]
          /\ (records[r].expired \/ records[r].present) \in BOOLEAN
          /\ (file[r].expired \/ file[r].present) \in BOOLEAN
      BY <1>4 DEF Expire
    <3>2. \A q \in Requests \ {r} : records'[q] = records[q] /\ file'[q] = file[q]
      BY <1>0, <3>1 DEF Good, Files
    <3>3. /\ records'[r] = [records[r] EXCEPT !.expired = records[r].expired \/ records[r].present]
          /\ file'[r] = [file[r] EXCEPT !.expired = file[r].expired \/ file[r].present]
      BY <1>0, <3>1 DEF Good, Files
    <3> QED
      BY <2>1, <3>1, <3>2, <3>3 DEF Aged
  <2>3. Follows(records', file')
    BY <1>0, <2>2, ExpiredFollows
  <2>4. Follows(records, records')
    BY <1>0, <2>1, <2>2, ExpiredFollows, SelfFollows
  <2> QED
    BY <2>3, <2>4
<1>5. ASSUME Restart
      PROVE  Follows(records, records') /\ Follows(records', file')
  BY <1>0, <1>5, ReconciledFollows, SelfFollows DEF Restart
<1>6. CASE UNCHANGED storeVars
  BY <1>0, <1>6, SelfFollows DEF storeVars
<1> QED
  BY <1>0, <1>1, <1>2, <1>3, <1>4, <1>5, <1>6 DEF Next

LEMMA AlwaysFollows == Spec => []IInvFollows
<1>1. Init => IInvFollows
  <2>1. Init => records = file
    BY DEF Init
  <2> QED
    BY <2>1, InitIsGood, SelfFollows DEF IInvFollows
<1> QED
  BY <1>1, NextFollows, PTL DEF Spec

(* A credential all of whose records are revoked does not become active in *)
(* a step: not by a late claim or approval, nor by a restart from a file   *)
(* that a failed save has left behind.                                     *)
THEOREM RevokedNeedsEnrollment == Spec => NoRevival
<1>1. IInvFollows /\ [Next]_storeVars
        => \A k \in Credentials : Retired(records, k) => ~InState(records', k, "active")
  BY NextFollows DEF Follows
<1> QED
  BY <1>1, AlwaysFollows, PTL DEF Spec, NoRevival

(* A claimed record goes only when a claim of the same device takes its    *)
(* place (claimRecord).                                                    *)
THEOREM DevicesKeepPairings == Spec => OtherDevicesKept
<1>1. IInvFollows /\ [Next]_storeVars
        => \A r \in Requests :
              records[r].present /\ records[r].claimed /\ ~(records'[r].present)
              => \E q \in Requests : /\ ~records[q].claimed /\ records'[q].claimed
                                     /\ records'[q].device = records[r].device
  BY NextFollows DEF Follows
<1> QED
  BY <1>1, AlwaysFollows, PTL DEF Spec, OtherDevicesKept

-----------------------------------------------------------------------------
(* The store implements the credential ledger                             *)

StatusOf(f) ==
    [k \in Credentials |->
        IF InState(f, k, "active") THEN "active"
        ELSE IF InState(f, k, "provisional") THEN "offered"
        ELSE IF InState(f, k, "revoked") THEN "retired"
        ELSE "unknown"]

(* The ledger's steps, of any two statuses *)
Lapses(s, t) ==
    \A k \in Credentials :
        \/ t[k] = s[k]
        \/ s[k] = "offered" /\ t[k] \in {"unknown", "retired"}

Offers(s, t, k) ==
    /\ s[k] \in {"unknown", "retired"}
    /\ \A j \in Credentials \ {k} : j.gateway = k.gateway => s[j] = "unknown"
    /\ t[k] = "offered"
    /\ \A j \in Credentials \ {k} : t[j] = s[j]

Promotes(s, t, k) ==
    /\ s[k] \in {"offered", "active"}
    /\ t[k] = "active"
    /\ \A j \in Credentials \ {k} :
          IF j.agent = k.agent
          THEN \/ s[j] = "unknown" /\ t[j] = "unknown"
               \/ s[j] # "unknown" /\ t[j] \in {"unknown", "retired"}
          ELSE t[j] = s[j]

StepOf(s, t) == Lapses(s, t) \/ \E k \in Credentials : Offers(s, t, k) \/ Promotes(s, t, k)

Ahead(f, g) == StepOf(StatusOf(f), StatusOf(g))

IInvAhead == IInv /\ Ahead(records, file)

-----------------------------------------------------------------------------
(* Has: some record of credential k is in state s.                         *)
Has(f, k, s) == \E r \in Requests : Approved(f[r]) /\ f[r].cred = k /\ f[r].state = s

LEMMA StatusIs ==
  ASSUME NEW f, Good(f), NEW k \in Credentials
  PROVE  /\ StatusOf(f)[k] = "active" <=> Has(f, k, "active")
         /\ StatusOf(f)[k] = "offered" <=> Has(f, k, "provisional") /\ ~Has(f, k, "active")
         /\ StatusOf(f)[k] = "retired" <=> /\ Has(f, k, "revoked")
                                           /\ ~Has(f, k, "active") /\ ~Has(f, k, "provisional")
         /\ StatusOf(f)[k] = "unknown" <=> \A r \in Requests : Approved(f[r]) => f[r].cred # k
         /\ StatusOf(f)[k] \in {"active", "offered", "retired", "unknown"}
<1>1. \A r \in Requests : Approved(f[r]) =>
         /\ Inferred(f[r]) = f[r].state
         /\ f[r].state \in {"active", "provisional", "revoked"}
  BY DEF Good, Explicit, Inferred, Files, Record, CredentialState
<1>2. /\ InState(f, k, "active") <=> Has(f, k, "active")
      /\ InState(f, k, "provisional") <=> Has(f, k, "provisional")
      /\ InState(f, k, "revoked") <=> Has(f, k, "revoked")
  BY <1>1 DEF InState, Holders, Has
<1>3. (\A r \in Requests : Approved(f[r]) => f[r].cred # k)
        <=> ~Has(f, k, "active") /\ ~Has(f, k, "provisional") /\ ~Has(f, k, "revoked")
  BY <1>1 DEF Has
<1> QED
  BY <1>2, <1>3 DEF StatusOf

(* Records whose credentials and states agree have the same statuses.      *)
LEMMA SameStatus ==
  ASSUME NEW f, NEW g, Good(f), Good(g),
         \A k \in Credentials : /\ Has(f, k, "active") <=> Has(g, k, "active")
                                /\ Has(f, k, "provisional") /\ ~Has(f, k, "active")
                                     <=> Has(g, k, "provisional") /\ ~Has(g, k, "active")
                                /\ (\A r \in Requests : Approved(f[r]) => f[r].cred # k)
                                     <=> (\A r \in Requests : Approved(g[r]) => g[r].cred # k)
  PROVE  StatusOf(f) = StatusOf(g)
<1>1. ASSUME NEW k \in Credentials PROVE StatusOf(f)[k] = StatusOf(g)[k]
  BY StatusIs
<1> QED
  BY <1>1 DEF StatusOf

LEMMA SelfAhead ==
  ASSUME NEW f
  PROVE  Ahead(f, f)
  BY DEF Ahead, StepOf, Lapses

-----------------------------------------------------------------------------
(* create: an approved record may be deleted or revoked, but no claimed    *)
(* one and no revoked one: offers lapse, and nothing else changes.         *)
LEMMA LapsingAhead ==
  ASSUME NEW f, NEW g, Good(f), Good(g),
         \A r \in Requests : Approved(g[r]) =>
            /\ Approved(f[r]) /\ g[r].cred = f[r].cred
            /\ g[r].state \in {f[r].state, "revoked"},
         \A r \in Requests : Approved(f[r]) /\ (f[r].claimed \/ f[r].state = "revoked") =>
            Approved(g[r]) /\ g[r].cred = f[r].cred /\ g[r].state = f[r].state
  PROVE  Ahead(f, g)
<1> SUFFICES ASSUME NEW k \in Credentials
             PROVE  \/ StatusOf(g)[k] = StatusOf(f)[k]
                    \/ StatusOf(f)[k] = "offered" /\ StatusOf(g)[k] \in {"unknown", "retired"}
  BY DEF Ahead, StepOf, Lapses
<1>1. Has(f, k, "active") <=> Has(g, k, "active")
  <2>1. Has(g, k, "active") => Has(f, k, "active")
    BY DEF Has
  <2>2. ASSUME Has(f, k, "active") PROVE Has(g, k, "active")
    <3>1. PICK r \in Requests : Approved(f[r]) /\ f[r].cred = k /\ f[r].state = "active"
      BY <2>2 DEF Has
    <3>2. PICK q \in Holders(f, k) : f[q].claimed /\ f[q].state = "active"
      BY <3>1 DEF Good, Anchored
    <3> QED
      BY <3>2 DEF Has, Holders
  <2> QED
    BY <2>1, <2>2
<1>2. Has(f, k, "revoked") => Has(g, k, "revoked")
  BY DEF Has
<1>3. Has(g, k, "provisional") => Has(f, k, "provisional")
  BY DEF Has
<1>4. (\A r \in Requests : Approved(f[r]) => f[r].cred # k)
        => (\A r \in Requests : Approved(g[r]) => g[r].cred # k)
  OBVIOUS
<1>5. CASE StatusOf(f)[k] = "active"
  BY <1>1, <1>5, StatusIs
<1>6. CASE StatusOf(f)[k] = "offered"
  BY <1>1, <1>6, StatusIs
<1>7. CASE StatusOf(f)[k] = "retired"
  BY <1>1, <1>2, <1>3, <1>7, StatusIs
<1>8. CASE StatusOf(f)[k] = "unknown"
  BY <1>4, <1>8, StatusIs
<1> QED
  BY <1>5, <1>6, <1>7, <1>8, StatusIs

LEMMA CreatedAhead ==
  ASSUME Good(records), NEW r \in Requests, NEW d \in Devices,
         NEW old \in Requests \cup {NoRequest},
         ~records[r].present, old # NoRequest => LivePending(records[old]),
         NEW g, Good(g),
         g \in {Pruned(records), Created(Replaced(Pruned(records), old), r, d)}
  PROVE  Ahead(records, g)
<1> DEFINE kept == Pruned(records)
           next == Created(Replaced(kept, old), r, d)
           Kept(x, y) == Approved(y) => /\ Approved(x) /\ y.cred = x.cred
                                        /\ y.state \in {x.state, "revoked"}
           Firm(x, y) == Approved(x) /\ (x.claimed \/ x.state = "revoked") =>
                            Approved(y) /\ y.cred = x.cred /\ y.state = x.state
<1>0. Explicit(records)
  BY DEF Good
<1>1. records \in [Requests -> Record]
  BY DEF Good, Files
<1>2. \A q \in Requests : kept[q] = IF Prunable(records[q]) THEN Blank ELSE records[q]
  BY DEF Pruned
<1>3. \A q \in Requests :
         next[q] = IF q = r THEN [Blank EXCEPT !.present = TRUE, !.device = d]
                   ELSE IF q = old THEN [kept[q] EXCEPT !.state = "revoked", !.expired = TRUE]
                   ELSE kept[q]
  <2> DEFINE replaced == Replaced(kept, old)
  <2>1. \A q \in Requests :
           replaced[q] = IF q = old THEN [kept[q] EXCEPT !.state = "revoked", !.expired = TRUE]
                         ELSE kept[q]
    BY DEF Replaced, Pruned
  <2>2. DOMAIN replaced = Requests
    BY DEF Replaced, Pruned
  <2> QED
    BY <2>1, <2>2 DEF Created
<1> HIDE DEF kept, next
<1>4. ~Approved(Blank)
  BY DEF Approved, Blank
<1>5. \A q \in Requests : Prunable(records[q]) /\ Approved(records[q]) =>
                             ~records[q].claimed /\ records[q].state # "revoked"
  BY <1>0 DEF Prunable, Inferred, Explicit
<1>6. ASSUME NEW q \in Requests PROVE Kept(records[q], kept[q]) /\ Firm(records[q], kept[q])
  BY <1>2, <1>4, <1>5
<1>7. ASSUME NEW q \in Requests PROVE Kept(records[q], next[q]) /\ Firm(records[q], next[q])
  <2>1. CASE q = r
    <3>1. ~Approved(next[q]) /\ ~Approved(records[q])
      BY <1>3, <2>1 DEF Approved, Blank
    <3> QED
      BY <3>1
  <2>2. CASE q # r /\ q = old
    <3>1. records[q] \in Record /\ LivePending(records[q])
      BY <1>1, <2>2, NamesAssumption
    <3>2. next[q] = [records[q] EXCEPT !.state = "revoked", !.expired = TRUE]
      BY <1>2, <1>3, <2>2, <3>1 DEF LivePending, Prunable
    <3>3. next[q].state = "revoked" /\ next[q].cred = records[q].cred /\ next[q].present = records[q].present
      BY <3>1, <3>2 DEF Record
    <3>4. ~records[q].claimed /\ (Approved(records[q]) => records[q].state # "revoked")
      BY <3>1 DEF LivePending, Inferred
    <3> QED
      BY <3>3, <3>4 DEF Approved
  <2>3. CASE q # r /\ q # old
    BY <1>3, <1>6, <2>3
  <2> QED
    BY <2>1, <2>2, <2>3
<1>8. CASE g = kept
  BY <1>6, <1>8, LapsingAhead
<1>9. CASE g = next
  BY <1>7, <1>9, LapsingAhead
<1> QED
  BY <1>8, <1>9 DEF kept, next

(* approve: a credential that is not active is offered, or stays so.       *)
LEMMA ApprovedAhead ==
  ASSUME Good(records), NEW r \in Requests, NEW k \in Credentials, NEW reenroll \in BOOLEAN,
         MayApprove(r, k, reenroll), Good(ApprovedAs(records, r, k))
  PROVE  Ahead(records, ApprovedAs(records, r, k))
<1> DEFINE g == ApprovedAs(records, r, k)
           shared == \E q \in Holders(records, k) \ {r} : Inferred(records[q]) = "active"
<1>1. records \in [Requests -> Record] /\ Explicit(records)
  BY DEF Good, Files
<1>2. /\ \A q \in Requests \ {r} : g[q] = records[q]
      /\ g[r] = [records[r] EXCEPT !.cred = k,
                                  !.state = IF shared THEN "active" ELSE "provisional"]
  BY <1>1 DEF ApprovedAs
<1>3. /\ records[r].present /\ ~records[r].claimed /\ records[r].state # "revoked"
      /\ records[r].cred \in {NoCred, k}
      /\ \A q \in Requests \ {r} :
            Approved(records[q]) /\ records[q].cred.gateway = k.gateway => records[q].cred = k
  BY DEF MayApprove, Open
<1>4. /\ Approved(g[r]) /\ g[r].cred = k /\ g[r].state = IF shared THEN "active" ELSE "provisional"
  <2>1. g[r].cred = k /\ g[r].present /\ g[r].state = IF shared THEN "active" ELSE "provisional"
    BY <1>1, <1>2, <1>3 DEF Record
  <2> QED
    BY <2>1, CredentialsAssumption DEF Approved
<1>5. shared <=> \E q \in Requests \ {r} : /\ Approved(records[q]) /\ records[q].cred = k
                                          /\ records[q].state = "active"
  BY <1>1 DEF Holders, Inferred, Explicit
<1>6. \A q \in Requests : Approved(g[q]) => g[q].state \in {"active", "provisional", "revoked"}
  BY DEF Good, Files, Record, CredentialState, Explicit
<1> HIDE DEF g, shared
<1>7. ASSUME NEW j \in Credentials, j # k
      PROVE  StatusOf(g)[j] = StatusOf(records)[j]
  <2>1. \A q \in Requests : Approved(g[q]) /\ g[q].cred = j
                               <=> q # r /\ Approved(records[q]) /\ records[q].cred = j
    BY <1>2, <1>4, <1>7
  <2>2. ~(Approved(records[r]) /\ records[r].cred = j)
    BY <1>3, <1>7 DEF Approved
  <2>3. \A st : Has(g, j, st) <=> Has(records, j, st)
    BY <1>2, <2>1, <2>2 DEF Has
  <2>4. (\A q \in Requests : Approved(g[q]) => g[q].cred # j)
           <=> (\A q \in Requests : Approved(records[q]) => records[q].cred # j)
    BY <2>1, <2>2
  <2>5. Good(g)
    BY DEF g
  <2> QED
    BY <2>3, <2>4, <2>5, StatusIs
<1>8. Has(records, k, "active") => shared
  <2> SUFFICES ASSUME NEW q \in Requests, Approved(records[q]), records[q].cred = k,
                      records[q].state = "active"
               PROVE  shared
    BY DEF Has
  <2>1. PICK p \in Holders(records, k) : records[p].claimed /\ records[p].state = "active"
    BY DEF Good, Anchored
  <2> QED
    BY <1>3, <1>5, <2>1 DEF Holders
<1>9. CASE shared
  <2>1. StatusOf(g)[k] = "active" /\ StatusOf(records)[k] = "active"
    BY <1>4, <1>5, <1>9, StatusIs DEF Has, g
  <2>2. \A j \in Credentials : StatusOf(g)[j] = StatusOf(records)[j]
    BY <1>7, <2>1
  <2> QED
    BY <2>2 DEF Ahead, StepOf, Lapses, g
<1>10. CASE ~shared
  <2>1. StatusOf(g)[k] = "offered" /\ StatusOf(records)[k] # "active"
    <3>1. \A q \in Requests : Approved(g[q]) /\ g[q].cred = k => g[q].state # "active"
      BY <1>2, <1>4, <1>5, <1>10
    <3> QED
      BY <1>4, <1>8, <1>10, <3>1, StatusIs DEF Has, g
  <2>2. CASE StatusOf(records)[k] = "offered"
    <3>1. \A j \in Credentials : StatusOf(g)[j] = StatusOf(records)[j]
      BY <1>7, <2>1, <2>2
    <3> QED
      BY <3>1 DEF Ahead, StepOf, Lapses, g
  <2>3. CASE StatusOf(records)[k] \in {"unknown", "retired"}
    <3>1. ASSUME NEW j \in Credentials \ {k}, j.gateway = k.gateway
          PROVE  StatusOf(records)[j] = "unknown"
      <4>1. \A q \in Requests : Approved(records[q]) => records[q].cred # j
        BY <1>3, <3>1 DEF Approved
      <4> QED
        BY <4>1, StatusIs
    <3>2. Offers(StatusOf(records), StatusOf(g), k)
      BY <1>7, <2>1, <2>3, <3>1 DEF Offers
    <3> QED
      BY <3>2 DEF Ahead, StepOf, g
  <2> QED
    BY <2>1, <2>2, <2>3, StatusIs
<1> QED
  BY <1>9, <1>10

(* claim: the switch of the Agent's active credential *)
LEMMA PromotedAhead ==
  ASSUME Good(records), NEW r \in Requests, Claimable(r), Good(Promoted(records, r))
  PROVE  Ahead(records, Promoted(records, r))
<1> DEFINE k == records[r].cred
           g == Promoted(records, r)
           Overwritten(q) == /\ q # r
                             /\ Approved(records[q])
                             /\ records[q].claimed
                             /\ records[q].cred.agent = k.agent
                             /\ records[q].device = records[r].device
           Cut(q) == IF Overwritten(q) THEN Blank
                     ELSE IF ~Approved(records[q]) \/ records[q].cred.agent # k.agent THEN records[q]
                     ELSE [records[q] EXCEPT !.state = IF records[q].cred = k THEN "active" ELSE "revoked"]
<1>1. records \in [Requests -> Record]
  BY DEF Good, Files
<1>2. \A q \in Requests : g[q] = IF q = r THEN [Cut(q) EXCEPT !.claimed = TRUE] ELSE Cut(q)
  BY DEF Promoted
<1>3. /\ Approved(records[r]) /\ Inferred(records[r]) # "revoked" /\ k \in Credentials
  BY <1>1 DEF Claimable, Approved, Record
<1>4. Approved(g[r]) /\ g[r].cred = k /\ g[r].state = "active"
  <2>1. g[r] = [[records[r] EXCEPT !.state = "active"] EXCEPT !.claimed = TRUE]
    BY <1>2, <1>3
  <2>2. g[r].present = records[r].present /\ g[r].cred = k /\ g[r].state = "active"
    BY <1>1, <2>1 DEF Record
  <2> QED
    BY <1>3, <2>2 DEF Approved
<1>5. ASSUME NEW q \in Requests, Approved(records[q]), records[q].cred.agent = k.agent, q # r
      PROVE  \/ ~Approved(g[q])
             \/ /\ g[q].cred = records[q].cred
                /\ g[q].state = IF records[q].cred = k THEN "active" ELSE "revoked"
  <2>1. CASE Overwritten(q)
    <3>1. g[q] = Blank
      BY <1>2, <1>5, <2>1
    <3> QED
      BY <3>1 DEF Approved, Blank
  <2>2. CASE ~Overwritten(q)
    <3>1. g[q] = [records[q] EXCEPT !.state = IF records[q].cred = k THEN "active" ELSE "revoked"]
      BY <1>2, <1>5, <2>2
    <3> QED
      BY <1>1, <3>1 DEF Record
  <2> QED
    BY <2>1, <2>2
<1>6. ASSUME NEW q \in Requests, ~Approved(records[q]) \/ records[q].cred.agent # k.agent, q # r
      PROVE  g[q] = records[q]
  BY <1>2, <1>6
<1>7. Good(g)
  OBVIOUS
<1> HIDE DEF g, Overwritten, Cut
<1>8. StatusOf(g)[k] = "active"
  BY <1>3, <1>4, <1>7, StatusIs DEF Has
<1>9. StatusOf(records)[k] \in {"offered", "active"}
  <2>1. records[r].state \in {"active", "provisional"}
    BY <1>1, <1>3 DEF Good, Explicit, Inferred, Record, CredentialState
  <2> QED
    BY <1>3, <2>1, StatusIs DEF Has
<1>10. ASSUME NEW j \in Credentials \ {k}, j.agent = k.agent
       PROVE  \/ StatusOf(records)[j] = "unknown" /\ StatusOf(g)[j] = "unknown"
              \/ StatusOf(records)[j] # "unknown" /\ StatusOf(g)[j] \in {"unknown", "retired"}
  <2>1. ASSUME NEW q \in Requests, Approved(g[q]), g[q].cred = j
        PROVE  Approved(records[q]) /\ records[q].cred = j /\ g[q].state = "revoked"
    <3>1. q # r
      BY <1>4, <1>10, <2>1
    <3>2. Approved(records[q]) /\ records[q].cred.agent = k.agent
      BY <1>6, <1>10, <2>1, <3>1
    <3> QED
      BY <1>5, <1>10, <2>1, <3>1, <3>2
  <2>2. StatusOf(g)[j] \in {"unknown", "retired"}
    <3>1. ~Has(g, j, "active") /\ ~Has(g, j, "provisional")
      BY <2>1 DEF Has
    <3> QED
      BY <1>7, <3>1, StatusIs
  <2>3. StatusOf(records)[j] = "unknown" => StatusOf(g)[j] = "unknown"
    BY <1>7, <2>1, StatusIs
  <2> QED
    BY <2>2, <2>3
<1>11. ASSUME NEW j \in Credentials \ {k}, j.agent # k.agent
       PROVE  StatusOf(g)[j] = StatusOf(records)[j]
  <2>1. ASSUME NEW q \in Requests
        PROVE  /\ Approved(g[q]) /\ g[q].cred = j <=> Approved(records[q]) /\ records[q].cred = j
               /\ Approved(records[q]) /\ records[q].cred = j => g[q].state = records[q].state
    BY <1>3, <1>4, <1>5, <1>6, <1>11
  <2>2. \A st : Has(g, j, st) <=> Has(records, j, st)
    BY <2>1 DEF Has
  <2>3. (\A q \in Requests : Approved(g[q]) => g[q].cred # j)
           <=> (\A q \in Requests : Approved(records[q]) => records[q].cred # j)
    BY <2>1
  <2> QED
    BY <1>7, <2>2, <2>3, StatusIs
<1>12. Promotes(StatusOf(records), StatusOf(g), k)
  BY <1>8, <1>9, <1>10, <1>11 DEF Promotes
<1> QED
  BY <1>3, <1>12 DEF Ahead, StepOf, g

(* The reload of a good file changes no status: it may turn a revoked      *)
(* record of the active credential active, but the credential was so.      *)
LEMMA ReconciledStatus ==
  ASSUME NEW f, Good(f), NEW w \in Winners(f), Good(Reconciled(f, w))
  PROVE  StatusOf(Reconciled(f, w)) = StatusOf(f)
<1> DEFINE g == Reconciled(f, w)
<1>1. f \in [Requests -> Record] /\ Explicit(f) /\ Settled(f) /\ OneActive(f)
  BY DEF Good, Files
<1>2. \A r \in Requests :
         g[r] = IF Approved(f[r])
                THEN [f[r] EXCEPT !.state = ReconciledState(f[r], w[f[r].cred.agent])]
                ELSE f[r]
  BY DEF Reconciled
<1>3. Good(g)
  OBVIOUS
<1> HIDE DEF g
<1>4. \A r \in Requests :
         /\ Approved(g[r]) <=> Approved(f[r])
         /\ Approved(f[r]) => /\ g[r].cred = f[r].cred
                              /\ g[r].state = ReconciledState(f[r], w[f[r].cred.agent])
  BY <1>1, <1>2 DEF Record, Approved
<1>5. ASSUME NEW r \in Requests, Approved(f[r]), f[r].cred # w[f[r].cred.agent]
      PROVE  g[r].state = f[r].state
  <2>1. f[r].cred \in Credentials /\ f[r].cred.agent \in Agents
    BY <1>1, <1>5 DEF Approved, Record
  <2>2. Inferred(f[r]) = f[r].state
    BY <1>1, <1>5 DEF Inferred, Explicit
  <2>3. f[r].state # "active"
    <3>1. f[r].state = "active" => f[r].cred \in ActiveCredentials(f, f[r].cred.agent)
      BY <1>5, <2>1, <2>2 DEF ActiveCredentials, InState, Holders
    <3>2. ASSUME NEW k \in ActiveCredentials(f, f[r].cred.agent), f[r].state = "active"
          PROVE  k = f[r].cred
      <4>1. PICK q \in Requests : Approved(f[q]) /\ f[q].cred = k /\ Inferred(f[q]) = "active"
        BY DEF ActiveCredentials, InState, Holders
      <4>2. f[q].state = "active" /\ k.agent = f[r].cred.agent
        BY <1>1, <4>1 DEF Inferred, Explicit, ActiveCredentials
      <4> QED
        BY <1>1, <1>5, <3>2, <4>1, <4>2 DEF OneActive
    <3> QED
      BY <1>5, <2>1, <3>1, <3>2 DEF Winners
  <2>4. f[r].claimed => f[r].state = "revoked"
    BY <1>1, <1>5, <2>3 DEF Settled, Approved
  <2> QED
    BY <1>4, <1>5, <2>2, <2>3, <2>4 DEF ReconciledState
<1>6. ASSUME NEW k \in Credentials, w[k.agent] = k
      PROVE  Has(f, k, "active") /\ Has(g, k, "active")
  <2>1. k.agent \in Agents /\ k # NoCred
    OBVIOUS
  <2>2. k \in ActiveCredentials(f, k.agent)
    BY <1>6, <2>1 DEF Winners
  <2>3. PICK r \in Requests : Approved(f[r]) /\ f[r].cred = k /\ Inferred(f[r]) = "active"
    BY <2>2 DEF ActiveCredentials, InState, Holders
  <2>4. f[r].state = "active"
    BY <1>1, <2>3 DEF Inferred, Explicit
  <2>5. Approved(g[r]) /\ g[r].cred = k /\ g[r].state = "active"
    BY <1>4, <1>6, <2>1, <2>3 DEF ReconciledState
  <2> QED
    BY <2>3, <2>4, <2>5 DEF Has
<1>7. ASSUME NEW k \in Credentials, w[k.agent] # k
      PROVE  \A st : Has(f, k, st) <=> Has(g, k, st)
  BY <1>4, <1>5, <1>7 DEF Has
<1>8. ASSUME NEW k \in Credentials
      PROVE  StatusOf(g)[k] = StatusOf(f)[k]
  <2>1. CASE w[k.agent] = k
    BY <1>3, <1>6, <2>1, StatusIs
  <2>2. CASE w[k.agent] # k
    <3>1. (\A r \in Requests : Approved(f[r]) => f[r].cred # k)
            <=> (\A r \in Requests : Approved(g[r]) => g[r].cred # k)
      BY <1>4
    <3> QED
      BY <1>3, <1>7, <2>2, <3>1, StatusIs
  <2> QED
    BY <2>1, <2>2
<1> QED
  BY <1>8 DEF StatusOf, g

-----------------------------------------------------------------------------
LEMMA SaveAhead ==
  ASSUME Ahead(records, file), NEW g, Ahead(records, g), Save(g)
  PROVE  Ahead(records, records') /\ Ahead(records', file')
<1>1. CASE records' = g /\ file' = g
  BY <1>1, SelfAhead
<1>2. CASE records' = records /\ file' \in {file, g}
  BY <1>2, SelfAhead
<1> QED
  BY <1>1, <1>2 DEF Save

(* The clock changes no status. *)
LEMMA AgedStatus ==
  ASSUME NEW f, Good(f), NEW h, Good(h), Aged(f, h)
  PROVE  StatusOf(h) = StatusOf(f)
<1>1. ASSUME NEW r \in Requests
      PROVE  /\ Approved(h[r]) <=> Approved(f[r])
             /\ h[r].cred = f[r].cred /\ h[r].state = f[r].state
  <2>1. PICK b \in BOOLEAN : h[r] = [f[r] EXCEPT !.expired = b]
    BY DEF Aged
  <2>2. f[r] \in Record
    BY DEF Good, Files
  <2> QED
    BY <2>1, <2>2 DEF Record, Approved
<1>2. \A k \in Credentials : \A st : Has(f, k, st) <=> Has(h, k, st)
  BY <1>1 DEF Has
<1>3. \A k \in Credentials : (\A r \in Requests : Approved(f[r]) => f[r].cred # k)
                               <=> (\A r \in Requests : Approved(h[r]) => h[r].cred # k)
  BY <1>1
<1> QED
  BY <1>2, <1>3, SameStatus

LEMMA ExpireAges ==
  ASSUME Good(records), Good(file), NEW r \in Requests, Expire(r)
  PROVE  Aged(records, records') /\ Aged(file, file')
<1>1. \A x \in Record : x.expired \in BOOLEAN /\ x = [x EXCEPT !.expired = x.expired]
  BY DEF Record
<1>2. /\ records' = [records EXCEPT ![r].expired = records[r].expired \/ records[r].present]
      /\ file'    = [file EXCEPT ![r].expired = file[r].expired \/ file[r].present]
      /\ (records[r].expired \/ records[r].present) \in BOOLEAN
      /\ (file[r].expired \/ file[r].present) \in BOOLEAN
  BY DEF Expire
<1>3. \A q \in Requests \ {r} : records'[q] = records[q] /\ file'[q] = file[q]
  BY <1>2 DEF Good, Files
<1>4. /\ records'[r] = [records[r] EXCEPT !.expired = records[r].expired \/ records[r].present]
      /\ file'[r] = [file[r] EXCEPT !.expired = file[r].expired \/ file[r].present]
  BY <1>2 DEF Good, Files
<1> QED
  BY <1>1, <1>2, <1>3, <1>4 DEF Good, Files, Aged

LEMMA NextAhead ==
  IInvAhead /\ [Next]_storeVars => IInvAhead' /\ Ahead(records, records')
<1> SUFFICES ASSUME IInvAhead, [Next]_storeVars
             PROVE  IInv' /\ Ahead(records, records') /\ Ahead(records', file')
  BY DEF IInvAhead, Ahead, StepOf, Lapses, Offers, Promotes, StatusOf, InState, Holders,
         Approved, Inferred
<1>1. IInv' /\ Good(records) /\ Good(file) /\ Ahead(records, file)
  BY NextKeepsGood DEF IInvAhead, IInv
<1>2. Good(records') /\ Good(file')
  BY <1>1 DEF IInv, Good, Files, OneActive, Bound, Anchored, Settled, Explicit, Holders, Approved
<1>3. ASSUME NEW r \in Requests, NEW d \in Devices, NEW old \in Requests \cup {NoRequest},
             Create(r, d, old)
      PROVE  Ahead(records, records') /\ Ahead(records', file')
  <2> DEFINE kept == Pruned(records)
             next == Created(Replaced(kept, old), r, d)
  <2>1. /\ ~records[r].present /\ (old # NoRequest => LivePending(records[old]))
        /\ Save(next) \/ Save(kept)
    BY <1>3 DEF Create
  <2>2. PICK g \in {kept, next} : Save(g)
    BY <2>1
  <2>3. Good(kept)
    BY <1>1, PrunedKeepsGood
  <2>4. old # NoRequest => LivePending(kept[old])
    BY <2>1 DEF Pruned, Prunable, LivePending
  <2>5. Good(Replaced(kept, old))
    BY <2>3, <2>4, ReplacedKeepsGood
  <2>6. ~Replaced(kept, old)[r].present
    BY <2>1, <2>3 DEF Replaced, Pruned, Blank, LivePending, Good, Files
  <2>7. Good(next)
    BY <2>5, <2>6, CreatedKeepsGood
  <2>8. Ahead(records, g)
    BY <1>1, <2>1, <2>2, <2>3, <2>7, CreatedAhead
  <2> QED
    BY <1>1, <2>2, <2>8, SaveAhead
<1>4. ASSUME NEW r \in Requests, NEW k \in Credentials, Approve(r, k) \/ Enroll(r, k)
      PROVE  Ahead(records, records') /\ Ahead(records', file')
  <2>1. PICK reenroll \in BOOLEAN : MayApprove(r, k, reenroll)
    BY <1>4 DEF Approve, Enroll
  <2>2. Save(ApprovedAs(records, r, k))
    BY <1>4 DEF Approve, Enroll
  <2>3. Good(ApprovedAs(records, r, k))
    BY <1>1, <2>1, ApprovedKeepsGood
  <2>4. Ahead(records, ApprovedAs(records, r, k))
    BY <1>1, <2>1, <2>3, ApprovedAhead
  <2> QED
    BY <1>1, <2>2, <2>4, SaveAhead
<1>5. ASSUME NEW r \in Requests, Claim(r)
      PROVE  Ahead(records, records') /\ Ahead(records', file')
  <2>1. Claimable(r) /\ Save(Promoted(records, r))
    BY <1>5 DEF Claim
  <2>2. Good(Promoted(records, r))
    BY <1>1, <2>1, PromotedKeepsGood DEF Claimable
  <2> QED
    BY <1>1, <2>1, <2>2, PromotedAhead, SaveAhead
<1>6. ASSUME NEW r \in Requests, Expire(r)
      PROVE  Ahead(records, records') /\ Ahead(records', file')
  <2>1. StatusOf(records') = StatusOf(records) /\ StatusOf(file') = StatusOf(file)
    BY <1>1, <1>2, <1>6, ExpireAges, AgedStatus
  <2> QED
    BY <1>1, <2>1 DEF Ahead, StepOf, Lapses
<1>7. ASSUME Restart
      PROVE  Ahead(records, records') /\ Ahead(records', file')
  <2>1. PICK w \in Winners(file) : records' = Reconciled(file, w) /\ file' = records'
    BY <1>7 DEF Restart
  <2>2. StatusOf(records') = StatusOf(file)
    BY <1>1, <1>2, <2>1, ReconciledStatus
  <2> QED
    BY <1>1, <2>1, <2>2, SelfAhead DEF Ahead
<1>8. CASE UNCHANGED storeVars
  BY <1>1, <1>8, SelfAhead DEF storeVars
<1> QED
  BY <1>1, <1>3, <1>4, <1>5, <1>6, <1>7, <1>8 DEF Next

(* A ledger step of statuses is a step of the ledger.                      *)
LEMMA AheadIsLedgerStep ==
  ASSUME Ahead(records, records')
  PROVE  [Ledger!Next]_CredentialStatus
<1> DEFINE s == CredentialStatus
           t == CredentialStatus'
<1>1. s = StatusOf(records) /\ t = StatusOf(records')
  BY DEF CredentialStatus, StatusOf, InState, Holders, Approved, Inferred
<1>2. /\ s \in [Credentials -> Ledger!Statuses] /\ t \in [Credentials -> Ledger!Statuses]
  BY DEF CredentialStatus, Ledger!Statuses
<1>3. CASE Lapses(s, t)
  BY <1>2, <1>3 DEF Lapses, Ledger!Next, Ledger!Lapse
<1>4. ASSUME NEW k \in Credentials, Offers(s, t, k)
      PROVE  Ledger!Next
  <2>1. t = [s EXCEPT ![k] = "offered"]
    BY <1>2, <1>4 DEF Offers
  <2>2. Ledger!Offer(k)
    BY <1>4, <2>1 DEF Offers, Ledger!Offer, Ledger!Free
  <2> QED
    BY <2>2 DEF Ledger!Next
<1>5. ASSUME NEW k \in Credentials, Promotes(s, t, k)
      PROVE  Ledger!Next
  <2>1. Ledger!Promote(k)
    BY <1>2, <1>5 DEF Promotes, Ledger!Promote
  <2> QED
    BY <2>1 DEF Ledger!Next
<1> QED
  BY <1>1, <1>3, <1>4, <1>5 DEF Ahead, StepOf

LEMMA GoodIsLedgerStart == Good(records) => Ledger!Init
<1> SUFFICES ASSUME Good(records) PROVE Ledger!Init
  OBVIOUS
<1>1. CredentialStatus = StatusOf(records)
  BY DEF CredentialStatus, StatusOf
<1>2. CredentialStatus \in [Credentials -> Ledger!Statuses]
  BY DEF CredentialStatus, Ledger!Statuses
<1>3. Ledger!OnePerAgent
  BY <1>1, StatusIs DEF Ledger!OnePerAgent, Has, Good, OneActive
<1>4. ASSUME NEW k \in Credentials, CredentialStatus[k] # "unknown"
      PROVE  Ledger!Free(k)
  <2>1. PICK r \in Requests : Approved(records[r]) /\ records[r].cred = k
    BY <1>1, <1>4, StatusIs
  <2>2. ASSUME NEW j \in Credentials \ {k}, j.gateway = k.gateway
        PROVE  CredentialStatus[j] = "unknown"
    <3>1. \A q \in Requests : Approved(records[q]) => records[q].cred # j
      BY <2>1, <2>2 DEF Good, Bound
    <3> QED
      BY <1>1, <3>1, StatusIs
  <2> QED
    BY <2>2 DEF Ledger!Free
<1> QED
  BY <1>2, <1>3, <1>4 DEF Ledger!Init

(* The pairing store implements the credential ledger: every create,       *)
(* approve, enroll, claim, failed save and restart is one offer, lapse or  *)
(* switch of credentials, or changes no credential at all.                 *)
THEOREM StoreImplementsLedger == HistorySpec => ImplementsLedger
<1>1. HistoryInit => IInvAhead /\ Ledger!Init
  <2>1. Init => records = file
    BY DEF Init
  <2> QED
    BY <2>1, InitIsGood, SelfAhead, GoodIsLedgerStart DEF HistoryInit, IInvAhead, IInv
<1>2. [HistoryNext]_<<storeVars, retired>> => [Next]_storeVars
  BY DEF HistoryNext, storeVars
<1>3. IInvAhead /\ [Next]_storeVars => IInvAhead' /\ [Ledger!Next]_CredentialStatus
  BY NextAhead, AheadIsLedgerStep
<1> QED
  BY <1>1, <1>2, <1>3, PTL DEF HistorySpec, ImplementsLedger, Ledger!Spec
=============================================================================
