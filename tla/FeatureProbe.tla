----------------------------- MODULE FeatureProbe -----------------------------
(***************************************************************************)
(* A client is told which features its Agent offers (agentFeatureAvailable *)
(* and the answer of /bridge/capabilities).  A Gateway announces them when *)
(* it connects and may come back with others or be gone; what was found is *)
(* kept for a while, longer when the feature was there.                    *)
(***************************************************************************)
EXTENDS Naturals

CONSTANTS
    Features,        \* features with a permission, "kanban:execute"
    AvailableFor,    \* 15 000 ms: how long it is kept that one is there
    UnavailableFor,  \* 5 000 ms: and that it is not
    MaxTime          \* bound on the clock

VARIABLES
    offered,   \* what the Gateway of the Agent announced; none when it is offline
    probed,    \* agentFeatureProbeCache: feature -> what was found and until when it counts
    since,     \* feature -> when it was last there, when last not
    told,      \* feature -> what the client was told last, and when
    now        \* the clock

probeVars == <<offered, probed, since, told, now>>

ASSUME ProbeConstantsAssumption ==
    AvailableFor \in Nat /\ UnavailableFor \in Nat /\ MaxTime \in Nat

Never == [available |-> FALSE, expiresAt |-> 0]

ProbeInit ==
    /\ offered \in SUBSET Features
    /\ probed = [f \in Features |-> Never]
    /\ since = [f \in Features |-> [there |-> 0, gone |-> 0]]
    /\ told = [f \in Features |-> [available |-> FALSE, at |-> 0]]
    /\ now = 0

Tick ==
    /\ now < MaxTime
    /\ now' = now + 1
    /\ since' = [f \in Features |->
         [there |-> IF f \in offered THEN now + 1 ELSE since[f].there,
          gone |-> IF f \in offered THEN since[f].gone ELSE now + 1]]
    /\ UNCHANGED <<offered, probed, told>>

(* The Gateway's hello announces its features, or it goes offline. *)
Announce(features) ==
    /\ offered' = features
    /\ since' = [f \in Features |->
         [there |-> IF f \in features THEN now ELSE since[f].there,
          gone |-> IF f \in features THEN since[f].gone ELSE now]]
    /\ UNCHANGED <<probed, told, now>>

(* Mutant: what counts is looked up and counts for longer. *)
FoundAgain(f) ==
    IF probed[f].expiresAt > now
    THEN [probed[f] EXCEPT !.expiresAt = now + AvailableFor]
    ELSE [available |-> f \in offered,
          expiresAt |-> now + IF f \in offered THEN AvailableFor ELSE UnavailableFor]

(* agentFeatureAvailable: what was found counts until it expires *)
Found(f) ==
    IF probed[f].expiresAt > now THEN probed[f]
    ELSE [available |-> f \in offered,
          expiresAt |-> now + IF f \in offered THEN AvailableFor ELSE UnavailableFor]

(* A client whose token grants these asks; for the others nothing is looked up. *)
Capabilities(granted) ==
    /\ probed' = [f \in Features |-> IF f \in granted THEN Found(f) ELSE probed[f]]
    /\ told' = [f \in Features |-> [available |-> f \in granted /\ Found(f).available, at |-> now]]
    /\ UNCHANGED <<offered, since, now>>

ProbeNext ==
    \/ Tick
    \/ \E features \in SUBSET Features : Announce(features) \/ Capabilities(features)

ProbeSpec == ProbeInit /\ [][ProbeNext]_probeVars

-----------------------------------------------------------------------------
ProbeTypeOK ==
    /\ offered \subseteq Features
    /\ \A f \in Features :
        probed[f].available \in BOOLEAN /\ probed[f].expiresAt <= now + AvailableFor + UnavailableFor
    /\ now \in 0..MaxTime

(* However often clients ask, one is told that a feature is there only if  *)
(* it was within the last 15 seconds, and a feature that is back is not    *)
(* held to be missing for more than 5: asking does not keep an answer.     *)
ToldOfTheRecent ==
    \A f \in Features :
        /\ told[f].available => told[f].at <= since[f].there + AvailableFor
        /\ probed[f].expiresAt > now =>
              IF probed[f].available THEN probed[f].expiresAt <= since[f].there + AvailableFor
              ELSE probed[f].expiresAt <= since[f].gone + UnavailableFor
===============================================================================
