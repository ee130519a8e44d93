---------------------------- MODULE MCClientEvents ----------------------------
(***************************************************************************)
(* The event stream of the clients and two bounded things beside it: the   *)
(* buffer of frames and the rate limit of the pairing endpoints.  `part'   *)
(* says which of them moves, the others stay as they are.                  *)
(***************************************************************************)
EXTENDS MCClientEventHub, PendingFrames, PairingRates

CONSTANTS ip1, ip2

VARIABLE part

MCMaxOf == [source |-> 1, global |-> 2]
MCWindowOf == [request |-> 2, claim |-> 1]
MCRateScopes == {"request", "claim"}

EventParts == {"hub", "frames", "rates"}

EventsInit ==
    /\ part \in EventParts
    /\ Init /\ FramesInit /\ RatesInit

HubMoves == part = "hub" /\ Next
FramesMove == part = "frames" /\ FramesNext
RatesMove == part = "rates" /\ RatesNext

EventsNext ==
    /\ UNCHANGED part
    /\ \/ HubMoves /\ UNCHANGED <<frameVars, rateVars>>
       \/ FramesMove /\ UNCHANGED <<vars, rateVars>>
       \/ RatesMove /\ UNCHANGED <<vars, frameVars>>

eventsVars == <<part, vars, frameVars, rateVars>>

(* The fairness of the hub, in terms of its own steps. *)
EventsSpec ==
    /\ EventsInit /\ [][EventsNext]_eventsVars
    /\ \A s \in Slots :
        /\ WF_vars(part = "hub" /\ Heartbeat(s))
        /\ WF_vars(s \in Subscribers /\ sockets[s].state = "terminated" /\ Detach(s))

(* A client is told everything or told to resynchronise, and one whose     *)
(* socket is open is up to date but for what is on the way to it.          *)
ClientsHearAll == TypeOK /\ NoSilentGap /\ OpenIsCurrent

(* What is kept for clients that are away is bounded, of a stream that     *)
(* ended the end is kept, and pairing attempts are let in at a bounded     *)
(* rate that quiet restores.                                               *)
LimitsHold ==
    /\ IdleJournalsBounded
    /\ FramesTypeOK /\ EndIsRetained
    /\ RatesTypeOK /\ RatesAreFair
===============================================================================
