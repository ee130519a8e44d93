----------------------------- MODULE PushDelivery -----------------------------
(***************************************************************************)
(* Push notifications: the devices of an Agent that are registered         *)
(* (pushDeviceRegistry.ts, an encrypted file), and the dispatcher that     *)
(* sends an event of Hermes to them one after the other                    *)
(* (pushNotificationDispatcher.ts) by a provider that may answer that a    *)
(* token is no longer valid (pushProvider.ts).  Devices register, get new  *)
(* tokens and unregister while a dispatch waits for the provider, events   *)
(* are repeated, and the Router restarts.                                  *)
(***************************************************************************)
EXTENDS Naturals, Sequences, SequencesExt, FiniteSets

CONSTANTS
    PushDevices,
    PushEvents,      \* event ids
    MaxPushToken,        \* bound on the tokens a device gets
    SeenLimit,       \* event ids the dispatcher remembers: 4096
    MaxArrivals,     \* bound on the events that arrive
    MaxPushRestarts, \* bound on the restarts of the Router
    PushDiskFails    \* a save may throw

VARIABLES
    token,      \* device -> the token it has now
    devices,    \* device -> registration in memory
    deviceFile, \* device -> registration on disk
    seen,       \* seenEventOrder, oldest first
    dispatch,   \* event -> the registrations still to be pushed to, the one under way
    pushed,       \* [event, device] -> how often it was handed to the provider
    history     \* what was asked for: gone, forgotten, arrivals, restarts

pushVars == <<token, devices, deviceFile, seen, dispatch, pushed, history>>

ASSUME PushConstantsAssumption ==
    /\ MaxPushToken \in Nat \ {0} /\ SeenLimit \in Nat \ {0} /\ MaxArrivals \in Nat
    /\ MaxPushRestarts \in Nat /\ PushDiskFails \in BOOLEAN

(* Unregistered, or a token with what the device wants: it tracks the      *)
(* conversation of the events and allows their category, or does not.      *)
NotRegistered == [token |-> 0, wants |-> FALSE]
Registration == [token : 0..MaxPushToken, wants : BOOLEAN]

NoDispatch == [state |-> "none", left |-> {}, at |-> 0, tried |-> {}, due |-> {}]

PushInit ==
    /\ token = [d \in PushDevices |-> 1]
    /\ devices = [d \in PushDevices |-> NotRegistered]
    /\ deviceFile = devices
    /\ seen = <<>>
    /\ dispatch = [e \in PushEvents |-> NoDispatch]
    /\ pushed = [e \in PushEvents |-> [d \in PushDevices |-> 0]]
    /\ history = [gone |-> {}, forgotten |-> [e \in PushEvents |-> 0], arrivals |-> 0, restarts |-> 0]

(* flush: the map is saved as it is; what was changed stays changed when   *)
(* the save throws                                                         *)
Saved == deviceFile' = devices'
NotSaved == PushDiskFails /\ UNCHANGED deviceFile

(* PUT notification-devices/current: upsert.  A save that throws is        *)
(* answered as an invalid registration.                                    *)
Register(d, wants) ==
    /\ devices' = [devices EXCEPT ![d] = [token |-> token[d], wants |-> wants]]
    /\ Saved \/ NotSaved
    /\ history' = [history EXCEPT !.gone = @ \ {d}]
    /\ UNCHANGED <<token, seen, dispatch, pushed>>

(* Mutant: the file is not written. *)
RemovedUnsaved(d) == devices' = [devices EXCEPT ![d] = NotRegistered] /\ UNCHANGED deviceFile

(* remove *)
Removed(d) ==
    /\ devices' = [devices EXCEPT ![d] = NotRegistered]
    /\ IF devices[d] = NotRegistered THEN UNCHANGED deviceFile ELSE Saved \/ NotSaved

(* DELETE: answered 200 also if there was nothing to remove *)
Unregister(d) ==
    /\ Removed(d)
    /\ history' = IF deviceFile' = devices' \/ devices[d] = NotRegistered
                  THEN [history EXCEPT !.gone = @ \cup {d}] ELSE history
    /\ UNCHANGED <<token, seen, dispatch, pushed>>

(* the push service gives the app another token *)
NewToken(d) ==
    /\ token[d] < MaxPushToken
    /\ token' = [token EXCEPT ![d] = @ + 1]
    /\ UNCHANGED <<devices, deviceFile, seen, dispatch, pushed, history>>

-----------------------------------------------------------------------------

(* Mutant: an event is remembered when its dispatch is over. *)
RememberLater(e) == UNCHANGED seen

Remembered(e) ==
    LET all == Append(seen, e)
    IN  seen' = IF Len(all) > SeenLimit THEN Tail(all) ELSE all

Seen(e) == e \in ToSet(seen)

(* dispatch up to its first await: the registrations are copied.  The      *)
(* events are of a category and have a conversation; a second dispatch of  *)
(* an event whose first is under way is left to the bound of the model.    *)
EventArrives(e) ==
    /\ history.arrivals < MaxArrivals
    /\ IF Seen(e)
       THEN /\ UNCHANGED <<seen, dispatch>>
            /\ history' = [history EXCEPT !.arrivals = @ + 1]
       ELSE /\ dispatch[e].state = "none"
            /\ Remembered(e)
            /\ LET due == {d \in PushDevices : devices[d] # NotRegistered /\ devices[d].wants}
               IN  dispatch' = [dispatch EXCEPT ![e] =
                      [state |-> "loop", left |-> {[device |-> d, token |-> devices[d].token] : d \in due},
                       at |-> 0, tried |-> {}, due |-> due]]
            /\ history' = [history EXCEPT !.arrivals = @ + 1,
                              !.forgotten = [x \in PushEvents |->
                                  IF Seen(x) /\ x \notin ToSet(seen') THEN @[x] + 1 ELSE @[x]]]
    /\ UNCHANGED <<token, devices, deviceFile, pushed>>

(* provider.send *)
Send(e) ==
    /\ dispatch[e].state = "loop"
    /\ \E r \in dispatch[e].left :
          /\ dispatch' = [dispatch EXCEPT ![e].state = "waits", ![e].at = r, ![e].left = @ \ {r}]
          /\ pushed' = [pushed EXCEPT ![e][r.device] = @ + 1]
    /\ UNCHANGED <<token, devices, deviceFile, seen, history>>

Continues(e) == dispatch' = [dispatch EXCEPT ![e].state = "loop", ![e].at = 0,
                                         ![e].tried = @ \cup {dispatch[e].at.device}]

(* 2xx, or an error that leaves the registration as it is *)
SendEnds(e) ==
    /\ dispatch[e].state = "waits"
    /\ Continues(e)
    /\ UNCHANGED <<token, devices, deviceFile, seen, pushed, history>>

(* Mutant: an error ends the loop. *)
AfterErrorNone(e) == dispatch' = [dispatch EXCEPT ![e] = [NoDispatch EXCEPT !.tried = dispatch[e].tried,
                                                                      !.due = dispatch[e].due]]

AfterError(e) == Continues(e)

(* a network error, or the provider's deadline of 10 s *)
SendThrows(e) ==
    /\ dispatch[e].state = "waits"
    /\ AfterError(e)
    /\ UNCHANGED <<token, devices, deviceFile, seen, pushed, history>>

(* Error 1011 for a token the device no longer has: the device's           *)
(* registration is removed, whatever token it has by now.  A save that     *)
(* throws is swallowed.                                                    *)
InvalidToken(e) ==
    /\ dispatch[e].state = "waits"
    /\ dispatch[e].at.token < token[dispatch[e].at.device]
    /\ Removed(dispatch[e].at.device)
    /\ Continues(e)
    /\ UNCHANGED <<token, seen, pushed, history>>

DispatchOver(e) ==
    /\ dispatch[e].state = "loop" /\ dispatch[e].left = {}
    /\ dispatch' = [dispatch EXCEPT ![e] = [NoDispatch EXCEPT !.tried = dispatch[e].tried,
                                                              !.due = dispatch[e].due]]
    /\ UNCHANGED <<token, devices, deviceFile, seen, pushed, history>>

(* the constructor with the records of the file; the dispatches are gone   *)
PushRestart ==
    /\ history.restarts < MaxPushRestarts
    /\ devices' = deviceFile
    /\ seen' = <<>>
    /\ dispatch' = [e \in PushEvents |-> NoDispatch]
    /\ history' = [history EXCEPT !.restarts = @ + 1,
                      !.forgotten = [x \in PushEvents |-> IF Seen(x) THEN @[x] + 1 ELSE @[x]]]
    /\ UNCHANGED <<token, deviceFile, pushed>>

PushNext ==
    \/ \E d \in PushDevices, wants \in BOOLEAN : Register(d, wants)
    \/ \E d \in PushDevices : Unregister(d) \/ NewToken(d)
    \/ \E e \in PushEvents : EventArrives(e) \/ Send(e) \/ SendEnds(e) \/ SendThrows(e)
                             \/ InvalidToken(e) \/ DispatchOver(e)
    \/ PushRestart

(* A dispatch goes on, and a send ends at its deadline at the latest. *)
PushProgress(e) == Send(e) \/ SendThrows(e) \/ DispatchOver(e)

PushSpec == PushInit /\ [][PushNext]_pushVars /\ \A e \in PushEvents : WF_pushVars(PushProgress(e))

-----------------------------------------------------------------------------

PushTypeOK ==
    /\ devices \in [PushDevices -> Registration] /\ deviceFile \in [PushDevices -> Registration]
    /\ Len(seen) <= SeenLimit
    /\ \A e \in PushEvents : dispatch[e].state \in {"none", "loop", "waits"}

(* A repeated event is not pushed again as long as the dispatcher can      *)
(* remember it, also if it is repeated while its first dispatch is still   *)
(* waiting for the provider.                                               *)
PushedOnce == \A e \in PushEvents, d \in PushDevices : pushed[e][d] <= 1 + history.forgotten[e]

(* A device that was told it is not registered stays so, over restarts,    *)
(* until it registers again.                                               *)
UnregisteredStaysSo == \A d \in history.gone : devices[d] = NotRegistered

(* One device's failure does not cost another its notification: a dispatch *)
(* that is over has tried every registration there was when it began.      *)
EveryDeviceTried ==
    \A e \in PushEvents : dispatch[e].state = "none" => dispatch[e].tried = dispatch[e].due

(* An event is pushed to whoever asked for it, once, and to nobody else.   *)
PushIsSound == PushedOnce /\ UnregisteredStaysSo /\ EveryDeviceTried
=============================================================================
