----------------------------- MODULE RestartProofs -----------------------------
(***************************************************************************)
(* Proofs about what outlives a process: the dispatches and registrations  *)
(* of push notifications, the launcher of the Router, and its installer,   *)
(* each for any number of devices, processes, releases and files.          *)
(***************************************************************************)
EXTENDS MCRestarts, SequenceTheorems, TLAPS

-----------------------------------------------------------------------------
(* Push notifications.  What a dispatch has to do is divided into what it  *)
(* has left, the registration under way and what it has tried; what was    *)
(* pushed and what is left of an event together are what is remembered or  *)
(* was forgotten of it.                                                    *)

Target == [device : PushDevices, token : 0..MaxPushToken]

DispatchStates == [state : {"none", "loop", "waits"}, left : SUBSET Target, at : {0} \cup Target,
                   tried : SUBSET PushDevices, due : SUBSET PushDevices]

Counts == [gone : SUBSET PushDevices, forgotten : [PushEvents -> Nat], arrivals : Nat, restarts : Nat]

PushTyped ==
    /\ token \in [PushDevices -> 1..MaxPushToken]
    /\ devices \in [PushDevices -> Registration] /\ deviceFile \in [PushDevices -> Registration]
    /\ seen \in Seq(PushEvents) /\ Len(seen) <= SeenLimit
    /\ dispatch \in [PushEvents -> DispatchStates]
    /\ pushed \in [PushEvents -> [PushDevices -> Nat]]
    /\ history \in Counts

DispatchDivided ==
    \A e \in PushEvents :
        LET r == dispatch[e]
        IN  /\ r.state = "waits" => r.at \in Target
            /\ r.due = r.tried \cup {x.device : x \in r.left}
                       \cup (IF r.state = "waits" THEN {r.at.device} ELSE {})
            /\ \A x, y \in r.left : x.device = y.device => x = y
            /\ r.state = "none" => r.left = {}

Left(e, d) == IF \E x \in dispatch[e].left : x.device = d THEN 1 ELSE 0
Remembers(e) == IF Seen(e) THEN 1 ELSE 0

PushesCounted ==
    \A e \in PushEvents, d \in PushDevices :
        pushed[e][d] + Left(e, d) <= history.forgotten[e] + Remembers(e)

PushInv == PushTyped /\ DispatchDivided /\ PushesCounted

(* As long as saves succeed, memory and file are one.                      *)
FileIsMemory == deviceFile = devices

DeviceInv == FileIsMemory /\ UnregisteredStaysSo

LEMMA HistoryCounts ==
  ASSUME NEW h \in Counts
  PROVE  /\ [h EXCEPT !.arrivals = @ + 1] \in Counts /\ [h EXCEPT !.arrivals = @ + 1].forgotten = h.forgotten
         /\ [h EXCEPT !.arrivals = @ + 1].gone = h.gone
         /\ \A f \in [PushEvents -> Nat] :
               /\ [h EXCEPT !.arrivals = @ + 1, !.forgotten = f] \in Counts
               /\ [h EXCEPT !.arrivals = @ + 1, !.forgotten = f].forgotten = f
               /\ [h EXCEPT !.restarts = @ + 1, !.forgotten = f] \in Counts
               /\ [h EXCEPT !.restarts = @ + 1, !.forgotten = f].forgotten = f
<1>1. h.arrivals + 1 \in Nat /\ h.restarts + 1 \in Nat
  BY DEF Counts
<1> QED
  BY <1>1 DEF Counts

LEMMA PushInvImplies == PushInv => PushTypeOK /\ PushedOnce /\ EveryDeviceTried
<1> SUFFICES ASSUME PushInv PROVE PushTypeOK /\ PushedOnce /\ EveryDeviceTried
  OBVIOUS
<1>1. PushTypeOK
  BY DEF PushInv, PushTyped, Counts, PushTypeOK, DispatchStates
<1>2. ASSUME NEW e \in PushEvents, NEW d \in PushDevices
      PROVE  pushed[e][d] <= 1 + history.forgotten[e]
  <2>1. pushed[e][d] \in Nat /\ history.forgotten[e] \in Nat
    BY DEF PushInv, PushTyped, Counts
  <2>2. Left(e, d) \in {0, 1} /\ Remembers(e) \in {0, 1}
    BY DEF Left, Remembers
  <2>3. pushed[e][d] + Left(e, d) <= history.forgotten[e] + Remembers(e)
    BY DEF PushInv, PushesCounted
  <2> QED
    BY <2>1, <2>2, <2>3
<1>3. ASSUME NEW e \in PushEvents, dispatch[e].state = "none"
      PROVE  dispatch[e].tried = dispatch[e].due
  <2>1. dispatch[e].left = {}
    BY <1>3 DEF PushInv, DispatchDivided
  <2>2. {x.device : x \in dispatch[e].left} = {}
    BY <2>1
  <2> QED
    BY <1>3, <2>2 DEF PushInv, DispatchDivided
<1> QED
  BY <1>1, <1>2, <1>3 DEF EveryDeviceTried, PushedOnce

LEMMA PushStart == PushInit => PushInv /\ DeviceInv
<1> SUFFICES ASSUME PushInit PROVE PushInv /\ DeviceInv
  OBVIOUS
<1> USE PushConstantsAssumption DEF PushInit, NotRegistered, NoDispatch
<1>1. PushTyped
  <2>1. NoDispatch \in DispatchStates /\ NotRegistered \in Registration
    BY DEF DispatchStates, Registration
  <2>2. seen \in Seq(PushEvents) /\ Len(seen) = 0
    BY EmptySeq
  <2>3. /\ token \in [PushDevices -> 1..MaxPushToken]
        /\ devices \in [PushDevices -> Registration] /\ deviceFile \in [PushDevices -> Registration]
    BY <2>1
  <2>4. dispatch \in [PushEvents -> DispatchStates]
    BY <2>1
  <2>5. pushed \in [PushEvents -> [PushDevices -> Nat]]
    OBVIOUS
  <2>6. history \in Counts
    BY DEF Counts
  <2> QED
    BY <2>2, <2>3, <2>4, <2>5, <2>6 DEF PushTyped
<1>2. DispatchDivided
  BY DEF DispatchDivided
<1>3. PushesCounted
  <2>1. \A e \in PushEvents, d \in PushDevices : pushed[e][d] = 0 /\ Left(e, d) = 0
    BY DEF Left
  <2>2. \A e \in PushEvents : history.forgotten[e] = 0
    OBVIOUS
  <2> QED
    BY <2>1, <2>2 DEF PushesCounted, Remembers
<1>4. DeviceInv
  BY DEF DeviceInv, FileIsMemory, UnregisteredStaysSo
<1> QED
  BY <1>1, <1>2, <1>3, <1>4 DEF PushInv

(* What is remembered after an event: that event, and of the others those  *)
(* that were, but for one that may be forgotten.                           *)
LEMMA RememberedProperties ==
  ASSUME PushTyped, NEW e \in PushEvents, Remembered(e)
  PROVE  /\ seen' \in Seq(PushEvents) /\ Len(seen') <= SeenLimit
         /\ Seen(e)'
         /\ \A x \in PushEvents : Seen(x)' => Seen(x) \/ x = e
<1> USE PushConstantsAssumption
<1> DEFINE all == Append(seen, e)
<1>1. /\ all \in Seq(PushEvents) /\ Len(all) = Len(seen) + 1 /\ Len(seen) \in Nat
      /\ all[Len(all)] = e /\ \A i \in 1..Len(seen) : all[i] = seen[i]
  BY DEF PushTyped
<1>2. Len(all) <= SeenLimit + 1
  BY <1>1 DEF PushTyped
<1>3. seen' = IF Len(all) > SeenLimit THEN Tail(all) ELSE all
  BY DEF Remembered
<1> HIDE DEF all
<1>4. /\ seen' \in Seq(PushEvents) /\ Len(seen') <= SeenLimit
      /\ \E i \in 1..Len(seen') : seen'[i] = e
      /\ \A j \in 1..Len(seen') : \E i \in 1..Len(all) : seen'[j] = all[i]
  <2>1. CASE Len(all) > SeenLimit
    <3>1. seen' = Tail(all) /\ all # <<>> /\ Len(all) > 1
      BY <1>1, <1>3, <2>1
    <3>2. /\ Tail(all) \in Seq(PushEvents) /\ Len(Tail(all)) = Len(all) - 1
          /\ \A j \in 1..Len(Tail(all)) : Tail(all)[j] = all[j + 1]
      BY <1>1, <3>1, HeadTailProperties
    <3>3. Tail(all)[Len(all) - 1] = e
      BY <1>1, <3>1, <3>2
    <3>4. \A j \in 1..Len(Tail(all)) : j + 1 \in 1..Len(all)
      BY <1>1, <3>2
    <3> QED
      BY <1>1, <1>2, <3>1, <3>2, <3>3, <3>4
  <2>2. CASE ~(Len(all) > SeenLimit)
    BY <1>1, <1>3, <2>2
  <2> QED
    BY <2>1, <2>2
<1>5. \A x : Seen(x) <=> \E i \in 1..Len(seen) : seen[i] = x
  BY DEF Seen, ToSet, PushTyped
<1>6. \A x : Seen(x)' <=> \E i \in 1..Len(seen') : seen'[i] = x
  <2>1. DOMAIN seen' = 1..Len(seen')
    BY <1>4
  <2> QED
    BY <2>1 DEF Seen, ToSet
<1>7. \A i \in 1..Len(all) : all[i] = e \/ \E j \in 1..Len(seen) : all[i] = seen[j]
  BY <1>1
<1>8. \A x \in PushEvents : Seen(x)' => Seen(x) \/ x = e
  <2>1. ASSUME NEW x \in PushEvents, Seen(x)'
        PROVE  Seen(x) \/ x = e
    <3>1. PICK j \in 1..Len(seen') : seen'[j] = x
      BY <1>6, <2>1
    <3>2. PICK i \in 1..Len(all) : all[i] = x
      BY <1>4, <3>1
    <3> QED
      BY <1>5, <1>7, <3>2
  <2> QED
    BY <2>1
<1> QED
  BY <1>4, <1>6, <1>8

LEMMA RemovedProperties ==
  ASSUME PushTyped, NEW d \in PushDevices, Removed(d)
  PROVE  /\ devices' = [devices EXCEPT ![d] = NotRegistered]
         /\ devices' \in [PushDevices -> Registration] /\ deviceFile' \in [PushDevices -> Registration]
         /\ ~PushDiskFails /\ FileIsMemory => FileIsMemory'
<1>1. NotRegistered \in Registration
  BY PushConstantsAssumption DEF NotRegistered, Registration
<1>2. devices' = [devices EXCEPT ![d] = NotRegistered] /\ devices' \in [PushDevices -> Registration]
  BY <1>1 DEF Removed, PushTyped
<1>3. deviceFile' = devices' \/ deviceFile' = deviceFile
  BY DEF Removed, Saved, NotSaved
<1>4. ASSUME ~PushDiskFails, FileIsMemory
      PROVE  FileIsMemory'
  <2>1. CASE devices[d] = NotRegistered
    <3>1. devices' = devices
      BY <1>2, <2>1 DEF PushTyped
    <3> QED
      BY <1>4, <2>1, <3>1 DEF Removed, FileIsMemory
  <2>2. CASE devices[d] # NotRegistered
    BY <1>4, <2>2 DEF Removed, Saved, NotSaved, FileIsMemory
  <2> QED
    BY <2>1, <2>2
<1> QED
  BY <1>2, <1>3, <1>4 DEF PushTyped

(* The part of the step that concerns the dispatches: what an event's      *)
(* dispatch becomes and what it pushes, and what is left of the others.    *)
LEMMA DispatchStep ==
  ASSUME PushInv, NEW e \in PushEvents, NEW after \in DispatchStates, NEW count \in [PushDevices -> Nat],
         dispatch' = [dispatch EXCEPT ![e] = after],
         pushed' = [pushed EXCEPT ![e] = count],
         UNCHANGED seen, history'.forgotten = history.forgotten,
         after.state = "waits" => after.at \in Target,
         after.due = after.tried \cup {x.device : x \in after.left}
                     \cup (IF after.state = "waits" THEN {after.at.device} ELSE {}),
         after.left \subseteq dispatch[e].left,
         after.state = "none" => after.left = {},
         \A d \in PushDevices :
            count[d] + (IF \E x \in after.left : x.device = d THEN 1 ELSE 0) <= pushed[e][d] + Left(e, d)
  PROVE  /\ dispatch' \in [PushEvents -> DispatchStates] /\ pushed' \in [PushEvents -> [PushDevices -> Nat]]
         /\ DispatchDivided' /\ PushesCounted'
<1>1. PushTyped /\ DispatchDivided /\ PushesCounted
  BY DEF PushInv
<1>2. /\ dispatch' \in [PushEvents -> DispatchStates] /\ pushed' \in [PushEvents -> [PushDevices -> Nat]]
      /\ \A x \in PushEvents : /\ dispatch'[x] = IF x = e THEN after ELSE dispatch[x]
                               /\ pushed'[x] = IF x = e THEN count ELSE pushed[x]
  BY <1>1, Zenon DEF PushTyped, Counts
<1>3. DispatchDivided'
  <2>1. \A x, y \in after.left : x.device = y.device => x = y
    BY <1>1 DEF DispatchDivided
  <2> QED
    BY <1>1, <1>2, <2>1, ZenonT(40) DEF DispatchDivided
<1>4. PushesCounted'
  <2>1. ASSUME NEW x \in PushEvents, NEW d \in PushDevices
        PROVE  pushed'[x][d] + Left(x, d)' <= history'.forgotten[x] + Remembers(x)'
    <3>1. Remembers(x)' = Remembers(x)
      BY DEF Remembers, Seen
    <3>2. /\ pushed[x][d] \in Nat /\ Left(x, d) \in Nat /\ Remembers(x) \in Nat /\ history.forgotten[x] \in Nat
          /\ pushed'[x][d] \in Nat
      BY <1>1, <1>2 DEF Left, Remembers, PushTyped, Counts
    <3>3. CASE x = e
      BY <1>1, <1>2, <3>1, <3>2, <3>3 DEF PushesCounted, Left
    <3>4. CASE x # e
      <4>1. Left(x, d)' = Left(x, d) /\ pushed'[x][d] = pushed[x][d]
        BY <1>2, <3>4 DEF Left
      <4> QED
        BY <1>1, <3>1, <4>1 DEF PushesCounted
    <3> QED
      BY <3>3, <3>4
  <2> QED
    BY <2>1 DEF PushesCounted
<1> QED
  BY <1>2, <1>3, <1>4

LEMMA ContinueStep ==
  ASSUME PushInv, NEW e \in PushEvents, dispatch[e].state = "waits", Continues(e),
         UNCHANGED <<seen, pushed>>, history'.forgotten = history.forgotten
  PROVE  /\ dispatch' \in [PushEvents -> DispatchStates]
         /\ DispatchDivided' /\ PushesCounted'
<1> DEFINE r == dispatch[e]
           after == [r EXCEPT !.state = "loop", !.at = 0, !.tried = @ \cup {r.at.device}]
<1>1. PushTyped /\ DispatchDivided /\ PushesCounted
  BY DEF PushInv
<1>2. r \in DispatchStates /\ r.at \in Target /\ r.at.device \in PushDevices
  BY <1>1 DEF PushTyped, DispatchDivided, Target
<1>3. dispatch' = [dispatch EXCEPT ![e] = after]
  BY <1>1 DEF Continues, PushTyped
<1>4. /\ after \in DispatchStates /\ after.state = "loop" /\ after.left = r.left
      /\ after.tried = r.tried \cup {r.at.device} /\ after.due = r.due
  BY <1>2 DEF DispatchStates
<1>5. after.due = after.tried \cup {x.device : x \in after.left}
  <2>1. r.due = r.tried \cup {x.device : x \in r.left} \cup {r.at.device}
    BY <1>1 DEF DispatchDivided
  <2> HIDE DEF after
  <2> QED
    BY <1>4, <2>1
<1> DEFINE count == pushed[e]
<1>6. count \in [PushDevices -> Nat] /\ pushed' = [pushed EXCEPT ![e] = count]
  BY <1>1 DEF PushTyped
<1>7. \A d \in PushDevices :
        count[d] + (IF \E x \in after.left : x.device = d THEN 1 ELSE 0) <= pushed[e][d] + Left(e, d)
  <2>1. \A d \in PushDevices : pushed[e][d] \in Nat /\ Left(e, d) \in Nat
    BY <1>1 DEF PushTyped, Left
  <2> HIDE DEF after
  <2> QED
    BY <1>4, <2>1 DEF Left
<1> HIDE DEF after, count
<1>8. /\ after.due = after.tried \cup {x.device : x \in after.left}
                       \cup (IF after.state = "waits" THEN {after.at.device} ELSE {})
      /\ after.left \subseteq dispatch[e].left
  BY <1>4, <1>5
<1> QED
  BY <1>3, <1>4, <1>6, <1>7, <1>8, DispatchStep

LEMMA SendStep ==
  ASSUME PushInv, NEW e \in PushEvents, Send(e)
  PROVE  /\ dispatch' \in [PushEvents -> DispatchStates] /\ pushed' \in [PushEvents -> [PushDevices -> Nat]]
         /\ DispatchDivided' /\ PushesCounted'
<1>1. PushTyped /\ DispatchDivided /\ PushesCounted
  BY DEF PushInv
<1>2. PICK x \in dispatch[e].left :
        /\ dispatch' = [dispatch EXCEPT ![e].state = "waits", ![e].at = x, ![e].left = @ \ {x}]
        /\ pushed' = [pushed EXCEPT ![e][x.device] = @ + 1]
  BY DEF Send
<1> DEFINE r == dispatch[e]
           after == [r EXCEPT !.state = "waits", !.at = x, !.left = @ \ {x}]
           count == [pushed[e] EXCEPT ![x.device] = @ + 1]
<1>3. r \in DispatchStates /\ x \in Target /\ x.device \in PushDevices /\ r.state = "loop"
  BY <1>1, <1>2 DEF PushTyped, DispatchStates, Target, Send
<1>4. dispatch' = [dispatch EXCEPT ![e] = after] /\ pushed' = [pushed EXCEPT ![e] = count]
  BY <1>1, <1>2 DEF PushTyped
<1>5. /\ after \in DispatchStates /\ after.state = "waits" /\ after.left = r.left \ {x} /\ after.at = x
      /\ after.tried = r.tried /\ after.due = r.due
  BY <1>3 DEF DispatchStates
<1> HIDE DEF after
<1>6. r.due = r.tried \cup {y.device : y \in r.left}
  BY <1>1, <1>3 DEF DispatchDivided
<1>7. {y.device : y \in r.left} = {y.device : y \in after.left} \cup {x.device}
  BY <1>2, <1>5
<1>8. after.due = after.tried \cup {y.device : y \in after.left}
                  \cup (IF after.state = "waits" THEN {after.at.device} ELSE {})
  BY <1>5, <1>6, <1>7
<1>9. \A y \in after.left : y.device # x.device
  BY <1>1, <1>2, <1>5 DEF DispatchDivided
<1>10. count \in [PushDevices -> Nat] /\ \A d \in PushDevices :
          count[d] = IF d = x.device THEN pushed[e][d] + 1 ELSE pushed[e][d]
  BY <1>1, <1>3 DEF PushTyped
<1> HIDE DEF count
<1>11. ASSUME NEW d \in PushDevices
       PROVE  count[d] + (IF \E y \in after.left : y.device = d THEN 1 ELSE 0) <= pushed[e][d] + Left(e, d)
  <2>1. pushed[e][d] \in Nat /\ Left(e, d) \in Nat
    BY <1>1 DEF PushTyped, Left
  <2>2. CASE d = x.device
    <3>1. Left(e, d) = 1
      BY <1>2, <2>2 DEF Left
    <3>2. ~ \E y \in after.left : y.device = d
      BY <1>9, <2>2
    <3> QED
      BY <1>10, <2>1, <2>2, <3>1, <3>2
  <2>3. CASE d # x.device
    <3>1. (\E y \in after.left : y.device = d) => Left(e, d) = 1
      BY <1>5 DEF Left
    <3> QED
      BY <1>10, <2>1, <2>3, <3>1
  <2> QED
    BY <2>2, <2>3
<1>12. after.left \subseteq dispatch[e].left
  BY <1>5
<1>13. UNCHANGED seen /\ history'.forgotten = history.forgotten
  BY DEF Send
<1>14. after.state = "waits" => after.at \in Target
  BY <1>3, <1>5
<1>15. after.state = "none" => after.left = {}
  BY <1>5
<1>16. after \in DispatchStates /\ count \in [PushDevices -> Nat]
  BY <1>5, <1>10
<1> QED
  BY <1>4, <1>8, <1>11, <1>12, <1>13, <1>14, <1>15, <1>16, DispatchStep

LEMMA OverStep ==
  ASSUME PushInv, NEW e \in PushEvents, DispatchOver(e)
  PROVE  /\ dispatch' \in [PushEvents -> DispatchStates]
         /\ DispatchDivided' /\ PushesCounted'
<1> DEFINE r == dispatch[e]
           after == [NoDispatch EXCEPT !.tried = r.tried, !.due = r.due]
           count == pushed[e]
<1>1. PushTyped /\ DispatchDivided /\ PushesCounted
  BY DEF PushInv
<1>2. r \in DispatchStates /\ r.state = "loop" /\ r.left = {}
  BY <1>1 DEF PushTyped, DispatchOver
<1>3. dispatch' = [dispatch EXCEPT ![e] = after] /\ UNCHANGED <<seen, pushed, history>>
  BY DEF DispatchOver
<1>4. /\ after \in DispatchStates /\ after.state = "none" /\ after.left = {}
      /\ after.tried = r.tried /\ after.due = r.due
  BY <1>2 DEF DispatchStates, NoDispatch
<1>5. after.due = after.tried \cup {x.device : x \in after.left}
  <2>1. r.due = r.tried \cup {x.device : x \in r.left}
    BY <1>1, <1>2 DEF DispatchDivided
  <2> HIDE DEF after
  <2> QED
    BY <1>2, <1>4, <2>1
<1>6. count \in [PushDevices -> Nat] /\ pushed' = [pushed EXCEPT ![e] = count]
  BY <1>1, <1>3 DEF PushTyped
<1>7. \A d \in PushDevices : pushed[e][d] \in Nat /\ Left(e, d) \in Nat
  BY <1>1 DEF PushTyped, Left
<1> HIDE DEF after
<1>8. \A d \in PushDevices :
        count[d] + (IF \E x \in after.left : x.device = d THEN 1 ELSE 0) <= pushed[e][d] + Left(e, d)
  BY <1>4, <1>7
<1> HIDE DEF count
<1>9. /\ after.due = after.tried \cup {x.device : x \in after.left}
                       \cup (IF after.state = "waits" THEN {after.at.device} ELSE {})
      /\ after.left \subseteq dispatch[e].left
  BY <1>4, <1>5
<1> QED
  BY <1>3, <1>4, <1>6, <1>8, <1>9, DispatchStep

(* A new event is due to those that want it now; what it makes forgotten   *)
(* is counted.                                                             *)
LEMMA ArrivalStep ==
  ASSUME PushInv, NEW e \in PushEvents, EventArrives(e), ~Seen(e)
  PROVE  PushInv'
<1> DEFINE due == {d \in PushDevices : devices[d] # NotRegistered /\ devices[d].wants}
           left == {[device |-> d, token |-> devices[d].token] : d \in due}
           after == [state |-> "loop", left |-> left, at |-> 0, tried |-> {}, due |-> due]
           forgotten == [x \in PushEvents |-> IF Seen(x) /\ x \notin ToSet(seen')
                                              THEN history.forgotten[x] + 1 ELSE history.forgotten[x]]
<1>1. PushTyped /\ DispatchDivided /\ PushesCounted
  BY DEF PushInv
<1>2. /\ dispatch[e].state = "none" /\ Remembered(e)
      /\ dispatch' = [dispatch EXCEPT ![e] = after]
      /\ UNCHANGED <<token, devices, deviceFile, pushed>>
  BY DEF EventArrives
<1>3. history' = [history EXCEPT !.arrivals = @ + 1, !.forgotten = forgotten]
  BY DEF EventArrives
<1>4. /\ seen' \in Seq(PushEvents) /\ Len(seen') <= SeenLimit
      /\ Seen(e)' /\ \A x \in PushEvents : Seen(x)' => Seen(x) \/ x = e
  BY <1>1, <1>2, RememberedProperties
<1>5. /\ left \in SUBSET Target /\ {x.device : x \in left} = due
      /\ \A x, y \in left : x.device = y.device => x = y
  <2>1. \A d \in due : d \in PushDevices /\ devices[d].token \in 0..MaxPushToken
    BY <1>1 DEF PushTyped, Registration
  <2> HIDE DEF due
  <2>2. left \in SUBSET Target
    BY <2>1 DEF Target
  <2>3. \A x \in left : \E d \in due : x = [device |-> d, token |-> devices[d].token] /\ x.device = d
    OBVIOUS
  <2>4. \A d \in due : \E x \in left : x.device = d
    <3>1. ASSUME NEW d \in due
          PROVE  \E x \in left : x.device = d
      <4>1. [device |-> d, token |-> devices[d].token] \in left
        OBVIOUS
      <4> QED
        BY <4>1
    <3> QED
      BY <3>1
  <2> HIDE DEF left
  <2>5. {x.device : x \in left} = due
    BY <2>3, <2>4
  <2> QED
    BY <2>2, <2>3, <2>5
<1> HIDE DEF left
<1>6. after \in DispatchStates /\ after.left = left /\ after.state = "loop" /\ after.due = due /\ after.tried = {}
  BY <1>5 DEF DispatchStates
<1> HIDE DEF after
<1>7. dispatch' \in [PushEvents -> DispatchStates]
      /\ \A x \in PushEvents : dispatch'[x] = IF x = e THEN after ELSE dispatch[x]
  BY <1>1, <1>2, <1>6, Zenon DEF PushTyped
<1>8. DispatchDivided'
  <2>1. \A x \in PushEvents : x # e => dispatch'[x] = dispatch[x]
    BY <1>7
  <2>2. dispatch'[e] = after
    BY <1>7
  <2>3. after.due = after.tried \cup {x.device : x \in after.left} \cup {}
    BY <1>5, <1>6
  <2>4. LET r == after
        IN  /\ r.state = "waits" => r.at \in Target
            /\ r.due = r.tried \cup {x.device : x \in r.left}
                       \cup (IF r.state = "waits" THEN {r.at.device} ELSE {})
            /\ \A x, y \in r.left : x.device = y.device => x = y
            /\ r.state = "none" => r.left = {}
    BY <1>5, <1>6, <2>3
  <2> QED
    BY <1>1, <2>1, <2>2, <2>4 DEF DispatchDivided
<1>9. forgotten \in [PushEvents -> Nat] /\ \A x \in PushEvents :
         forgotten[x] = IF Seen(x) /\ ~Seen(x)' THEN history.forgotten[x] + 1 ELSE history.forgotten[x]
  BY <1>1 DEF PushTyped, Counts, Seen
<1> HIDE DEF forgotten
<1>10. /\ history' \in Counts
       /\ history'.forgotten = forgotten
  BY <1>1, <1>3, <1>9, HistoryCounts DEF PushTyped
<1>11. ASSUME NEW x \in PushEvents, NEW d \in PushDevices
       PROVE  pushed[x][d] + Left(x, d)' <= forgotten[x] + Remembers(x)'
  <2>1. pushed[x][d] \in Nat /\ history.forgotten[x] \in Nat /\ Left(x, d) \in {0, 1} /\ Left(x, d)' \in {0, 1}
    BY <1>1 DEF PushTyped, Counts, Left
  <2>2. pushed[x][d] + Left(x, d) <= history.forgotten[x] + Remembers(x)
    BY <1>1 DEF PushesCounted
  <2>3. CASE x = e
    <3>1. Left(x, d) = 0
      BY <1>1, <1>2, <2>3 DEF DispatchDivided, Left
    <3>2. Remembers(x) = 0 /\ Remembers(x)' = 1
      BY <1>4, <2>3 DEF Remembers
    <3>3. forgotten[x] = history.forgotten[x]
      BY <1>9, <2>3
    <3> QED
      BY <2>1, <2>2, <3>1, <3>2, <3>3
  <2>4. CASE x # e
    <3>1. Left(x, d)' = Left(x, d)
      BY <1>7, <2>4 DEF Left
    <3>2. forgotten[x] + Remembers(x)' >= history.forgotten[x] + Remembers(x)
      BY <1>4, <1>9, <2>1, <2>4 DEF Remembers
    <3> QED
      BY <1>9, <2>1, <2>2, <3>1, <3>2 DEF Remembers
  <2> QED
    BY <2>3, <2>4
<1>12. PushesCounted'
  BY <1>2, <1>10, <1>11 DEF PushesCounted
<1>13. PushTyped'
  BY <1>1, <1>2, <1>4, <1>7, <1>10 DEF PushTyped
<1> QED
  BY <1>8, <1>12, <1>13 DEF PushInv

LEMMA PushRestartStep ==
  ASSUME PushInv, PushRestart
  PROVE  PushInv'
<1> DEFINE forgotten == [x \in PushEvents |-> IF Seen(x) THEN history.forgotten[x] + 1
                                              ELSE history.forgotten[x]]
<1>1. PushTyped /\ DispatchDivided /\ PushesCounted
  BY DEF PushInv
<1>2. /\ devices' = deviceFile /\ seen' = <<>> /\ dispatch' = [e \in PushEvents |-> NoDispatch]
      /\ UNCHANGED <<token, deviceFile, pushed>>
      /\ history' = [history EXCEPT !.restarts = @ + 1, !.forgotten = forgotten]
  BY DEF PushRestart
<1>3. forgotten \in [PushEvents -> Nat] /\ \A x \in PushEvents :
         forgotten[x] = history.forgotten[x] + Remembers(x)
  BY <1>1 DEF PushTyped, Counts, Remembers
<1> HIDE DEF forgotten
<1>4. /\ history' \in Counts
      /\ history'.forgotten = forgotten
  BY <1>1, <1>2, <1>3, HistoryCounts DEF PushTyped
<1>5. NoDispatch \in DispatchStates /\ NoDispatch.left = {} /\ NoDispatch.state = "none"
      /\ NoDispatch.tried = {} /\ NoDispatch.due = {}
  BY DEF NoDispatch, DispatchStates
<1>6. dispatch' \in [PushEvents -> DispatchStates] /\ \A e \in PushEvents : dispatch'[e] = NoDispatch
  BY <1>2, <1>5
<1>7. DispatchDivided'
  BY <1>5, <1>6 DEF DispatchDivided
<1>8. ASSUME NEW x \in PushEvents, NEW d \in PushDevices
      PROVE  pushed[x][d] + Left(x, d)' <= forgotten[x] + Remembers(x)'
  <2>1. pushed[x][d] \in Nat /\ history.forgotten[x] \in Nat /\ Left(x, d) \in {0, 1} /\ Remembers(x) \in {0, 1}
    BY <1>1 DEF PushTyped, Counts, Left, Remembers
  <2>2. Left(x, d)' = 0
    BY <1>5, <1>6 DEF Left
  <2>3. Remembers(x)' \in {0, 1}
    BY DEF Remembers
  <2>4. pushed[x][d] + Left(x, d) <= history.forgotten[x] + Remembers(x)
    BY <1>1 DEF PushesCounted
  <2> QED
    BY <1>3, <2>1, <2>2, <2>3, <2>4
<1>9. PushesCounted'
  BY <1>2, <1>4, <1>8 DEF PushesCounted
<1>10. seen' \in Seq(PushEvents) /\ Len(seen') <= SeenLimit
  BY <1>2, EmptySeq, PushConstantsAssumption
<1>11. PushTyped'
  BY <1>1, <1>2, <1>4, <1>6, <1>10 DEF PushTyped
<1> QED
  BY <1>7, <1>9, <1>11 DEF PushInv

LEMMA PushStep ==
  ASSUME PushInv, [PushNext]_pushVars
  PROVE  PushInv'
<1> USE PushConstantsAssumption
<1>1. PushTyped /\ DispatchDivided /\ PushesCounted
  BY DEF PushInv
<1>2. ASSUME UNCHANGED <<dispatch, pushed, seen>>, history'.forgotten = history.forgotten, PushTyped'
      PROVE  PushInv'
  <2>1. DispatchDivided'
    BY <1>1, <1>2 DEF DispatchDivided
  <2>2. PushesCounted'
    BY <1>1, <1>2 DEF PushesCounted, Left, Remembers, Seen
  <2> QED
    BY <1>2, <2>1, <2>2 DEF PushInv
<1>3. ASSUME NEW d \in PushDevices, NEW wants \in BOOLEAN, Register(d, wants)
      PROVE  PushInv'
  <2>1. [token |-> token[d], wants |-> wants] \in Registration
    BY <1>1 DEF PushTyped, Registration
  <2>2. devices' \in [PushDevices -> Registration] /\ deviceFile' \in [PushDevices -> Registration]
    BY <1>1, <1>3, <2>1 DEF Register, PushTyped, Saved, NotSaved
  <2>3. /\ history' \in Counts
        /\ history'.forgotten = history.forgotten
    BY <1>1, <1>3 DEF Register, PushTyped, Counts
  <2> QED
    BY <1>1, <1>2, <1>3, <2>2, <2>3 DEF Register, PushTyped
<1>4. ASSUME NEW d \in PushDevices, Unregister(d)
      PROVE  PushInv'
  <2>1. devices' \in [PushDevices -> Registration] /\ deviceFile' \in [PushDevices -> Registration]
    BY <1>1, <1>4, RemovedProperties DEF Unregister
  <2>2. /\ history' \in Counts
        /\ history'.forgotten = history.forgotten
    BY <1>1, <1>4 DEF Unregister, PushTyped, Counts
  <2> QED
    BY <1>1, <1>2, <1>4, <2>1, <2>2 DEF Unregister, PushTyped
<1>5. ASSUME NEW d \in PushDevices, NewToken(d)
      PROVE  PushInv'
  <2>1. token' \in [PushDevices -> 1..MaxPushToken]
    BY <1>1, <1>5 DEF NewToken, PushTyped
  <2> QED
    BY <1>1, <1>2, <1>5, <2>1 DEF NewToken, PushTyped
<1>6. ASSUME NEW e \in PushEvents, EventArrives(e)
      PROVE  PushInv'
  <2>1. CASE Seen(e)
    <3>1. /\ history' \in Counts
          /\ history'.forgotten = history.forgotten
      BY <1>1, <1>6, <2>1, HistoryCounts DEF EventArrives, PushTyped
    <3>2. UNCHANGED <<token, devices, deviceFile, seen, dispatch, pushed>>
      BY <1>6, <2>1 DEF EventArrives
    <3> QED
      BY <1>1, <1>2, <3>1, <3>2 DEF PushTyped
  <2>2. CASE ~Seen(e)
    BY <1>6, <2>2, ArrivalStep
  <2> QED
    BY <2>1, <2>2
<1>7. ASSUME NEW e \in PushEvents, Send(e)
      PROVE  PushInv'
  BY <1>1, <1>7, SendStep DEF Send, PushInv, PushTyped
<1>8. ASSUME NEW e \in PushEvents, SendEnds(e) \/ SendThrows(e)
      PROVE  PushInv'
  <2>1. /\ dispatch[e].state = "waits" /\ Continues(e)
        /\ UNCHANGED <<token, devices, deviceFile, seen, pushed, history>>
    BY <1>8 DEF SendEnds, SendThrows, AfterError
  <2> QED
    BY <1>1, <2>1, ContinueStep DEF PushInv, PushTyped
<1>9. ASSUME NEW e \in PushEvents, InvalidToken(e)
      PROVE  PushInv'
  <2>1. /\ dispatch[e].state = "waits" /\ Continues(e) /\ Removed(dispatch[e].at.device)
        /\ UNCHANGED <<token, seen, pushed, history>>
    BY <1>9 DEF InvalidToken
  <2>2. dispatch[e].at.device \in PushDevices
    BY <1>1, <2>1 DEF DispatchDivided, Target
  <2>3. devices' \in [PushDevices -> Registration] /\ deviceFile' \in [PushDevices -> Registration]
    BY <1>1, <2>1, <2>2, RemovedProperties
  <2> QED
    BY <1>1, <2>1, <2>3, ContinueStep DEF PushInv, PushTyped
<1>10. ASSUME NEW e \in PushEvents, DispatchOver(e)
       PROVE  PushInv'
  BY <1>1, <1>10, OverStep DEF DispatchOver, PushInv, PushTyped
<1>11. CASE PushRestart
  BY <1>11, PushRestartStep
<1>12. CASE UNCHANGED pushVars
  BY <1>1, <1>2, <1>12 DEF pushVars, PushTyped
<1> QED
  BY <1>3, <1>4, <1>5, <1>6, <1>7, <1>8, <1>9, <1>10, <1>11, <1>12 DEF PushNext

LEMMA DeviceStep ==
  ASSUME ~PushDiskFails, PushInv, DeviceInv, [PushNext]_pushVars
  PROVE  DeviceInv'
<1>1. PushTyped /\ DispatchDivided /\ FileIsMemory /\ UnregisteredStaysSo
  BY DEF PushInv, DeviceInv
<1>2. UNCHANGED <<devices, deviceFile>> /\ history'.gone = history.gone => DeviceInv'
  BY <1>1 DEF DeviceInv, FileIsMemory, UnregisteredStaysSo
<1>3. ASSUME NEW d \in PushDevices, NEW wants \in BOOLEAN, Register(d, wants)
      PROVE  DeviceInv'
  <2>1. history'.gone = history.gone \ {d} /\ history.gone \subseteq PushDevices
    BY <1>1, <1>3 DEF Register, PushTyped, Counts
  <2>2. \A x \in PushDevices : x # d => devices'[x] = devices[x]
    BY <1>1, <1>3 DEF Register, PushTyped, Counts
  <2>3. FileIsMemory'
    BY <1>3 DEF Register, Saved, NotSaved, FileIsMemory
  <2> QED
    BY <1>1, <2>1, <2>2, <2>3 DEF DeviceInv, UnregisteredStaysSo
<1>4. ASSUME NEW d \in PushDevices, Removed(d), history'.gone \subseteq history.gone \cup {d}
      PROVE  DeviceInv'
  <2>1. devices' = [devices EXCEPT ![d] = NotRegistered] /\ FileIsMemory'
    BY <1>1, <1>4, RemovedProperties
  <2>2. \A x \in PushDevices : devices'[x] = IF x = d THEN NotRegistered ELSE devices[x]
    BY <1>1, <2>1 DEF PushTyped, Counts
  <2>3. history.gone \subseteq PushDevices
    BY <1>1 DEF PushTyped, Counts
  <2> QED
    BY <1>1, <1>4, <2>1, <2>2, <2>3 DEF DeviceInv, UnregisteredStaysSo
<1>5. ASSUME NEW d \in PushDevices, Unregister(d)
      PROVE  DeviceInv'
  <2>1. history'.gone \subseteq history.gone \cup {d}
    BY <1>1, <1>5 DEF Unregister, PushTyped, Counts
  <2> QED
    BY <1>4, <1>5, <2>1 DEF Unregister
<1>6. ASSUME NEW e \in PushEvents, EventArrives(e)
      PROVE  DeviceInv'
  <2>1. history'.gone = history.gone
    BY <1>1, <1>6 DEF EventArrives, PushTyped, Counts
  <2> QED
    BY <1>2, <1>6, <2>1 DEF EventArrives
<1>7. ASSUME NEW e \in PushEvents, InvalidToken(e)
      PROVE  DeviceInv'
  <2>1. dispatch[e].at.device \in PushDevices
    BY <1>1, <1>7 DEF DispatchDivided, Target, InvalidToken
  <2> QED
    BY <1>4, <1>7, <2>1 DEF InvalidToken
<1>8. CASE PushRestart
  <2>1. history'.gone = history.gone
    BY <1>1, <1>8 DEF PushRestart, PushTyped, Counts
  <2> QED
    BY <1>1, <1>2, <1>8, <2>1 DEF PushRestart, FileIsMemory
<1>9. ASSUME NEW d \in PushDevices, NewToken(d)
      PROVE  DeviceInv'
  BY <1>2, <1>9 DEF NewToken
<1>10. ASSUME NEW e \in PushEvents, Send(e) \/ SendEnds(e) \/ SendThrows(e) \/ DispatchOver(e)
       PROVE  DeviceInv'
  BY <1>2, <1>10 DEF Send, SendEnds, SendThrows, DispatchOver
<1>11. CASE UNCHANGED pushVars
  BY <1>2, <1>11 DEF pushVars
<1> QED
  BY <1>3, <1>5, <1>6, <1>7, <1>8, <1>9, <1>10, <1>11 DEF PushNext

(* No event is pushed to a device twice while it can be remembered, and a  *)
(* dispatch that is over has tried every device, whatever saves fail.      *)
THEOREM PushAlwaysOnce == PushSpec => [](PushTypeOK /\ PushedOnce /\ EveryDeviceTried)
<1>1. PushInit => PushInv
  BY PushStart
<1>2. PushInv /\ [PushNext]_pushVars => PushInv'
  BY PushStep
<1>3. PushInv => PushTypeOK /\ PushedOnce /\ EveryDeviceTried
  BY PushInvImplies
<1> QED
  BY <1>1, <1>2, <1>3, PTL DEF PushSpec

(* When saves succeed, a device that was told it is not registered stays   *)
(* so as well, over restarts, until it registers again.                    *)
THEOREM PushAlwaysAsAsked ==
  ASSUME ~PushDiskFails
  PROVE  PushSpec => []PushAsAsked
<1>1. PushInit => PushInv /\ DeviceInv
  BY PushStart
<1>2. PushInv /\ DeviceInv /\ [PushNext]_pushVars => PushInv' /\ DeviceInv'
  BY PushStep, DeviceStep
<1>3. PushInv /\ DeviceInv => PushAsAsked
  BY PushInvImplies DEF PushAsAsked, PushIsSound, DeviceInv
<1> QED
  BY <1>1, <1>2, <1>3, PTL DEF PushSpec

-----------------------------------------------------------------------------
(* The launcher.  No token that may come into force again, from a file or  *)
(* by the command under way, is retired; and what a stop may signal, the   *)
(* recorded process and the one that listens, is a Router.                 *)

OrderTyped ==
    order \in [name : Commands \cup {"none"}, step : 0..3, token : 0..MaxToken, old : 0..MaxToken]

TokensTyped ==
    /\ tokens \in [pairing : 0..MaxToken, env : 0..MaxToken]
    /\ OrderTyped /\ made \in 0..MaxToken
    /\ tokens.pairing <= made /\ tokens.env <= made /\ order.old <= made
    /\ retired \subseteq 1..made

OrderIsWhole ==
    /\ order.name = "none" => order = NoOrder
    /\ order.step = 0 => order.name = "none"
    /\ order.name = "clear" => order.step \in {1, 2}
    /\ order.name \in {"init", "rotate"} => order.step \in {1, 2}

(* What the command under way has read and written so far.                 *)
OrderAtWork ==
    LET choosing == order.step \in {1, 2} /\ order.name # "clear"
    IN  /\ choosing => order.token \in 1..made /\ order.token \notin retired
        /\ choosing /\ order.name = "rotate" => order.old < order.token
        /\ choosing /\ order.name # "rotate" => order.old \in {0, order.token}
        /\ choosing /\ order.step = 1 => InForce(tokens) = order.old
        /\ choosing /\ order.step = 2 => tokens.pairing = order.token
        /\ order.name = "clear" /\ order.step = 2 => tokens.pairing = 0

FilesHoldNoRetired == tokens.pairing \notin retired /\ tokens.env \notin retired

TokenInv == TokensTyped /\ OrderIsWhole /\ OrderAtWork /\ FilesHoldNoRetired

ProcessTyped ==
    /\ launcher \in [Terminals -> [step : {"idle", "checked", "waits"}, pid : Pids \cup {NoPid}]]
    /\ procs \in [Pids -> [kind : {"free", "router", "other"}, born : 0..MaxBorn]]
    /\ born \in 0..MaxBorn
    /\ record \in [pid : Pids \cup {NoPid}, born : 0..MaxBorn]
    /\ port \in Pids \cup {NoPid}
    /\ stop \in [step : {"idle", "waits"}, pid : Pids \cup {NoPid}, born : 0..MaxBorn,
                 result : {"none", "stale", "refused", "nothing", "router"}]

ProcessesAreKnown ==
    /\ \A p \in Pids : procs[p].kind = "free" => procs[p] = Free
    /\ \A p \in Pids : procs[p].born <= born
    /\ record.born <= born
    /\ record.pid = NoPid => record = NoRecord
    /\ stop.step = "waits" => stop.pid \in Pids

(* The start that is recorded for a pid is a Router's.                     *)
RecordedIsRouter ==
    \A p \in Pids : record.pid = p /\ procs[p].born = record.born => procs[p].kind \in {"free", "router"}

ListenerIsRouter == port # NoPid => procs[port].kind = "router"

ProcessInv == ProcessTyped /\ ProcessesAreKnown /\ RecordedIsRouter /\ ListenerIsRouter

LEMMA LauncherInvImplies == TokenInv /\ ProcessInv => LauncherIsSound
<1> SUFFICES ASSUME TokenInv, ProcessInv PROVE LauncherIsSound
  OBVIOUS
<1> USE LocalConstantsAssumption
<1>1. LocalTypeOK
  <2>1. /\ tokens \in [pairing : 0..MaxToken, env : 0..MaxToken]
        /\ order.name \in Commands \cup {"none"} /\ order.step \in 0..3
        /\ made \in 0..MaxToken /\ retired \subseteq 1..MaxToken
    BY DEF TokenInv, TokensTyped, OrderTyped
  <2>2. stop.result \in {"none", "stale", "refused", "nothing", "router", "other"}
    BY DEF ProcessInv, ProcessTyped
  <2> QED
    BY <2>1, <2>2 DEF ProcessInv, ProcessTyped, LocalTypeOK
<1>2. RetiredStayGone
  BY DEF TokenInv, FilesHoldNoRetired, RetiredStayGone, InForce
<1>3. OnlyRoutersStopped
  BY DEF ProcessInv, ProcessTyped, OnlyRoutersStopped
<1> QED
  BY <1>1, <1>2, <1>3 DEF LauncherIsSound

LEMMA LauncherStart == LocalInit => TokenInv /\ ProcessInv
<1> SUFFICES ASSUME LocalInit PROVE TokenInv /\ ProcessInv
  OBVIOUS
<1> USE LocalConstantsAssumption DEF LocalInit
<1>1. TokensTyped /\ FilesHoldNoRetired
  BY DEF TokensTyped, OrderTyped, NoOrder, FilesHoldNoRetired
<1>2. OrderIsWhole /\ OrderAtWork
  BY DEF OrderIsWhole, OrderAtWork, NoOrder
<1>3. ProcessTyped
  BY DEF ProcessTyped, NoLauncher, Free, NoRecord, NoStop
<1>4. ProcessesAreKnown /\ RecordedIsRouter /\ ListenerIsRouter
  BY DEF ProcessesAreKnown, RecordedIsRouter, ListenerIsRouter, Free, NoRecord, NoStop
<1> QED
  BY <1>1, <1>2, <1>3, <1>4 DEF TokenInv, ProcessInv

LEMMA TokenStep ==
  ASSUME TokenInv, [LocalNext]_localVars
  PROVE  TokenInv'
<1> USE LocalConstantsAssumption DEF TokenInv, Commands
<1>1. ASSUME NEW name \in Commands, Ensure(name)
      PROVE  TokenInv'
  <2> DEFINE anew == name = "rotate" \/ InForce(tokens) = 0
             chosen == IF anew THEN made + 1 ELSE InForce(tokens)
  <2>1. /\ name \in {"init", "rotate", "run"} /\ order = NoOrder
        /\ anew => made < MaxToken
        /\ made' = (IF anew THEN made + 1 ELSE made)
        /\ order' = [name |-> name, step |-> 1, old |-> InForce(tokens), token |-> chosen]
        /\ UNCHANGED <<tokens, retired>>
    BY <1>1 DEF Ensure
  <2>2. /\ InForce(tokens) \in 0..made /\ InForce(tokens) \notin retired /\ made \in 0..MaxToken
        /\ tokens \in [pairing : 0..MaxToken, env : 0..MaxToken] /\ retired \subseteq 1..made
    BY DEF TokensTyped, InForce, FilesHoldNoRetired
  <2>3. chosen \in 1..made' /\ made' \in 0..MaxToken /\ made <= made' /\ chosen \notin retired
    BY <2>1, <2>2
  <2>4. /\ order'.name = name /\ order'.step = 1 /\ order'.old = InForce(tokens) /\ order'.token = chosen
    BY <2>1
  <2>5. order' \in [name : Commands \cup {"none"}, step : 0..3, token : 0..MaxToken, old : 0..MaxToken]
    BY <2>1, <2>2, <2>3
  <2>6. name = "rotate" => InForce(tokens) < chosen
    BY <2>2
  <2>7. name # "rotate" => InForce(tokens) \in {0, chosen}
    OBVIOUS
  <2> HIDE DEF anew, chosen
  <2>8. TokensTyped' /\ FilesHoldNoRetired'
    <3>1. order'.old <= made' /\ tokens'.pairing <= made' /\ tokens'.env <= made' /\ retired' \subseteq 1..made'
      BY <2>1, <2>2, <2>3, <2>4 DEF TokensTyped
    <3> QED
      BY <2>1, <2>2, <2>3, <2>5, <3>1 DEF TokensTyped, OrderTyped, FilesHoldNoRetired
  <2>9. OrderIsWhole'
    BY <2>1, <2>4 DEF OrderIsWhole
  <2>10. OrderAtWork'
    <3>1. InForce(tokens)' = InForce(tokens)
      BY <2>1 DEF InForce
    <3> QED
      BY <2>1, <2>3, <2>4, <2>6, <2>7, <3>1 DEF OrderAtWork
  <2> QED
    BY <2>8, <2>9, <2>10
<1>2. CASE Clear
  <2>1. /\ order' = [NoOrder EXCEPT !.name = "clear", !.step = 1, !.old = InForce(tokens)]
        /\ UNCHANGED <<tokens, made, retired>>
    BY <1>2 DEF Clear
  <2>2. InForce(tokens) \in 0..MaxToken /\ InForce(tokens) <= made
    BY DEF TokensTyped, InForce
  <2> DEFINE new == [name |-> "clear", step |-> 1, token |-> 0, old |-> InForce(tokens)]
  <2>6. order' = new
    BY <2>1 DEF NoOrder
  <2>7. /\ new.name = "clear" /\ new.step = 1 /\ new.old = InForce(tokens)
        /\ new \in [name : Commands \cup {"none"}, step : 0..3, token : 0..MaxToken, old : 0..MaxToken]
    BY <2>2
  <2> HIDE DEF new
  <2>3. /\ order'.name = "clear" /\ order'.step = 1 /\ order'.old <= made
        /\ order' \in [name : Commands \cup {"none"}, step : 0..3, token : 0..MaxToken, old : 0..MaxToken]
    BY <2>2, <2>6, <2>7
  <2>4. TokensTyped' /\ FilesHoldNoRetired'
    BY <2>1, <2>3 DEF TokensTyped, OrderTyped, FilesHoldNoRetired
  <2>5. OrderIsWhole' /\ OrderAtWork'
    BY <2>3 DEF OrderIsWhole, OrderAtWork
  <2> QED
    BY <2>4, <2>5
<1>3. CASE WriteToken
  <2>1. /\ order.step \in {1, 2} /\ made' = made
        /\ tokens \in [pairing : 0..MaxToken, env : 0..MaxToken] /\ retired \subseteq 1..made
        /\ order \in [name : Commands \cup {"none"}, step : 0..3, token : 0..MaxToken, old : 0..MaxToken]
        /\ made \in 0..MaxToken /\ tokens.pairing <= made /\ tokens.env <= made /\ order.old <= made
    BY <1>3 DEF WriteToken, TokensTyped, OrderTyped
  <2>2. order.name # "none"
    BY <2>1 DEF OrderIsWhole, NoOrder
  <2>3. CASE order.step = 1
    <3>1. order' = [order EXCEPT !.step = 2] /\ retired' = retired
      BY <1>3, <2>3 DEF WriteToken
    <3>2. /\ order' \in [name : Commands \cup {"none"}, step : 0..3, token : 0..MaxToken, old : 0..MaxToken]
          /\ order'.step = 2 /\ order'.name = order.name /\ order'.token = order.token /\ order'.old = order.old
      BY <2>1, <3>1
    <3>3. tokens' = [tokens EXCEPT !.pairing = IF order.name = "clear" THEN 0 ELSE order.token]
      BY <1>3, <2>3 DEF WriteToken, Cleared, Written
    <3>4. /\ tokens' \in [pairing : 0..MaxToken, env : 0..MaxToken]
          /\ tokens'.pairing = (IF order.name = "clear" THEN 0 ELSE order.token) /\ tokens'.env = tokens.env
      BY <2>1, <3>3
    <3>5. order.name # "clear" => order.token \in 1..made /\ order.token \notin retired
      BY <2>3 DEF OrderAtWork
    <3>6. TokensTyped' /\ FilesHoldNoRetired'
      BY <2>1, <3>1, <3>2, <3>4, <3>5 DEF TokensTyped, OrderTyped, FilesHoldNoRetired
    <3>7. OrderIsWhole'
      BY <2>2, <3>2 DEF OrderIsWhole
    <3>8. OrderAtWork'
      BY <2>1, <2>3, <3>1, <3>2, <3>4, <3>5 DEF OrderAtWork
    <3> QED
      BY <3>6, <3>7, <3>8
  <2>4. CASE order.step = 2
    <3>1. tokens' = [tokens EXCEPT !.env = 0]
      BY <1>3, <2>4 DEF WriteToken, Cleared, Written
    <3>2. /\ tokens' \in [pairing : 0..MaxToken, env : 0..MaxToken]
          /\ tokens'.pairing = tokens.pairing /\ tokens'.env = 0
      BY <2>1, <3>1
    <3>3. order' = IF order.name = "run" THEN [order EXCEPT !.step = 3] ELSE NoOrder
      BY <1>3, <2>4 DEF WriteToken
    <3>4. /\ order' \in [name : Commands \cup {"none"}, step : 0..3, token : 0..MaxToken, old : 0..MaxToken]
          /\ order' = NoOrder \/ (order'.name = "run" /\ order'.step = 3)
      <4>1. CASE order.name = "run"
        BY <2>1, <3>3, <4>1
      <4>2. CASE order.name # "run"
        BY <3>3, <4>2 DEF NoOrder
      <4> QED
        BY <4>1, <4>2
    <3>5. retired' = IF order.name \in {"rotate", "clear"} THEN retired \cup ({order.old} \ {0}) ELSE retired
      BY <1>3, <2>4 DEF WriteToken
    <3>6. retired' \subseteq 1..made /\ tokens.pairing \notin retired'
      <4>1. CASE order.name = "rotate"
        <5>1. order.old < order.token /\ order.token \in 1..made /\ tokens.pairing = order.token
          BY <2>4, <4>1 DEF OrderAtWork
        <5>2. tokens.pairing \notin retired /\ order.old \in 0..MaxToken /\ order.old <= made
          BY <2>1 DEF FilesHoldNoRetired
        <5>3. order.old \in 0..made /\ order.old # tokens.pairing
          BY <2>1, <5>1, <5>2
        <5>4. retired' = retired \cup ({order.old} \ {0})
          BY <3>5, <4>1
        <5>5. {order.old} \ {0} \subseteq 1..made
          BY <2>1, <5>3
        <5> QED
          BY <2>1, <5>2, <5>3, <5>4, <5>5
      <4>2. CASE order.name = "clear"
        <5>1. tokens.pairing = 0
          BY <2>4, <4>2 DEF OrderAtWork
        <5>2. tokens.pairing \notin retired /\ order.old \in 0..MaxToken /\ order.old <= made
          BY <2>1 DEF FilesHoldNoRetired
        <5>3. {order.old} \ {0} \subseteq 1..made
          BY <2>1, <5>2
        <5>4. retired' = retired \cup ({order.old} \ {0})
          BY <3>5, <4>2
        <5> QED
          BY <2>1, <5>1, <5>2, <5>3, <5>4
      <4>3. CASE order.name \notin {"rotate", "clear"}
        BY <2>1, <3>5, <4>3 DEF FilesHoldNoRetired
      <4> QED
        BY <4>1, <4>2, <4>3
    <3>9. order'.old <= made'
      <4>1. CASE order.name = "run"
        <5>1. order'.old = order.old
          BY <2>1, <3>3, <4>1
        <5> QED
          BY <2>1, <5>1
      <4>2. CASE order.name # "run"
        <5>1. order'.old = 0
          BY <3>3, <4>2 DEF NoOrder
        <5> QED
          BY <2>1, <5>1
      <4> QED
        BY <4>1, <4>2
    <3>7. TokensTyped' /\ FilesHoldNoRetired'
      BY <2>1, <3>2, <3>4, <3>6, <3>9 DEF TokensTyped, OrderTyped, FilesHoldNoRetired
    <3>8. OrderIsWhole' /\ OrderAtWork'
      BY <3>4 DEF OrderIsWhole, OrderAtWork, NoOrder
    <3> QED
      BY <3>7, <3>8
  <2> QED
    BY <2>1, <2>3, <2>4
<1>4. ASSUME order' = NoOrder, UNCHANGED <<tokens, made, retired>>
      PROVE  TokenInv'
  <2>1. /\ order' \in [name : Commands \cup {"none"}, step : 0..3, token : 0..MaxToken, old : 0..MaxToken]
        /\ order'.old = 0
    BY <1>4 DEF NoOrder
  <2>2. TokensTyped' /\ FilesHoldNoRetired'
    BY <1>4, <2>1 DEF TokensTyped, OrderTyped, FilesHoldNoRetired
  <2>3. OrderIsWhole' /\ OrderAtWork'
    BY <1>4 DEF OrderIsWhole, OrderAtWork, NoOrder
  <2> QED
    BY <2>2, <2>3
<1>5. ASSUME UNCHANGED tokenVars
      PROVE  TokenInv'
  BY <1>5 DEF tokenVars, TokensTyped, OrderTyped, FilesHoldNoRetired, OrderIsWhole, OrderAtWork, InForce
<1>6. CASE TokenSteps
  BY <1>1, <1>2, <1>3, <1>4, <1>6 DEF TokenSteps, OrderKilled
<1>7. ASSUME NEW t \in Terminals, Preflight(t)
      PROVE  TokenInv'
  BY <1>4, <1>7 DEF Preflight
<1>8. ASSUME NEW t \in Terminals, ChildExitSeen(t) \/ LauncherKilled(t) \/ \E p \in Pids : SpawnRouter(t, p)
      PROVE  TokenInv'
  BY <1>5, <1>8 DEF ChildExitSeen, LauncherKilled, SpawnRouter
<1>9. ASSUME NEW p \in Pids, RouterListens(p) \/ RouterEnds(p) \/ OtherStarts(p) \/ OtherEnds(p)
      PROVE  TokenInv'
  BY <1>5, <1>9 DEF RouterListens, RouterEnds, OtherStarts, OtherEnds
<1>10. CASE StopSteps
  BY <1>5, <1>10 DEF StopSteps, StopRecorded, StopDiscovered, StopKills, StopEnds
<1>11. CASE UNCHANGED localVars
  BY <1>5, <1>11 DEF localVars, tokenVars
<1> HIDE DEF TokenInv
<1> QED
  BY <1>6, <1>7, <1>8, <1>9, <1>10, <1>11 DEF LocalNext

LEMMA EndedKeeps ==
  ASSUME ProcessInv, NEW p \in Pids, Ended(p), UNCHANGED <<launcher, born, record, stop>>
  PROVE  ProcessInv'
<1> USE LocalConstantsAssumption DEF ProcessInv
<1>1. Free \in [kind : {"free", "router", "other"}, born : 0..MaxBorn] /\ Free.kind = "free" /\ Free.born = 0
  BY DEF Free
<1>2. /\ procs' \in [Pids -> [kind : {"free", "router", "other"}, born : 0..MaxBorn]]
      /\ \A x \in Pids : procs'[x] = IF x = p THEN Free ELSE procs[x]
  BY <1>1 DEF Ended, ProcessTyped
<1>3. port' = IF port = p THEN NoPid ELSE port
  BY DEF Ended
<1>4. ProcessTyped'
  BY <1>2, <1>3 DEF ProcessTyped
<1>5. ProcessesAreKnown'
  BY <1>1, <1>2 DEF ProcessesAreKnown, ProcessTyped
<1>6. RecordedIsRouter'
  BY <1>1, <1>2 DEF RecordedIsRouter
<1>7. ListenerIsRouter'
  BY <1>2, <1>3 DEF ListenerIsRouter, ProcessTyped
<1> QED
  BY <1>4, <1>5, <1>6, <1>7

(* A new process is younger than all that is recorded.                     *)
LEMMA SpawnedKeeps ==
  ASSUME ProcessInv, NEW p \in Pids, NEW kind \in {"router", "other"}, Available(p),
         procs' = Spawned(p, kind), born' = born + 1,
         \/ record' = record
         \/ kind = "router" /\ record' = [pid |-> p, born |-> born + 1],
         UNCHANGED <<port, stop>>,
         launcher' \in [Terminals -> [step : {"idle", "checked", "waits"}, pid : Pids \cup {NoPid}]]
  PROVE  ProcessInv'
<1> USE LocalConstantsAssumption DEF ProcessInv
<1> DEFINE new == [kind |-> kind, born |-> born + 1]
<1>1. born + 1 \in 0..MaxBorn /\ procs[p] = Free /\ born \in Nat
  BY DEF Available, ProcessTyped
<1>2. new \in [kind : {"free", "router", "other"}, born : 0..MaxBorn] /\ new.kind = kind /\ new.born = born + 1
  BY <1>1
<1>3. /\ procs' \in [Pids -> [kind : {"free", "router", "other"}, born : 0..MaxBorn]]
      /\ \A x \in Pids : procs'[x] = IF x = p THEN new ELSE procs[x]
  BY <1>2 DEF Spawned, ProcessTyped
<1> HIDE DEF new
<1>4. record' \in [pid : Pids \cup {NoPid}, born : 0..MaxBorn] /\ record'.born <= born + 1
      /\ (record' = record \/ record'.pid = p)
  BY <1>1 DEF ProcessTyped, ProcessesAreKnown
<1>5. ProcessTyped'
  BY <1>1, <1>3, <1>4 DEF ProcessTyped
<1>6. ProcessesAreKnown'
  <2>1. \A x \in Pids : procs'[x].born <= born'
    BY <1>1, <1>2, <1>3 DEF ProcessesAreKnown, ProcessTyped
  <2>2. \A x \in Pids : procs'[x].kind = "free" => procs'[x] = Free
    BY <1>2, <1>3 DEF ProcessesAreKnown
  <2>3. record'.pid = NoPid => record' = NoRecord
    BY <1>4 DEF ProcessesAreKnown
  <2> QED
    BY <1>4, <2>1, <2>2, <2>3 DEF ProcessesAreKnown
<1>7. RecordedIsRouter'
  <2>1. CASE record' = record
    <3>1. record.born < born + 1 /\ record.born \in Nat
      BY <1>1 DEF ProcessesAreKnown, ProcessTyped
    <3> QED
      BY <1>2, <1>3, <2>1, <3>1 DEF RecordedIsRouter
  <2>2. CASE record' # record
    <3>1. kind = "router" /\ record'.pid = p
      BY <1>4, <2>2
    <3> QED
      BY <1>2, <1>3, <3>1 DEF RecordedIsRouter
  <2> QED
    BY <2>1, <2>2
<1>8. ListenerIsRouter'
  <2>1. port # p
    BY <1>1 DEF ListenerIsRouter, Free
  <2> QED
    BY <1>3, <2>1 DEF ListenerIsRouter, ProcessTyped
<1> QED
  BY <1>5, <1>6, <1>7, <1>8

LEMMA ProcessStep ==
  ASSUME ProcessInv, [LocalNext]_localVars
  PROVE  ProcessInv'
<1> USE LocalConstantsAssumption DEF ProcessInv
<1>1. ASSUME UNCHANGED <<procs, born, port>>,
             launcher' \in [Terminals -> [step : {"idle", "checked", "waits"}, pid : Pids \cup {NoPid}]],
             record' \in {record, NoRecord},
             stop' \in [step : {"idle", "waits"}, pid : Pids \cup {NoPid}, born : 0..MaxBorn,
                        result : {"none", "stale", "refused", "nothing", "router"}],
             stop'.step = "waits" => stop'.pid \in Pids
      PROVE  ProcessInv'
  <2>1. NoRecord \in [pid : Pids \cup {NoPid}, born : 0..MaxBorn] /\ NoRecord.pid = NoPid /\ NoRecord.born = 0
    BY DEF NoRecord
  <2>2. ProcessTyped'
    BY <1>1, <2>1 DEF ProcessTyped
  <2>3. ProcessesAreKnown'
    BY <1>1, <2>1 DEF ProcessesAreKnown, ProcessTyped
  <2>4. RecordedIsRouter' /\ ListenerIsRouter'
    BY <1>1, <2>1 DEF RecordedIsRouter, ListenerIsRouter
  <2> QED
    BY <2>2, <2>3, <2>4
<1>2. UNCHANGED processVars => ProcessInv'
  BY DEF processVars, ProcessTyped, ProcessesAreKnown, RecordedIsRouter, ListenerIsRouter
<1>3. UNCHANGED <<procs, born, port, stop>> /\ record' \in {record, NoRecord}
      /\ launcher' \in [Terminals -> [step : {"idle", "checked", "waits"}, pid : Pids \cup {NoPid}]]
      => ProcessInv'
  <2>1. stop \in [step : {"idle", "waits"}, pid : Pids \cup {NoPid}, born : 0..MaxBorn,
                  result : {"none", "stale", "refused", "nothing", "router"}]
        /\ (stop.step = "waits" => stop.pid \in Pids)
    BY DEF ProcessTyped, ProcessesAreKnown
  <2> QED
    BY <1>1, <2>1
<1>4. ASSUME NEW t \in Terminals, Preflight(t)
      PROVE  ProcessInv'
  <2>1. launcher' \in [Terminals -> [step : {"idle", "checked", "waits"}, pid : Pids \cup {NoPid}]]
    BY <1>4 DEF Preflight, ProcessTyped
  <2> QED
    BY <1>3, <1>4, <2>1 DEF Preflight
<1>5. ASSUME NEW t \in Terminals, NEW p \in Pids, SpawnRouter(t, p)
      PROVE  ProcessInv'
  <2>1. launcher' \in [Terminals -> [step : {"idle", "checked", "waits"}, pid : Pids \cup {NoPid}]]
    BY <1>5 DEF SpawnRouter, ProcessTyped
  <2> QED
    BY <1>5, <2>1, SpawnedKeeps DEF SpawnRouter
<1>6. ASSUME NEW t \in Terminals, ChildExitSeen(t)
      PROVE  ProcessInv'
  <2>1. launcher' \in [Terminals -> [step : {"idle", "checked", "waits"}, pid : Pids \cup {NoPid}]]
    BY <1>6 DEF ChildExitSeen, ProcessTyped, NoLauncher
  <2> QED
    BY <1>3, <1>6, <2>1 DEF ChildExitSeen, RecordWithout
<1>7. ASSUME NEW t \in Terminals, LauncherKilled(t)
      PROVE  ProcessInv'
  <2>1. launcher' \in [Terminals -> [step : {"idle", "checked", "waits"}, pid : Pids \cup {NoPid}]]
    BY <1>7 DEF LauncherKilled, ProcessTyped, NoLauncher
  <2> QED
    BY <1>3, <1>7, <2>1 DEF LauncherKilled
<1>8. ASSUME NEW p \in Pids, RouterListens(p)
      PROVE  ProcessInv'
  <2>1. CASE port = NoPid
    <3>1. port' = p /\ procs[p].kind = "router" /\ UNCHANGED <<procs, launcher, born, record, stop>>
      BY <1>8, <2>1 DEF RouterListens
    <3> QED
      BY <3>1 DEF ProcessTyped, ProcessesAreKnown, RecordedIsRouter, ListenerIsRouter
  <2>2. CASE port # NoPid
    BY <1>8, <2>2, EndedKeeps DEF RouterListens
  <2> QED
    BY <2>1, <2>2
<1>9. ASSUME NEW p \in Pids, RouterEnds(p) \/ OtherEnds(p)
      PROVE  ProcessInv'
  BY <1>9, EndedKeeps DEF RouterEnds, OtherEnds
<1>10. ASSUME NEW p \in Pids, OtherStarts(p)
       PROVE  ProcessInv'
  <2>1. launcher' \in [Terminals -> [step : {"idle", "checked", "waits"}, pid : Pids \cup {NoPid}]]
    BY <1>10 DEF OtherStarts, ProcessTyped
  <2> QED
    BY <1>10, <2>1, SpawnedKeeps DEF OtherStarts
<1>11. ASSUME NEW pid \in Pids, procs[pid].kind = "router"
       PROVE  /\ Signalled(pid) \in [step : {"idle", "waits"}, pid : Pids \cup {NoPid}, born : 0..MaxBorn,
                                     result : {"none", "stale", "refused", "nothing", "router"}]
              /\ Signalled(pid).pid = pid
  BY <1>11 DEF Signalled, NoStop, ProcessTyped
<1>12. ASSUME NEW result \in {"stale", "refused", "nothing", "router"}
       PROVE  /\ [NoStop EXCEPT !.result = result]
                     \in [step : {"idle", "waits"}, pid : Pids \cup {NoPid}, born : 0..MaxBorn,
                          result : {"none", "stale", "refused", "nothing", "router"}]
              /\ [NoStop EXCEPT !.result = result].step = "idle"
  BY DEF NoStop
<1>13. CASE StopRecorded
  <2>1. /\ record # NoRecord /\ record.pid \in Pids
        /\ UNCHANGED <<launcher, procs, born, port>>
    BY <1>13 DEF StopRecorded, ProcessTyped, ProcessesAreKnown
  <2>2. launcher' \in [Terminals -> [step : {"idle", "checked", "waits"}, pid : Pids \cup {NoPid}]]
    BY <2>1 DEF ProcessTyped
  <2>3. CASE procs[record.pid] = Free
    <3>1. record' = NoRecord /\ stop' = [NoStop EXCEPT !.result = "stale"]
      BY <1>13, <2>3 DEF StopRecorded
    <3> QED
      BY <1>1, <1>12, <2>1, <2>2, <3>1
  <2>4. CASE procs[record.pid] # Free /\ IsRecorded(record)
    <3>1. record' = record /\ stop' = Signalled(record.pid)
      BY <1>13, <2>4 DEF StopRecorded
    <3>2. procs[record.pid].kind = "router"
      BY <2>1, <2>4 DEF IsRecorded, RecordedIsRouter, ProcessesAreKnown
    <3> QED
      BY <1>1, <1>11, <2>1, <2>2, <3>1, <3>2
  <2>5. CASE procs[record.pid] # Free /\ ~IsRecorded(record)
    <3>1. record' = record /\ stop' = [NoStop EXCEPT !.result = "refused"]
      BY <1>13, <2>5 DEF StopRecorded
    <3> QED
      BY <1>1, <1>12, <2>1, <2>2, <3>1
  <2> QED
    BY <2>3, <2>4, <2>5
<1>14. CASE StopDiscovered
  <2>1. UNCHANGED <<launcher, procs, born, record, port>>
    BY <1>14 DEF StopDiscovered
  <2>2. launcher' \in [Terminals -> [step : {"idle", "checked", "waits"}, pid : Pids \cup {NoPid}]]
    BY <2>1 DEF ProcessTyped
  <2>3. CASE port = NoPid
    <3>1. stop' = [NoStop EXCEPT !.result = "nothing"]
      BY <1>14, <2>3 DEF StopDiscovered
    <3> QED
      BY <1>1, <1>12, <2>1, <2>2, <3>1
  <2>4. CASE port # NoPid
    <3>1. stop' = Signalled(port)
      BY <1>14, <2>4 DEF StopDiscovered
    <3>2. port \in Pids /\ procs[port].kind = "router"
      BY <2>4 DEF ListenerIsRouter, ProcessTyped
    <3> QED
      BY <1>1, <1>11, <2>1, <2>2, <3>1, <3>2
  <2> QED
    BY <2>3, <2>4
<1>15. CASE StopKills
  <2>1. stop.pid \in Pids
    BY <1>15 DEF StopKills, ProcessesAreKnown
  <2> QED
    BY <1>15, <2>1, EndedKeeps DEF StopKills
<1>16. CASE StopEnds
  <2>1. /\ UNCHANGED <<launcher, procs, born, port>> /\ record' \in {record, NoRecord}
        /\ stop' = [NoStop EXCEPT !.result = stop.result]
    BY <1>16 DEF StopEnds, RecordWithout
  <2>2. launcher' \in [Terminals -> [step : {"idle", "checked", "waits"}, pid : Pids \cup {NoPid}]]
    BY <2>1 DEF ProcessTyped
  <2>3. /\ stop' \in [step : {"idle", "waits"}, pid : Pids \cup {NoPid}, born : 0..MaxBorn,
                      result : {"none", "stale", "refused", "nothing", "router"}]
        /\ stop'.step = "idle"
    BY <2>1 DEF NoStop, ProcessTyped
  <2> QED
    BY <1>1, <2>1, <2>2, <2>3
<1> HIDE DEF ProcessInv
<1>17. CASE UNCHANGED localVars
  BY <1>2, <1>17 DEF localVars, processVars
<1>18. CASE TokenSteps
  BY <1>2, <1>18 DEF TokenSteps
<1> QED
  BY <1>4, <1>5, <1>6, <1>7, <1>8, <1>9, <1>10, <1>13, <1>14, <1>15, <1>16, <1>17, <1>18
     DEF LocalNext, StopSteps

(* The approval token stays in force when a command only moves it from one *)
(* file to the other, killed on the way or not.                            *)
LEMMA TokenKeptStep ==
  ASSUME TokenInv, [LocalNext]_localVars, InForce(tokens') # InForce(tokens)
  PROVE  InForce(tokens) = 0 \/ order.name \in {"rotate", "clear"}
<1> USE DEF TokenInv
<1>1. WriteToken
  <2>1. tokens' # tokens
    BY DEF InForce
  <2> QED
    BY <2>1 DEF LocalNext, localVars, TokenSteps, Ensure, Clear, OrderKilled, Preflight, ChildExitSeen,
                LauncherKilled, SpawnRouter, RouterListens, RouterEnds, OtherStarts, OtherEnds, StopSteps,
                StopRecorded, StopDiscovered, StopKills, StopEnds, tokenVars
<1>2. SUFFICES ASSUME order.name \notin {"rotate", "clear"} PROVE InForce(tokens) = 0
  OBVIOUS
<1>3. order.step \in {1, 2} /\ tokens' = Written(tokens, order.step, order.token)
  BY <1>1, <1>2 DEF WriteToken
<1>4. order.token # 0 /\ order.old \in {0, order.token}
  BY <1>2, <1>3 DEF OrderAtWork
<1>5. tokens \in [pairing : 0..MaxToken, env : 0..MaxToken]
  BY DEF TokensTyped
<1>6. CASE order.step = 1
  <2>1. tokens'.pairing = order.token /\ InForce(tokens) = order.old
    BY <1>2, <1>3, <1>5, <1>6 DEF Written, OrderAtWork
  <2> QED
    BY <1>4, <2>1 DEF InForce
<1>7. CASE order.step = 2
  <2>1. tokens'.pairing = tokens.pairing /\ tokens.pairing = order.token
    BY <1>2, <1>3, <1>5, <1>7 DEF Written, OrderAtWork
  <2> QED
    BY <1>4, <2>1 DEF InForce
<1> QED
  BY <1>3, <1>6, <1>7

(* A stop signals Routers only, and no retired token comes back, wherever  *)
(* launchers, commands and stops are killed and whoever gets their pids.   *)
THEOREM LauncherAlwaysSound == LocalSpec => []LauncherIsSound
<1>1. LocalInit => TokenInv /\ ProcessInv
  BY LauncherStart
<1>2. TokenInv /\ ProcessInv /\ [LocalNext]_localVars => TokenInv' /\ ProcessInv'
  BY TokenStep, ProcessStep
<1>3. TokenInv /\ ProcessInv => LauncherIsSound
  BY LauncherInvImplies
<1> QED
  BY <1>1, <1>2, <1>3, PTL DEF LocalSpec

-----------------------------------------------------------------------------
(* The installer.  Step by step, what a run has fetched is of the release  *)
(* the manifest is of, and as long as nothing is published, of the release *)
(* that is served: so is all that the run has written by then.             *)

StepNames == {"runtime", "index", "assets", "writeIndex", "writeAssets", "manifest", "metadata",
              "payload", "stage", "displace", "place", "clean",
              "dependencies", "env", "watchdog", "autostart"}

Fetched == RuntimeFiles \cup PackageFiles
Contents == [AllPackageFiles -> Releases \cup {None}]

RunType == [step : StepNames \cup {"idle"}, opts : Options, left : SUBSET Fetched, memory : Contents,
            number : 0..MaxInstalls, ended : {"none", "ok", "failed", "crashed"}, had : BOOLEAN,
            since : 0..MaxPublished]
PackageType == [place : Contents, stage : Contents, displaced : Contents]
ServiceType == [watchdog : BOOLEAN, unit : SUBSET {"registered", "running"},
                code : [RuntimeFiles -> Releases \cup {None}]]

InstallTyped ==
    /\ served \in Releases /\ published \in 0..MaxPublished
    /\ run \in RunType
    /\ runtime \in [RuntimeFiles -> Releases \cup {None}]
    /\ observatory \in [index : Releases \cup {None}, assets : SUBSET Releases]
    /\ package \in PackageType
    /\ env \in [SecretNames -> Secrets]
    /\ service \in ServiceType

RunInOrder ==
    /\ ~At("idle") => run.ended = "none"
    /\ run.since <= published

WholeOrNone == {NoPackage} \cup {Whole(r) : r \in Releases}

(* What is fetched of a package is of its manifest's release.              *)
PackageFetched ==
    /\ run.step \in {"assets", "writeIndex", "writeAssets", "metadata", "payload"} =>
          run.memory["manifest"] \in Releases
    /\ At("payload") => \A f \in AllPackageFiles \ run.left : run.memory[f] = run.memory["manifest"]
    /\ At("stage") => run.memory \in {Whole(r) : r \in Releases}
    /\ run.step \in {"displace", "place"} => package.stage \in {Whole(r) : r \in Releases}
    /\ package.place \in WholeOrNone /\ package.displaced \in WholeOrNone

(* Only while the new package is moved to its place, the old one is away.  *)
PackageThere ==
    run.had => \/ package.place # NoPackage
               \/ At("place") /\ package.displaced # NoPackage
               \/ run.ended = "crashed"

OnlyApprovalMalformed == \A k \in SecretNames : env[k] = Malformed => k = "approval"

(* The run is under way or has ended well, and nothing was published.      *)
Fresh == published = run.since /\ (At("idle") => run.ended = "ok")

FreshFetched ==
    Fresh =>
        /\ run.step \in {"assets", "writeIndex", "writeAssets"} => run.memory = Whole(served)
        /\ run.step \in {"metadata", "payload"} => run.memory["manifest"] = served
        /\ At("stage") => run.memory = Whole(served)
        /\ run.step \in {"displace", "place"} => package.stage = Whole(served)

FreshWritten ==
    Fresh =>
        /\ \A f \in RuntimeFiles : (At("runtime") => f \notin run.left) => runtime[f] = served
        /\ run.step \notin {"runtime", "index", "assets", "writeIndex"} => observatory.index = served
        /\ run.step \notin {"runtime", "index", "assets", "writeIndex", "writeAssets"} =>
              served \in observatory.assets
        /\ run.step \in {"clean", "dependencies", "env", "watchdog", "autostart", "idle"} =>
              package.place = Whole(served)
        /\ run.step \in {"watchdog", "autostart", "idle"} =>
              \A k \in SecretNames : env[k] \notin {None, Malformed}
        /\ run.step \in {"autostart", "idle"} => service.watchdog
        /\ At("idle") /\ run.opts.start = "start" => "running" \in service.unit /\ service.code = runtime

InstallInv ==
    /\ InstallTyped /\ RunInOrder
    /\ PackageFetched /\ PackageThere
    /\ OnlyApprovalMalformed
    /\ FreshFetched /\ FreshWritten

LEMMA StepsAre ==
  /\ Len(Steps) = 16
  /\ Steps[1] = "runtime" /\ Steps[2] = "index" /\ Steps[3] = "assets" /\ Steps[4] = "writeIndex"
  /\ Steps[5] = "writeAssets" /\ Steps[6] = "manifest" /\ Steps[7] = "metadata" /\ Steps[8] = "payload"
  /\ Steps[9] = "stage" /\ Steps[10] = "displace" /\ Steps[11] = "place" /\ Steps[12] = "clean"
  /\ Steps[13] = "dependencies" /\ Steps[14] = "env" /\ Steps[15] = "watchdog" /\ Steps[16] = "autostart"
BY DEF Steps

LEMMA StepsDiffer == \A i, j \in 1..16 : Steps[i] = Steps[j] => i = j
<1> SUFFICES ASSUME NEW i \in 1..16, NEW j \in 1..16, Steps[i] = Steps[j] PROVE i = j
  OBVIOUS
<1>1. \A n \in 1..16 : n \in {1, 2, 3, 4, 5, 6, 7, 8, 9, 10, 11, 12, 13, 14, 15, 16}
  OBVIOUS
<1> QED
  BY <1>1, StepsAre

(* The order of the steps.                                                 *)
LEMMA StepAfterIs ==
  /\ StepAfter("runtime") = "index" /\ StepAfter("index") = "assets" /\ StepAfter("assets") = "writeIndex"
  /\ StepAfter("writeIndex") = "writeAssets" /\ StepAfter("writeAssets") = "manifest"
  /\ StepAfter("manifest") = "metadata" /\ StepAfter("metadata") = "payload"
  /\ StepAfter("payload") = "stage" /\ StepAfter("stage") = "displace" /\ StepAfter("displace") = "place"
  /\ StepAfter("place") = "clean" /\ StepAfter("clean") = "dependencies"
  /\ StepAfter("dependencies") = "env" /\ StepAfter("env") = "watchdog"
  /\ StepAfter("watchdog") = "autostart"
<1>1. ASSUME NEW n \in 1..15
      PROVE  StepAfter(Steps[n]) = Steps[n + 1]
  <2> DEFINE i == CHOOSE j \in 1..Len(Steps) : Steps[j] = Steps[n]
  <2>1. n \in 1..Len(Steps)
    BY StepsAre
  <2>2. i \in 1..Len(Steps) /\ Steps[i] = Steps[n]
    BY <2>1
  <2> HIDE DEF i
  <2>4. i \in 1..16 /\ n \in 1..16
    BY <2>1, <2>2, StepsAre
  <2>3. i = n
    BY <2>2, <2>4, StepsDiffer
  <2> QED
    BY <2>3, StepsAre DEF StepAfter, i
<1> QED
  BY <1>1, StepsAre

LEMMA StepsAreNames == StepNames \subseteq {Steps[i] : i \in 1..Len(Steps)}
<1> QED
  BY StepsAre DEF StepNames

(* A run of the installer goes on: its step, what is left, what it has.    *)
GoesOn(r, step, left, memory) ==
    /\ r \in RunType
    /\ r.step = step /\ r.left = left /\ r.memory = memory
    /\ r.opts = run.opts /\ r.number = run.number /\ r.ended = run.ended
    /\ r.had = run.had /\ r.since = run.since

LEMMA Ahead1 ==
  ASSUME run \in RunType, NEW next \in StepNames, StepAfter(run.step) = next
  PROVE  /\ GoesOn(Ahead, next, run.left, run.memory)
         /\ \A m \in Contents : GoesOn([Ahead EXCEPT !.memory = m], next, run.left, m)
         /\ \A l \in SUBSET Fetched : GoesOn([Ahead EXCEPT !.left = l], next, l, run.memory)
<1>1. GoesOn(Ahead, next, run.left, run.memory)
  BY DEF GoesOn, Ahead, RunType
<1>2. ASSUME NEW m \in Contents PROVE GoesOn([Ahead EXCEPT !.memory = m], next, run.left, m)
  BY <1>1 DEF GoesOn, RunType
<1>3. ASSUME NEW l \in SUBSET Fetched PROVE GoesOn([Ahead EXCEPT !.left = l], next, l, run.memory)
  BY <1>1 DEF GoesOn, RunType
<1> QED
  BY <1>1, <1>2, <1>3

LEMMA ContentsFacts ==
  /\ \A r \in Releases : Whole(r) \in Contents /\ Whole(r) # NoPackage
  /\ NoPackage \in Contents
  /\ \A m \in Contents, f \in AllPackageFiles, r \in Releases :
        /\ [m EXCEPT ![f] = r] \in Contents
        /\ \A g \in AllPackageFiles : [m EXCEPT ![f] = r][g] = IF g = f THEN r ELSE m[g]
  /\ \A m \in Contents, r \in Releases : (\A f \in AllPackageFiles : m[f] = r) => m = Whole(r)
  /\ \A r, q \in Releases : Whole(r) = Whole(q) => r = q
  /\ "manifest" \in AllPackageFiles /\ "metadata" \in AllPackageFiles /\ PackageFiles \subseteq AllPackageFiles
<1> USE InstallConstantsAssumption
<1>1. "manifest" \in AllPackageFiles /\ "metadata" \in AllPackageFiles /\ PackageFiles \subseteq AllPackageFiles
  BY DEF AllPackageFiles
<1>2. ASSUME NEW r \in Releases
      PROVE  /\ Whole(r) \in Contents /\ Whole(r)["manifest"] = r /\ Whole(r) # NoPackage
  BY <1>1, <1>2 DEF Whole, Contents, NoPackage
<1>3. NoPackage \in Contents
  BY DEF NoPackage, Contents
<1>4. ASSUME NEW m \in Contents, NEW f \in AllPackageFiles, NEW r \in Releases
      PROVE  /\ [m EXCEPT ![f] = r] \in Contents
             /\ \A g \in AllPackageFiles : [m EXCEPT ![f] = r][g] = IF g = f THEN r ELSE m[g]
  BY DEF Contents
<1>5. ASSUME NEW m \in Contents, NEW r \in Releases, \A f \in AllPackageFiles : m[f] = r
      PROVE  m = Whole(r)
  BY <1>5 DEF Contents, Whole
<1> QED
  BY <1>1, <1>2, <1>3, <1>4, <1>5

LEMMA InstallInvImplies == InstallInv => InstallIsSound
<1> SUFFICES ASSUME InstallInv PROVE InstallIsSound
  OBVIOUS
<1> USE DEF InstallInv
<1>1. InstallTypeOK
  <2>1. run.step \in {"idle"} \cup {Steps[i] : i \in 1..Len(Steps)}
    BY StepsAreNames DEF InstallTyped, RunType
  <2>2. \A where \in DOMAIN package : package[where] \in [AllPackageFiles -> Releases \cup {None}]
    BY DEF InstallTyped, PackageType, Contents
  <2> QED
    BY <2>1, <2>2 DEF InstallTyped, RunType, ServiceType, InstallTypeOK
<1>2. PackageIsWhole
  BY DEF PackageFetched, PackageIsWhole, WholeOrNone
<1>3. PackageKept
  BY DEF PackageThere, PackageKept
<1>4. OkIsComplete
  <2> SUFFICES ASSUME run.ended = "ok", published = run.since
               PROVE  /\ runtime = [f \in RuntimeFiles |-> served]
                      /\ observatory.index = served /\ served \in observatory.assets
                      /\ package.place = Whole(served)
                      /\ \A k \in SecretNames : env[k] \notin {None, Malformed}
                      /\ service.watchdog
                      /\ run.opts.start = "start" => "running" \in service.unit /\ service.code = runtime
    BY DEF OkIsComplete
  <2>1. At("idle") /\ Fresh
    BY DEF RunInOrder, Fresh
  <2>2. \A f \in RuntimeFiles : runtime[f] = served
    BY <2>1 DEF FreshWritten, At
  <2>3. runtime = [f \in RuntimeFiles |-> served]
    BY <2>2 DEF InstallTyped
  <2> QED
    BY <2>1, <2>3 DEF FreshWritten, At
<1> QED
  BY <1>1, <1>2, <1>3, <1>4 DEF InstallIsSound

LEMMA InstallStart == InstallInit => InstallInv
<1> SUFFICES ASSUME InstallInit PROVE InstallInv
  OBVIOUS
<1> USE InstallConstantsAssumption
<1>1. PICK r \in Releases, old \in Releases \cup {None} :
        /\ served = r
        /\ runtime = [f \in RuntimeFiles |-> old]
        /\ observatory = [index |-> old, assets |-> {old} \ {None}]
        /\ package = [place |-> [f \in AllPackageFiles |-> old], stage |-> NoPackage,
                      displaced |-> NoPackage]
        /\ service = [watchdog |-> old # None,
                      unit |-> IF old = None THEN {} ELSE {"registered", "running"},
                      code |-> [f \in RuntimeFiles |-> old]]
        /\ env \in (IF old = None THEN {NoSecrets}
                    ELSE {OldSecrets, [OldSecrets EXCEPT !.push = None],
                          [OldSecrets EXCEPT !.approval = Malformed]})
  BY DEF InstallInit
<1>2. published = 0 /\ run = NoRun
  BY DEF InstallInit
<1>3. NoRun \in RunType /\ NoRun.step = "idle" /\ NoRun.ended = "none" /\ NoRun.had = FALSE /\ NoRun.since = 0
  <2>1. NoPackage \in Contents
    BY ContentsFacts
  <2>2. [rotate |-> FALSE, start |-> "start"] \in Options
    BY DEF Options
  <2> QED
    BY <2>1, <2>2 DEF NoRun, RunType
<1>4. [f \in AllPackageFiles |-> old] \in Contents /\ [f \in AllPackageFiles |-> old] \in WholeOrNone
  BY DEF Contents, WholeOrNone, Whole, NoPackage
<1>5. package \in PackageType /\ package.place \in WholeOrNone /\ package.displaced \in WholeOrNone
  BY <1>1, <1>4, ContentsFacts DEF PackageType, WholeOrNone
<1>6. env \in [SecretNames -> Secrets] /\ OnlyApprovalMalformed
  <2>1. None \in Secrets /\ Malformed \in Secrets /\ 0 \in Secrets
        /\ None # Malformed /\ 0 # Malformed
    BY DEF Secrets
  <2>2. CASE old = None
    <3>1. env = [pairing |-> None, bridge |-> None, approval |-> None, push |-> None]
      BY <1>1, <2>2 DEF NoSecrets
    <3>2. env \in [SecretNames -> Secrets]
      BY <2>1, <3>1 DEF SecretNames
    <3> QED
      BY <2>1, <3>1, <3>2 DEF OnlyApprovalMalformed, SecretNames
  <2>3. CASE old # None
    <3>1. env \in {OldSecrets, [OldSecrets EXCEPT !.push = None], [OldSecrets EXCEPT !.approval = Malformed]}
      BY <1>1, <2>3
    <3>2. CASE env = [pairing |-> 0, bridge |-> 0, approval |-> 0, push |-> 0]
      BY <2>1, <3>2 DEF SecretNames, OnlyApprovalMalformed
    <3>3. CASE env = [pairing |-> 0, bridge |-> 0, approval |-> 0, push |-> None]
      BY <2>1, <3>3 DEF SecretNames, OnlyApprovalMalformed
    <3>4. CASE env = [pairing |-> 0, bridge |-> 0, approval |-> Malformed, push |-> 0]
      BY <2>1, <3>4 DEF SecretNames, OnlyApprovalMalformed
    <3> QED
      BY <3>1, <3>2, <3>3, <3>4 DEF OldSecrets
  <2> QED
    BY <2>2, <2>3
<1>7. service \in ServiceType
  <2>1. (old # None) \in BOOLEAN
    OBVIOUS
  <2>2. (IF old = None THEN {} ELSE {"registered", "running"}) \in SUBSET {"registered", "running"}
    OBVIOUS
  <2>3. [f \in RuntimeFiles |-> old] \in [RuntimeFiles -> Releases \cup {None}]
    OBVIOUS
  <2> QED
    BY <1>1, <2>1, <2>2, <2>3 DEF ServiceType
<1>8. InstallTyped
  <2>1. observatory \in [index : Releases \cup {None}, assets : SUBSET Releases]
    BY <1>1
  <2>2. runtime \in [RuntimeFiles -> Releases \cup {None}] /\ served \in Releases /\ published \in 0..MaxPublished
    BY <1>1, <1>2
  <2> QED
    BY <1>2, <1>3, <1>5, <1>6, <1>7, <2>1, <2>2 DEF InstallTyped
<1>9. RunInOrder /\ PackageFetched /\ PackageThere
  BY <1>2, <1>3, <1>5 DEF RunInOrder, PackageFetched, PackageThere, At
<1>10. ~Fresh
  BY <1>2, <1>3 DEF Fresh, At
<1> QED
  BY <1>6, <1>8, <1>9, <1>10 DEF InstallInv, FreshFetched, FreshWritten


(* What every step of a run that goes on leaves as it is.                  *)
LEMMA GoesOnKeeps ==
  ASSUME InstallInv, ~At("idle"), NEW next \in StepNames, NEW l, NEW m, GoesOn(run', next, l, m),
         UNCHANGED published
  PROVE  /\ run' \in RunType /\ run'.step = next /\ run'.left = l /\ run'.memory = m
         /\ run'.had = run.had /\ run'.ended = "none" /\ run.ended = "none" /\ run'.opts = run.opts /\ run'.step # "idle"
         /\ RunInOrder'
         /\ Fresh' => Fresh
<1>1. run'.step # "idle" /\ run'.step = next
  BY DEF GoesOn, StepNames
<1>2. run.ended = "none"
  BY DEF InstallInv, RunInOrder
<1> QED
  BY <1>1, <1>2 DEF GoesOn, InstallInv, RunInOrder, Fresh, At

LEMMA RuntimeFileKeeps ==
  ASSUME InstallInv, NEW f \in RuntimeFiles, FetchRuntimeFile(f)
  PROVE  InstallInv'
<1> USE DEF InstallInv
<1>1. /\ run.step = "runtime" /\ f \in run.left /\ run \in RunType /\ served \in Releases
      /\ UNCHANGED <<served, published, observatory, package, env, service>>
      /\ runtime' = [runtime EXCEPT ![f] = served]
  BY DEF FetchRuntimeFile, At, InstallTyped
<1>2. /\ runtime' \in [RuntimeFiles -> Releases \cup {None}]
      /\ \A g \in RuntimeFiles : runtime'[g] = IF g = f THEN served ELSE runtime[g]
  BY <1>1 DEF InstallTyped
<1>3. \E next \in {"runtime", "index"}, l \in SUBSET Fetched :
        /\ GoesOn(run', next, l, run.memory)
        /\ next = "runtime" => l = run.left \ {f}
        /\ next = "index" => run.left = {f}
  <2>1. CASE run.left = {f}
    <3>1. run' = [Ahead EXCEPT !.left = {}]
      BY <2>1 DEF FetchRuntimeFile
    <3>2. GoesOn(run', "index", {}, run.memory)
      BY <1>1, <3>1, Ahead1, StepAfterIs DEF StepNames
    <3> QED
      BY <2>1, <3>2
  <2>2. CASE run.left # {f}
    <3>1. run' = [run EXCEPT !.left = @ \ {f}]
      BY <2>2 DEF FetchRuntimeFile
    <3>2. run.left \ {f} \in SUBSET Fetched
      BY <1>1 DEF RunType
    <3>3. GoesOn(run', "runtime", run.left \ {f}, run.memory)
      BY <1>1, <3>1, <3>2 DEF GoesOn, RunType
    <3> QED
      BY <3>2, <3>3
  <2> QED
    BY <2>1, <2>2
<1>4. PICK next \in {"runtime", "index"}, l \in SUBSET Fetched :
        /\ GoesOn(run', next, l, run.memory)
        /\ next = "runtime" => l = run.left \ {f}
        /\ next = "index" => run.left = {f}
  BY <1>3
<1>5. /\ run' \in RunType /\ run'.step = next /\ run'.left = l /\ run'.memory = run.memory
      /\ run'.had = run.had /\ run'.ended = "none" /\ run.ended = "none" /\ run'.opts = run.opts /\ run'.step # "idle"
      /\ RunInOrder'
      /\ Fresh' => Fresh
  <2>1. next \in StepNames /\ ~At("idle")
    BY <1>1 DEF StepNames, At
  <2> QED
    BY <1>1, <1>4, <2>1, GoesOnKeeps
<1>6. InstallTyped'
  BY <1>1, <1>2, <1>5 DEF InstallTyped
<1>7. PackageFetched' /\ PackageThere' /\ OnlyApprovalMalformed'
  BY <1>1, <1>4, <1>5 DEF PackageFetched, PackageThere, OnlyApprovalMalformed, At
<1>8. FreshFetched'
  BY <1>4, <1>5 DEF FreshFetched, At
<1>9. FreshWritten'
  <2> SUFFICES ASSUME Fresh' PROVE FreshWritten'
    BY DEF FreshWritten
  <2>1. \A g \in RuntimeFiles : g \notin run.left => runtime[g] = served
    BY <1>1, <1>5 DEF FreshWritten, At
  <2>2. \A g \in RuntimeFiles : (run'.step = "runtime" => g \notin run'.left) => runtime'[g] = served
    BY <1>2, <1>4, <1>5, <2>1
  <2> QED
    BY <1>1, <1>4, <1>5, <2>2 DEF FreshWritten, At
<1> QED
  BY <1>5, <1>6, <1>7, <1>8, <1>9

LEMMA ObservatoryKeeps ==
  ASSUME InstallInv, FetchIndex \/ FetchAssets \/ WriteObservatory
  PROVE  InstallInv'
<1> USE DEF InstallInv
<1>1. /\ run \in RunType /\ served \in Releases
      /\ UNCHANGED <<served, published, runtime, package, env, service>>
      /\ run.memory \in Contents
      /\ observatory \in [index : Releases \cup {None}, assets : SUBSET Releases]
  BY DEF FetchIndex, FetchAssets, WriteObservatory, InstallTyped, RunType
<1>2. \/ At("index") /\ run' = [Ahead EXCEPT !.memory = Whole(served)] /\ observatory' = observatory
      \/ /\ At("assets") /\ run.memory = Whole(served) /\ run' = Ahead /\ observatory' = observatory
      \/ /\ At("writeIndex") /\ run' = [Ahead EXCEPT !.memory = run.memory]
         /\ observatory' = [observatory EXCEPT !.index = run.memory["manifest"]]
      \/ /\ At("writeAssets") /\ run' = [Ahead EXCEPT !.memory = NoPackage]
         /\ observatory' = [observatory EXCEPT !.assets = @ \cup {run.memory["manifest"]}]
  BY DEF FetchIndex, FetchAssets, WriteObservatory, At, Ahead
<1>3. served = Whole(served)["manifest"]
  BY ContentsFacts DEF Whole
<1>4. ASSUME NEW next \in {"assets", "writeIndex", "writeAssets", "manifest"}, NEW m \in Contents,
             GoesOn(run', next, run.left, m), run.step \in {"index", "assets", "writeIndex", "writeAssets"},
             observatory' \in [index : Releases \cup {None}, assets : SUBSET Releases],
             next # "manifest" => m["manifest"] \in Releases,
             Fresh /\ next # "manifest" => m = Whole(served),
             Fresh /\ next \in {"writeAssets", "manifest"} => observatory'.index = served,
             Fresh /\ next = "manifest" => served \in observatory'.assets
      PROVE  InstallInv'
  <2>1. next \in StepNames /\ ~At("idle")
    BY <1>4 DEF StepNames, At
  <2>2. /\ run' \in RunType /\ run'.step = next /\ run'.left = run.left /\ run'.memory = m
        /\ run'.had = run.had /\ run'.ended = "none" /\ run.ended = "none" /\ run'.opts = run.opts
        /\ RunInOrder' /\ (Fresh' => Fresh)
    BY <1>1, <1>4, <2>1, GoesOnKeeps
  <2>3. InstallTyped'
    BY <1>1, <1>4, <2>2 DEF InstallTyped
  <2>4. PackageFetched' /\ PackageThere' /\ OnlyApprovalMalformed'
    BY <1>1, <1>4, <2>2 DEF PackageFetched, PackageThere, OnlyApprovalMalformed, At
  <2>5. FreshFetched'
    BY <1>1, <1>4, <2>2 DEF FreshFetched, At
  <2>6. FreshWritten'
    <3> SUFFICES ASSUME Fresh' PROVE FreshWritten'
      BY DEF FreshWritten
    <3>1. \A f \in RuntimeFiles : runtime'[f] = served'
      BY <1>1, <1>4, <2>2 DEF FreshWritten, At
    <3> QED
      BY <1>1, <1>4, <2>2, <3>1 DEF FreshWritten, At
  <2> QED
    BY <2>2, <2>3, <2>4, <2>5, <2>6
<1>5. CASE At("index") /\ run' = [Ahead EXCEPT !.memory = Whole(served)] /\ observatory' = observatory
  <2>1. GoesOn(run', "assets", run.left, Whole(served))
    BY <1>1, <1>5, Ahead1, StepAfterIs, ContentsFacts DEF StepNames, At
  <2> QED
    BY <1>1, <1>3, <1>4, <1>5, <2>1, ContentsFacts DEF At
<1>6. CASE At("assets") /\ run.memory = Whole(served) /\ run' = Ahead /\ observatory' = observatory
  <2>1. GoesOn(run', "writeIndex", run.left, run.memory)
    BY <1>1, <1>6, Ahead1, StepAfterIs DEF StepNames, At
  <2> QED
    BY <1>1, <1>3, <1>4, <1>6, <2>1 DEF At
<1>7. CASE /\ At("writeIndex") /\ run' = [Ahead EXCEPT !.memory = run.memory]
           /\ observatory' = [observatory EXCEPT !.index = run.memory["manifest"]]
  <2>1. GoesOn(run', "writeAssets", run.left, run.memory)
    BY <1>1, <1>7, Ahead1, StepAfterIs DEF StepNames, At
  <2>2. run.memory["manifest"] \in Releases
    BY <1>7 DEF PackageFetched, At
  <2>3. /\ observatory' \in [index : Releases \cup {None}, assets : SUBSET Releases]
        /\ observatory'.index = run.memory["manifest"]
    BY <1>1, <1>7, <2>2
  <2>4. Fresh => run.memory = Whole(served)
    BY <1>7 DEF FreshFetched, At
  <2> QED
    BY <1>1, <1>3, <1>4, <1>7, <2>1, <2>2, <2>3, <2>4 DEF At
<1>8. CASE /\ At("writeAssets") /\ run' = [Ahead EXCEPT !.memory = NoPackage]
           /\ observatory' = [observatory EXCEPT !.assets = @ \cup {run.memory["manifest"]}]
  <2>1. GoesOn(run', "manifest", run.left, NoPackage)
    BY <1>1, <1>8, Ahead1, StepAfterIs, ContentsFacts DEF StepNames, At
  <2>2. run.memory["manifest"] \in Releases
    BY <1>8 DEF PackageFetched, At
  <2>3. /\ observatory' \in [index : Releases \cup {None}, assets : SUBSET Releases]
        /\ observatory'.index = observatory.index
        /\ run.memory["manifest"] \in observatory'.assets
    BY <1>1, <1>8, <2>2
  <2>4. Fresh => run.memory = Whole(served) /\ observatory.index = served
    BY <1>8 DEF FreshFetched, FreshWritten, At
  <2> QED
    BY <1>1, <1>3, <1>4, <1>8, <2>1, <2>2, <2>3, <2>4, ContentsFacts DEF At
<1> QED
  BY <1>2, <1>5, <1>6, <1>7, <1>8

LEMMA PackageFileKeeps ==
  ASSUME InstallInv,
         FetchManifest \/ FetchMetadata \/ \E f \in PackageFiles : FetchPackageFile(f)
  PROVE  InstallInv'
<1> USE DEF InstallInv
<1>1. /\ run \in RunType /\ served \in Releases
      /\ UNCHANGED <<served, published, runtime, observatory, package, env, service>>
      /\ run.memory \in Contents /\ run.left \in SUBSET Fetched
  BY DEF FetchManifest, FetchMetadata, FetchPackageFile, InstallTyped, RunType
<1>2. ASSUME NEW next \in {"metadata", "payload", "stage"}, NEW l \in SUBSET Fetched, NEW m \in Contents,
             GoesOn(run', next, l, m), run.step \in {"manifest", "metadata", "payload"},
             m["manifest"] \in Releases, Fresh => m["manifest"] = served,
             next = "payload" => \A g \in AllPackageFiles \ l : m[g] = m["manifest"],
             next = "stage" => m = Whole(m["manifest"])
      PROVE  InstallInv'
  <2>1. next \in StepNames /\ ~At("idle")
    BY <1>2 DEF StepNames, At
  <2>2. /\ run' \in RunType /\ run'.step = next /\ run'.left = l /\ run'.memory = m
        /\ run'.had = run.had /\ run'.ended = "none" /\ run.ended = "none" /\ run'.opts = run.opts
        /\ RunInOrder' /\ (Fresh' => Fresh)
    BY <1>1, <1>2, <2>1, GoesOnKeeps
  <2>3. InstallTyped'
    BY <1>1, <2>2 DEF InstallTyped
  <2>4. PackageFetched' /\ PackageThere' /\ OnlyApprovalMalformed'
    BY <1>1, <1>2, <2>2 DEF PackageFetched, PackageThere, OnlyApprovalMalformed, At
  <2>5. FreshFetched'
    BY <1>1, <1>2, <2>2 DEF FreshFetched, At
  <2>6. FreshWritten'
    <3> SUFFICES ASSUME Fresh' PROVE FreshWritten'
      BY DEF FreshWritten
    <3>1. \A f \in RuntimeFiles : runtime'[f] = served'
      BY <1>1, <1>2, <2>2 DEF FreshWritten, At
    <3> QED
      BY <1>1, <1>2, <2>2, <3>1 DEF FreshWritten, At
  <2> QED
    BY <2>2, <2>3, <2>4, <2>5, <2>6
<1>3. CASE FetchManifest
  <2> DEFINE m == [run.memory EXCEPT !["manifest"] = served]
  <2>1. m \in Contents /\ m["manifest"] = served
    BY <1>1, ContentsFacts
  <2>2. run' = [Ahead EXCEPT !.memory["manifest"] = served] /\ run.step = "manifest"
    BY <1>3 DEF FetchManifest, At
  <2>3. Ahead.memory = run.memory /\ Ahead \in RunType
    BY <1>1, <2>2, Ahead1, StepAfterIs DEF StepNames, GoesOn
  <2>4. run' = [Ahead EXCEPT !.memory = m]
    BY <2>2, <2>3
  <2> HIDE DEF m
  <2>5. GoesOn(run', "metadata", run.left, m)
    BY <1>1, <2>1, <2>2, <2>4, Ahead1, StepAfterIs DEF StepNames
  <2> QED
    BY <1>1, <1>2, <2>1, <2>2, <2>5
<1>4. CASE FetchMetadata
  <2> DEFINE m == [run.memory EXCEPT !["metadata"] = served]
  <2>1. served = run.memory["manifest"] /\ run.step = "metadata"
    BY <1>4 DEF FetchMetadata, DescribesManifest, At
  <2>2. m \in Contents /\ m["manifest"] = served
    BY <1>1, <2>1, ContentsFacts
  <2>3. m["metadata"] = served
    <3>1. "metadata" \in AllPackageFiles
      BY ContentsFacts
    <3> QED
      BY <1>1, <3>1 DEF Contents
  <2>4. run' = [Ahead EXCEPT !.memory["metadata"] = served, !.left = PackageFiles]
    BY <1>4 DEF FetchMetadata
  <2>5. Ahead.memory = run.memory /\ Ahead \in RunType /\ GoesOn(Ahead, "payload", run.left, run.memory)
    BY <1>1, <2>1, Ahead1, StepAfterIs DEF StepNames, GoesOn
  <2>6. run' = [Ahead EXCEPT !.memory = m, !.left = PackageFiles]
    BY <2>4, <2>5
  <2> HIDE DEF m
  <2>7. PackageFiles \in SUBSET Fetched
    BY DEF Fetched
  <2>8. GoesOn(run', "payload", PackageFiles, m)
    BY <2>2, <2>5, <2>6, <2>7 DEF GoesOn, RunType
  <2>9. \A g \in AllPackageFiles \ PackageFiles : m[g] = m["manifest"]
    BY <2>2, <2>3 DEF AllPackageFiles
  <2> QED
    BY <1>1, <1>2, <2>1, <2>2, <2>7, <2>8, <2>9
<1>5. ASSUME NEW f \in PackageFiles, FetchPackageFile(f)
      PROVE  InstallInv'
  <2> DEFINE m == [run.memory EXCEPT ![f] = served]
             l == run.left \ {f}
             next == IF run.left = {f} THEN "stage" ELSE "payload"
             from == IF run.left = {f} THEN Ahead ELSE run
  <2>1. served = run.memory["manifest"] /\ run.step = "payload" /\ f \in run.left
    BY <1>5 DEF FetchPackageFile, Verified, At
  <2>2. f \in AllPackageFiles
    BY ContentsFacts
  <2>3. /\ m \in Contents /\ l \in SUBSET Fetched
        /\ \A g \in AllPackageFiles : m[g] = IF g = f THEN served ELSE run.memory[g]
    BY <1>1, <2>2, ContentsFacts
  <2>4. m["manifest"] = served
    BY <2>1, <2>3, ContentsFacts
  <2>5. \A g \in AllPackageFiles \ l : m[g] = m["manifest"]
    <3>1. \A g \in AllPackageFiles \ run.left : run.memory[g] = run.memory["manifest"]
      BY <2>1 DEF PackageFetched, At
    <3> QED
      BY <2>1, <2>3, <2>4, <3>1
  <2>6. next = "stage" => m = Whole(m["manifest"])
    <3>1. next = "stage" => l = {}
      BY <2>1
    <3> QED
      BY <1>1, <2>3, <2>4, <2>5, <3>1, ContentsFacts
  <2>7. run' = [from EXCEPT !.left = @ \ {f}, !.memory[f] = served]
    BY <1>5 DEF FetchPackageFile
  <2>8. GoesOn(from, next, run.left, run.memory)
    <3>1. CASE run.left = {f}
      BY <1>1, <2>1, <3>1, Ahead1, StepAfterIs DEF StepNames
    <3>2. CASE run.left # {f}
      BY <1>1, <2>1, <3>2 DEF GoesOn
    <3> QED
      BY <3>1, <3>2
  <2> HIDE DEF from
  <2>9. run' = [from EXCEPT !.left = l, !.memory = m]
    BY <2>7, <2>8 DEF GoesOn, RunType
  <2> HIDE DEF m, l
  <2>10. GoesOn(run', next, l, m)
    BY <2>3, <2>8, <2>9 DEF GoesOn, RunType
  <2>11. next \in {"metadata", "payload", "stage"}
    OBVIOUS
  <2> HIDE DEF next
  <2>12. Fresh => m["manifest"] = served
    BY <2>4
  <2> QED
    BY <1>1, <1>2, <2>1, <2>3, <2>4, <2>5, <2>6, <2>10, <2>11, <2>12
<1> QED
  BY <1>3, <1>4, <1>5

LEMMA SwapKeeps ==
  ASSUME InstallInv, SwapPackage
  PROVE  InstallInv'
<1> USE DEF InstallInv
<1>1. /\ run \in RunType /\ served \in Releases /\ package \in PackageType /\ run' = Ahead
      /\ UNCHANGED <<served, published, runtime, observatory, env, service>>
      /\ run.memory \in Contents /\ NoPackage \in Contents /\ NoPackage \in WholeOrNone
      /\ package.place \in WholeOrNone /\ package.displaced \in WholeOrNone
  BY ContentsFacts DEF SwapPackage, InstallTyped, RunType, PackageFetched, WholeOrNone
<1>2. ASSUME NEW next \in {"displace", "place", "clean", "dependencies"}, StepAfter(run.step) = next,
             run.step \in {"stage", "displace", "place", "clean"},
             package' \in PackageType, package'.place \in WholeOrNone, package'.displaced \in WholeOrNone,
             next \in {"displace", "place"} => package'.stage \in {Whole(r) : r \in Releases},
             Fresh /\ next \in {"displace", "place"} => package'.stage = Whole(served),
             Fresh /\ next \in {"clean", "dependencies"} => package'.place = Whole(served),
             run.had => package'.place # NoPackage \/ (next = "place" /\ package'.displaced # NoPackage)
      PROVE  InstallInv'
  <2>1. next \in StepNames /\ ~At("idle")
    BY <1>2 DEF StepNames, At
  <2>2. GoesOn(run', next, run.left, run.memory)
    BY <1>1, <1>2, <2>1, Ahead1
  <2>3. /\ run' \in RunType /\ run'.step = next /\ run'.left = run.left /\ run'.memory = run.memory
        /\ run'.had = run.had /\ run'.ended = "none" /\ run.ended = "none" /\ run'.opts = run.opts
        /\ RunInOrder' /\ (Fresh' => Fresh)
    BY <1>1, <2>1, <2>2, GoesOnKeeps
  <2>4. InstallTyped'
    BY <1>1, <1>2, <2>3 DEF InstallTyped
  <2>5. PackageFetched' /\ PackageThere' /\ OnlyApprovalMalformed'
    <3>1. WholeOrNone' = WholeOrNone
      BY DEF WholeOrNone
    <3> QED
      BY <1>1, <1>2, <2>3, <3>1 DEF PackageFetched, PackageThere, OnlyApprovalMalformed, At
  <2>6. FreshFetched'
    BY <1>1, <1>2, <2>3 DEF FreshFetched, At
  <2>7. FreshWritten'
    <3> SUFFICES ASSUME Fresh' PROVE FreshWritten'
      BY DEF FreshWritten
    <3>1. \A f \in RuntimeFiles : runtime'[f] = served'
      BY <1>1, <1>2, <2>3 DEF FreshWritten, At
    <3> QED
      BY <1>1, <1>2, <2>3, <3>1 DEF FreshWritten, At
  <2> QED
    BY <2>3, <2>4, <2>5, <2>6, <2>7
<1>3. run.step # "idle" => run.ended = "none"
  BY DEF RunInOrder, At
<1>4. CASE At("stage") /\ package' = [package EXCEPT !.stage = run.memory, !.displaced = NoPackage]
  <2>1. /\ package' \in PackageType /\ package'.stage = run.memory /\ package'.place = package.place
        /\ package'.displaced = NoPackage /\ StepAfter(run.step) = "displace"
    BY <1>1, <1>4, StepAfterIs DEF PackageType, At
  <2>2. run.memory \in {Whole(r) : r \in Releases} /\ (Fresh => run.memory = Whole(served))
    BY <1>4 DEF PackageFetched, FreshFetched, At
  <2>3. package.place \in WholeOrNone /\ (run.had => package.place # NoPackage)
    BY <1>3, <1>4 DEF PackageFetched, PackageThere, At
  <2> QED
    BY <1>1, <1>2, <1>4, <2>1, <2>2, <2>3 DEF At
<1>5. CASE At("displace") /\ package' = [package EXCEPT !.displaced = package.place, !.place = NoPackage]
  <2>1. /\ package' \in PackageType /\ package'.stage = package.stage /\ package'.place = NoPackage
        /\ package'.displaced = package.place /\ StepAfter(run.step) = "place"
    BY <1>1, <1>5, StepAfterIs DEF PackageType, At
  <2>2. package.stage \in {Whole(r) : r \in Releases} /\ (Fresh => package.stage = Whole(served))
    BY <1>5 DEF PackageFetched, FreshFetched, At
  <2>3. run.had => package.place # NoPackage
    BY <1>3, <1>5 DEF PackageThere, At
  <2> QED
    BY <1>1, <1>2, <1>5, <2>1, <2>2, <2>3 DEF At, WholeOrNone
<1>6. CASE At("place") /\ package' = [package EXCEPT !.place = package.stage, !.stage = NoPackage]
  <2>1. /\ package' \in PackageType /\ package'.place = package.stage /\ StepAfter(run.step) = "clean"
        /\ package'.displaced = package.displaced
    BY <1>1, <1>6, StepAfterIs DEF PackageType, At
  <2>2. package.stage \in {Whole(r) : r \in Releases} /\ (Fresh => package.stage = Whole(served))
    BY <1>6 DEF PackageFetched, FreshFetched, At
  <2>3. package.stage # NoPackage /\ package.stage \in WholeOrNone
    BY <2>2, ContentsFacts DEF WholeOrNone
  <2> QED
    BY <1>1, <1>2, <1>6, <2>1, <2>2, <2>3 DEF At
<1>7. CASE At("clean") /\ package' = [package EXCEPT !.displaced = NoPackage]
  <2>1. /\ package' \in PackageType /\ package'.place = package.place
        /\ package'.displaced = NoPackage /\ StepAfter(run.step) = "dependencies"
    BY <1>1, <1>7, StepAfterIs DEF PackageType, At
  <2>2. package.place \in WholeOrNone /\ (run.had => package.place # NoPackage)
        /\ (Fresh => package.place = Whole(served))
    BY <1>3, <1>7 DEF PackageFetched, PackageThere, FreshWritten, At
  <2> QED
    BY <1>1, <1>2, <1>7, <2>1, <2>2 DEF At
<1> QED
  BY <1>4, <1>5, <1>6, <1>7 DEF SwapPackage

LEMMA SettingUpKeeps ==
  ASSUME InstallInv, InstallDependencies \/ UpdateEnv \/ WriteWatchdog
  PROVE  InstallInv'
<1> USE InstallConstantsAssumption DEF InstallInv
<1>1. /\ run \in RunType /\ served \in Releases /\ run' = Ahead
      /\ UNCHANGED <<served, published, runtime, observatory, package>>
      /\ env \in [SecretNames -> Secrets] /\ service \in ServiceType
      /\ run.number \in 0..MaxInstalls
  BY DEF InstallDependencies, UpdateEnv, WriteWatchdog, InstallTyped, RunType
<1>2. ASSUME NEW next \in {"env", "watchdog", "autostart"}, StepAfter(run.step) = next,
             run.step \in {"dependencies", "env", "watchdog"},
             env' \in [SecretNames -> Secrets], OnlyApprovalMalformed',
             service' \in ServiceType,
             Fresh /\ next \in {"watchdog", "autostart"} => \A k \in SecretNames : env'[k] \notin {None, Malformed},
             next = "autostart" => service'.watchdog
      PROVE  InstallInv'
  <2>1. next \in StepNames /\ ~At("idle")
    BY <1>2 DEF StepNames, At
  <2>2. GoesOn(run', next, run.left, run.memory)
    BY <1>1, <1>2, <2>1, Ahead1
  <2>3. /\ run' \in RunType /\ run'.step = next /\ run'.left = run.left /\ run'.memory = run.memory
        /\ run'.had = run.had /\ run'.ended = "none" /\ run.ended = "none" /\ run'.opts = run.opts
        /\ RunInOrder' /\ (Fresh' => Fresh)
    BY <1>1, <2>1, <2>2, GoesOnKeeps
  <2>4. InstallTyped'
    BY <1>1, <1>2, <2>3 DEF InstallTyped
  <2>5. PackageFetched' /\ PackageThere'
    <3>1. WholeOrNone' = WholeOrNone
      BY DEF WholeOrNone
    <3> QED
      BY <1>1, <1>2, <2>3, <3>1 DEF PackageFetched, PackageThere, At
  <2>6. FreshFetched'
    BY <1>1, <1>2, <2>3 DEF FreshFetched, At
  <2>7. FreshWritten'
    <3> SUFFICES ASSUME Fresh' PROVE FreshWritten'
      BY DEF FreshWritten
    <3>1. \A f \in RuntimeFiles : runtime'[f] = served'
      BY <1>1, <1>2, <2>3 DEF FreshWritten, At
    <3> QED
      BY <1>1, <1>2, <2>3, <3>1 DEF FreshWritten, At
  <2> QED
    BY <1>2, <2>3, <2>4, <2>5, <2>6, <2>7
<1>3. CASE InstallDependencies
  <2>1. run.step = "dependencies" /\ StepAfter(run.step) = "env" /\ UNCHANGED <<env, service>>
    BY <1>3, StepAfterIs DEF InstallDependencies, At
  <2> QED
    BY <1>1, <1>2, <2>1 DEF OnlyApprovalMalformed
<1>4. CASE UpdateEnv
  <2>1. /\ run.step = "env" /\ StepAfter(run.step) = "watchdog" /\ service' = service
        /\ run.opts.rotate \/ env["approval"] # Malformed
        /\ env' = [k \in SecretNames |->
                     IF k = "approval" /\ run.opts.rotate THEN run.number ELSE Secret(env[k])]
    BY <1>1, <1>4, StepAfterIs DEF UpdateEnv, At
  <2>2. run.number \in Secrets /\ run.number \notin {None, Malformed}
    BY <1>1 DEF Secrets
  <2>3. ASSUME NEW k \in SecretNames
        PROVE  env'[k] \in Secrets /\ env'[k] \notin {None, Malformed}
    <3>1. CASE k = "approval" /\ run.opts.rotate
      BY <2>1, <2>2, <3>1
    <3>2. CASE ~(k = "approval" /\ run.opts.rotate)
      <4>1. env'[k] = Secret(env[k])
        BY <2>1, <3>2
      <4>2. env[k] \in Secrets /\ env[k] # Malformed
        BY <1>1, <2>1, <3>2 DEF OnlyApprovalMalformed
      <4> QED
        BY <2>2, <4>1, <4>2 DEF Secret
    <3> QED
      BY <3>1, <3>2
  <2>4. env' \in [SecretNames -> Secrets]
    BY <2>1, <2>3
  <2>5. OnlyApprovalMalformed'
    BY <2>3 DEF OnlyApprovalMalformed
  <2> QED
    BY <1>1, <1>2, <2>1, <2>3, <2>4, <2>5
<1>5. CASE WriteWatchdog
  <2>1. /\ run.step = "watchdog" /\ StepAfter(run.step) = "autostart" /\ env' = env
        /\ service' = [service EXCEPT !.watchdog = TRUE]
    BY <1>5, StepAfterIs DEF WriteWatchdog, At
  <2>2. service' \in ServiceType /\ service'.watchdog
    BY <1>1, <2>1 DEF ServiceType
  <2>3. Fresh => \A k \in SecretNames : env[k] \notin {None, Malformed}
    BY <2>1 DEF FreshWritten, At
  <2>4. OnlyApprovalMalformed'
    BY <2>1 DEF OnlyApprovalMalformed
  <2> QED
    BY <1>1, <1>2, <2>1, <2>2, <2>3, <2>4
<1> QED
  BY <1>3, <1>4, <1>5

LEMMA UnitFacts ==
  ASSUME service \in ServiceType, runtime \in [RuntimeFiles -> Releases \cup {None}]
  PROVE  /\ Registered \in ServiceType /\ Registered.watchdog = service.watchdog
         /\ Restarted \in ServiceType /\ Restarted.watchdog = service.watchdog
         /\ "running" \in Restarted.unit /\ Restarted.code = runtime
<1>1. Registered \in ServiceType /\ Registered.watchdog = service.watchdog
  BY DEF Registered, ServiceType
<1>2. Restarted = [Registered EXCEPT !.unit = @ \cup {"running"}, !.code = runtime]
  BY DEF Restarted, Started
<1> QED
  BY <1>1, <1>2 DEF ServiceType

LEMMA AutostartKeeps ==
  ASSUME InstallInv, InstallAutostart
  PROVE  InstallInv'
<1> USE DEF InstallInv
<1>1. /\ run \in RunType /\ run.step = "autostart" /\ service \in ServiceType
      /\ run' = [run EXCEPT !.step = "idle", !.ended = "ok"]
      /\ UNCHANGED <<served, published, runtime, observatory, package, env>>
      /\ runtime \in [RuntimeFiles -> Releases \cup {None}]
  BY DEF InstallAutostart, InstallTyped, At
<1>2. /\ run' \in RunType /\ run'.step = "idle" /\ run'.ended = "ok" /\ run'.opts = run.opts
      /\ run'.had = run.had /\ run'.since = run.since /\ run.ended = "none"
      /\ run.opts.start \in {"skip", "register", "start"}
  BY <1>1 DEF RunType, Options, RunInOrder, At
<1>3. /\ service' \in ServiceType /\ service'.watchdog = service.watchdog
      /\ run.opts.start = "start" => "running" \in service'.unit /\ service'.code = runtime
  <2>1. CASE run.opts.start = "skip"
    BY <1>1, <2>1 DEF InstallAutostart
  <2>2. CASE run.opts.start = "register"
    <3>1. service' = Registered
      BY <2>2 DEF InstallAutostart
    <3> QED
      BY <1>1, <2>2, <3>1, UnitFacts
  <2>3. CASE run.opts.start = "start"
    <3>1. service' = Restarted
      BY <2>3 DEF InstallAutostart
    <3> QED
      BY <1>1, <3>1, UnitFacts
  <2> QED
    BY <1>2, <2>1, <2>2, <2>3
<1>4. InstallTyped' /\ RunInOrder'
  BY <1>1, <1>2, <1>3 DEF InstallTyped, RunInOrder, At
<1>5. PackageFetched' /\ PackageThere' /\ OnlyApprovalMalformed'
  <2>1. WholeOrNone' = WholeOrNone
    BY DEF WholeOrNone
  <2> QED
    BY <1>1, <1>2, <2>1 DEF PackageFetched, PackageThere, OnlyApprovalMalformed, At
<1>6. FreshFetched'
  BY <1>2 DEF FreshFetched, At
<1>7. FreshWritten'
  <2> SUFFICES ASSUME Fresh' PROVE FreshWritten'
    BY DEF FreshWritten
  <2>1. Fresh
    BY <1>1, <1>2 DEF Fresh, At
  <2>2. /\ \A f \in RuntimeFiles : runtime'[f] = served'
        /\ observatory'.index = served' /\ served' \in observatory'.assets
        /\ package'.place = Whole(served')
        /\ \A k \in SecretNames : env'[k] \notin {None, Malformed}
        /\ service'.watchdog
    BY <1>1, <1>3, <2>1 DEF FreshWritten, At
  <2> QED
    BY <1>1, <1>2, <1>3, <2>2 DEF FreshWritten, At
<1> QED
  BY <1>4, <1>5, <1>6, <1>7

(* A run that fails or is killed says so; what it leaves of the package is *)
(* whole.                                                                  *)
LEMMA EndedBadly ==
  ASSUME InstallInv, NEW how \in {"failed", "crashed"}, ~At("idle"),
         run' = [Failed EXCEPT !.ended = how],
         UNCHANGED <<served, published, runtime, observatory, env>>,
         service' \in ServiceType, package' \in PackageType, package'.place \in WholeOrNone,
         package'.displaced \in WholeOrNone,
         run.had /\ how = "failed" => package'.place # NoPackage
  PROVE  InstallInv'
<1> USE DEF InstallInv
<1>1. run \in RunType /\ NoPackage \in Contents
  BY ContentsFacts DEF InstallTyped
<1>2. /\ run' \in RunType /\ run'.step = "idle" /\ run'.ended = how /\ run'.had = run.had
      /\ run'.since = run.since
  BY <1>1 DEF Failed, RunType
<1>3. InstallTyped' /\ RunInOrder'
  BY <1>2 DEF InstallTyped, RunInOrder, At
<1>4. PackageFetched' /\ PackageThere' /\ OnlyApprovalMalformed'
  <2>1. WholeOrNone' = WholeOrNone
    BY DEF WholeOrNone
  <2> QED
    BY <1>2, <2>1 DEF PackageFetched, PackageThere, OnlyApprovalMalformed, At
<1>5. ~Fresh'
  BY <1>2 DEF Fresh, At
<1> QED
  BY <1>3, <1>4, <1>5 DEF FreshFetched, FreshWritten

LEMMA FailureKeeps ==
  ASSUME InstallInv, InstallFails \/ InstallCrashes
  PROVE  InstallInv'
<1> USE DEF InstallInv
<1>1. /\ run \in RunType /\ service \in ServiceType /\ package \in PackageType
      /\ NoPackage \in Contents /\ NoPackage \in WholeOrNone /\ package.place \in WholeOrNone
      /\ runtime \in [RuntimeFiles -> Releases \cup {None}]
  BY ContentsFacts DEF InstallTyped, PackageFetched, WholeOrNone
<1>2. CASE InstallFails
  <2>1. /\ ~At("idle") /\ UNCHANGED <<served, published, runtime, observatory, env>>
        /\ run.ended = "none" /\ package.displaced \in WholeOrNone
    BY <1>2 DEF InstallFails, RunInOrder, PackageFetched
  <2>2. run' = [Failed EXCEPT !.ended = "failed"]
    BY <1>1, <1>2 DEF InstallFails, Failed, RunType
  <2>3. service' \in ServiceType
    BY <1>1, <1>2, UnitFacts DEF InstallFails
  <2>4. CASE run.step \in OfPackage /\ package.place = NoPackage /\ package.displaced # NoPackage
    <3>1. package' = [place |-> package.displaced, stage |-> NoPackage, displaced |-> NoPackage]
      BY <1>2, <2>4 DEF InstallFails, PutBack
    <3>2. package' \in PackageType /\ package'.place = package.displaced /\ package'.displaced = NoPackage
      BY <1>1, <3>1 DEF PackageType
    <3> QED
      BY <1>1, <2>1, <2>2, <2>3, <2>4, <3>2, EndedBadly
  <2>5. CASE run.step \in OfPackage /\ ~(package.place = NoPackage /\ package.displaced # NoPackage)
    <3>1. package' = [package EXCEPT !.stage = NoPackage]
      BY <1>2, <2>5 DEF InstallFails, PutBack, StageRemoved
    <3>2. /\ package' \in PackageType /\ package'.place = package.place
          /\ package'.displaced = package.displaced
      BY <1>1, <3>1 DEF PackageType
    <3>3. run.had => package.place # NoPackage
      BY <2>1, <2>5 DEF PackageThere
    <3> QED
      BY <1>1, <2>1, <2>2, <2>3, <3>2, <3>3, EndedBadly
  <2>6. CASE run.step \notin OfPackage
    <3>1. package' = package
      BY <1>2, <2>6 DEF InstallFails
    <3>2. run.had => package.place # NoPackage
      BY <2>1, <2>6 DEF PackageThere, OfPackage, At
    <3> QED
      BY <1>1, <2>1, <2>2, <2>3, <3>1, <3>2, EndedBadly
  <2> QED
    BY <2>4, <2>5, <2>6
<1>3. CASE InstallCrashes
  <2>1. /\ ~At("idle") /\ UNCHANGED <<served, published, runtime, observatory, env, service>>
        /\ run' = [Failed EXCEPT !.ended = "crashed"]
        /\ package' = [package EXCEPT !.stage = NoPackage, !.displaced = NoPackage]
    BY <1>3 DEF InstallCrashes
  <2>2. package' \in PackageType /\ package'.place = package.place /\ package'.displaced = NoPackage
    BY <1>1, <2>1 DEF PackageType
  <2> QED
    BY <1>1, <2>1, <2>2, EndedBadly
<1> QED
  BY <1>2, <1>3

LEMMA StartKeeps ==
  ASSUME InstallInv, NEW opts \in Options, StartInstall(opts)
  PROVE  InstallInv'
<1> USE InstallConstantsAssumption DEF InstallInv
<1>1. /\ At("idle") /\ run \in RunType /\ run.number < MaxInstalls
      /\ UNCHANGED <<served, published, runtime, observatory, package, env, service>>
      /\ run' = [NoRun EXCEPT !.step = "runtime", !.opts = opts, !.left = RuntimeFiles,
                              !.number = run.number + 1, !.since = published,
                              !.had = package.place # NoPackage]
      /\ published \in 0..MaxPublished
  BY DEF StartInstall, InstallTyped
<1> DEFINE had == package.place # NoPackage
           started == [step |-> "runtime", opts |-> opts, left |-> RuntimeFiles, memory |-> NoPackage,
                       number |-> run.number + 1, ended |-> "none", had |-> had, since |-> published]
<1>2. run' = started
  BY <1>1 DEF NoRun
<1>3. /\ started \in RunType
      /\ started.step = "runtime" /\ started.left = RuntimeFiles /\ started.ended = "none"
      /\ started.had = had /\ started.since = published
  <2>1. had \in BOOLEAN
    OBVIOUS
  <2> HIDE DEF had
  <2>2. run.number + 1 \in 0..MaxInstalls
    BY <1>1 DEF RunType
  <2>3. NoPackage \in Contents /\ RuntimeFiles \in SUBSET Fetched
    BY ContentsFacts DEF Fetched
  <2> QED
    BY <1>1, <2>1, <2>2, <2>3 DEF RunType, StepNames
<1> HIDE DEF started
<1>4. InstallTyped' /\ RunInOrder'
  <2>1. run' \in RunType /\ run'.ended = "none" /\ run'.since = published
    BY <1>2, <1>3
  <2>2. InstallTyped'
    BY <1>1, <2>1 DEF InstallTyped
  <2>3. RunInOrder'
    BY <1>1, <2>1 DEF RunInOrder, At
  <2> QED
    BY <2>2, <2>3
<1>5. PackageFetched' /\ PackageThere' /\ OnlyApprovalMalformed'
  <2>1. WholeOrNone' = WholeOrNone
    BY DEF WholeOrNone
  <2> QED
    BY <1>1, <1>2, <1>3, <2>1 DEF PackageFetched, PackageThere, OnlyApprovalMalformed, At
<1>6. FreshFetched' /\ FreshWritten'
  BY <1>2, <1>3 DEF FreshFetched, FreshWritten, At
<1> QED
  BY <1>4, <1>5, <1>6

LEMMA PublishKeeps ==
  ASSUME InstallInv, NEW r \in Releases, Publish(r)
  PROVE  InstallInv'
<1> USE InstallConstantsAssumption DEF InstallInv
<1>1. /\ published < MaxPublished /\ served' = r /\ published' = published + 1
      /\ UNCHANGED <<run, runtime, observatory, package, env, service>>
      /\ run \in RunType /\ published \in 0..MaxPublished
  BY DEF Publish, InstallTyped
<1>2. published' \in 0..MaxPublished /\ run.since < published'
  BY <1>1 DEF RunInOrder, RunType
<1>3. InstallTyped' /\ RunInOrder'
  BY <1>1, <1>2 DEF InstallTyped, RunInOrder, RunType, At
<1>4. PackageFetched' /\ PackageThere' /\ OnlyApprovalMalformed'
  BY <1>1 DEF PackageFetched, PackageThere, OnlyApprovalMalformed, WholeOrNone, At
<1>5. ~Fresh'
  BY <1>1, <1>2 DEF Fresh, RunType
<1> QED
  BY <1>3, <1>4, <1>5 DEF FreshFetched, FreshWritten

LEMMA RouterKeeps ==
  ASSUME InstallInv, RouterStartsAgain \/ Uninstall
  PROVE  InstallInv'
<1> USE DEF InstallInv
<1>1. /\ run \in RunType /\ service \in ServiceType
      /\ runtime \in [RuntimeFiles -> Releases \cup {None}]
      /\ UNCHANGED <<served, published, runtime, observatory, package, env>>
  BY DEF RouterStartsAgain, Uninstall, InstallTyped
<1>2. PackageFetched /\ PackageThere /\ OnlyApprovalMalformed
  OBVIOUS
<1>3. CASE RouterStartsAgain
  <2>1. run' = run /\ service' = [service EXCEPT !.code = runtime]
    BY <1>3 DEF RouterStartsAgain
  <2>2. service' \in ServiceType /\ service'.watchdog = service.watchdog /\ service'.unit = service.unit
        /\ service'.code = runtime
    BY <1>1, <2>1 DEF ServiceType
  <2>3. InstallTyped' /\ RunInOrder'
    BY <1>1, <2>1, <2>2 DEF InstallTyped, RunInOrder, At
  <2>4. PackageFetched' /\ PackageThere' /\ OnlyApprovalMalformed' /\ FreshFetched'
    BY <1>1, <2>1 DEF PackageFetched, PackageThere, OnlyApprovalMalformed, WholeOrNone, FreshFetched, Fresh, At
  <2>5. FreshWritten'
    BY <1>1, <2>1, <2>2 DEF FreshWritten, Fresh, At
  <2> QED
    BY <2>3, <2>4, <2>5
<1>4. CASE Uninstall
  <2>1. At("idle") /\ run' = [run EXCEPT !.ended = IF @ = "ok" THEN "none" ELSE @]
    BY <1>4 DEF Uninstall
  <2>2. /\ run' \in RunType /\ run'.step = "idle" /\ run'.ended # "ok" /\ run'.had = run.had
        /\ run'.since = run.since /\ (run.ended = "crashed" => run'.ended = "crashed")
    BY <1>1, <2>1 DEF RunType, At
  <2>3. PICK unit \in {service.unit \ {"running"}, {}} : service' = [service EXCEPT !.unit = unit]
    BY <1>4 DEF Uninstall
  <2>4. unit \in SUBSET {"registered", "running"}
    BY <1>1 DEF ServiceType
  <2>5. service' \in ServiceType
    BY <1>1, <2>3, <2>4 DEF ServiceType
  <2>6. InstallTyped' /\ RunInOrder'
    BY <1>1, <2>2, <2>5 DEF InstallTyped, RunInOrder, At
  <2>7. PackageFetched' /\ PackageThere' /\ OnlyApprovalMalformed'
    BY <1>1, <2>1, <2>2 DEF PackageFetched, PackageThere, OnlyApprovalMalformed, WholeOrNone, At
  <2>8. ~Fresh'
    BY <2>2 DEF Fresh, At
  <2> QED
    BY <2>6, <2>7, <2>8 DEF FreshFetched, FreshWritten
<1> QED
  BY <1>3, <1>4

LEMMA InstallStep ==
  ASSUME InstallInv, [InstallNext]_installVars
  PROVE  InstallInv'
<1>1. CASE InstallNext
  BY <1>1, StartKeeps, PublishKeeps, RuntimeFileKeeps, ObservatoryKeeps, PackageFileKeeps, SwapKeeps,
     SettingUpKeeps, AutostartKeeps, FailureKeeps, RouterKeeps DEF InstallNext
<1>2. CASE UNCHANGED installVars
  BY <1>2 DEF installVars, InstallInv, InstallTyped, RunInOrder, PackageFetched, PackageThere,
              OnlyApprovalMalformed, WholeOrNone, FreshFetched, FreshWritten, Fresh, At
<1> QED
  BY <1>1, <1>2

(* Whatever is published while an installer runs, wherever it fails or is  *)
(* killed and however often it is run again: the package is whole and is   *)
(* not lost, and a run that ended well has left a complete installation.   *)
THEOREM InstallAlwaysSound == InstallSpec => []InstallIsSound
<1>1. InstallInit => InstallInv
  BY InstallStart
<1>2. InstallInv /\ [InstallNext]_installVars => InstallInv'
  BY InstallStep
<1>3. InstallInv => InstallIsSound
  BY InstallInvImplies
<1> QED
  BY <1>1, <1>2, <1>3, PTL DEF InstallSpec

LEMMA SecretsStep ==
  ASSUME InstallInv, [InstallNext]_installVars, env' # env, NEW k \in SecretNames
  PROVE  env[k] \in {None, Malformed, env'[k]} \/ (k = "approval" /\ run.opts.rotate)
<1>1. UpdateEnv
  BY DEF InstallNext, installVars, StartInstall, Publish, FetchRuntimeFile, FetchIndex, FetchAssets,
         WriteObservatory, FetchManifest, FetchMetadata, FetchPackageFile, SwapPackage, InstallDependencies,
         WriteWatchdog, InstallAutostart, InstallFails, InstallCrashes, RouterStartsAgain, Uninstall
<1>2. k \in DOMAIN env
  BY DEF InstallInv, InstallTyped
<1>3. env'[k] = IF k = "approval" /\ run.opts.rotate THEN run.number ELSE Secret(env[k])
  BY <1>1, <1>2 DEF UpdateEnv
<1> QED
  BY <1>3 DEF Secret

(* No step of an installer takes a secret away, and no step of a launcher  *)
(* changes the approval token in force, but those that are asked to.       *)
THEOREM SecretsAlwaysStay == InstallSpec /\ LocalSpec => SecretsStay
<1>1. InstallInit => InstallInv
  BY InstallStart
<1>2. InstallInv /\ [InstallNext]_installVars => InstallInv'
  BY InstallStep
<1>3. LocalInit => TokenInv
  BY LauncherStart
<1>4. TokenInv /\ [LocalNext]_localVars => TokenInv'
  BY TokenStep
<1>5. InstallInv /\ [InstallNext]_installVars =>
        [env' # env => \A k \in SecretNames : \/ env[k] \in {None, Malformed, env'[k]}
                                             \/ (k = "approval" /\ run.opts.rotate)]_installVars
  BY SecretsStep
<1>6. TokenInv /\ [LocalNext]_localVars =>
        [InForce(tokens') # InForce(tokens) =>
             InForce(tokens) = 0 \/ order.name \in {"rotate", "clear"}]_localVars
  BY TokenKeptStep
<1>7. InstallSpec => SecretsKept
  BY <1>1, <1>2, <1>5, PTL DEF InstallSpec, SecretsKept
<1>8. LocalSpec => TokenKept
  BY <1>3, <1>4, <1>6, PTL DEF LocalSpec, TokenKept
<1> QED
  BY <1>7, <1>8 DEF SecretsStay
================================================================================
