---------------------------- MODULE PendingFrames ----------------------------
(***************************************************************************)
(* The frames of a stream kept until somebody reads them                   *)
(* (pendingRealtimeFrames.ts): a buffer bounded in frames and bytes that   *)
(* gives up its oldest frames, but not the ones that say how the stream    *)
(* ended while there is another.                                           *)
(***************************************************************************)
EXTENDS Naturals, Sequences, SequencesExt

CONSTANTS
    FrameSizes,     \* bytes of a frame
    MaxFrames,
    MaxFrameBytes,
    MaxPushes       \* bound on the frames pushed

VARIABLES
    frames,   \* retained: the frame's number, size, whether it is terminal
    pushes,   \* frames pushed since the last drain, terminal ones among them
    dropped   \* frames given up since then

frameVars == <<frames, pushes, dropped>>

ASSUME FrameConstantsAssumption ==
    /\ FrameSizes \subseteq Nat \ {0} /\ MaxFrames \in Nat \ {0} /\ MaxFrameBytes \in Nat \ {0}
    /\ MaxPushes \in Nat

FrameBytes(fs) ==
    LET upTo[i \in 0..Len(fs)] == IF i = 0 THEN 0 ELSE upTo[i - 1] + fs[i].size
    IN  upTo[Len(fs)]

FramesInit == frames = <<>> /\ pushes = [all |-> 0, terminal |-> 0] /\ dropped = 0

TooMuch(fs) == Len(fs) > MaxFrames \/ FrameBytes(fs) > MaxFrameBytes

(* Mutant: the oldest frame goes, whatever it says. *)
VictimOldest(fs) == IF Len(fs) > 1 THEN 1 ELSE 0

(* the oldest frame that is not terminal, else the oldest of several *)
Victim(fs) ==
    LET plain == {i \in DOMAIN fs : ~fs[i].terminal}
    IN  IF plain # {} THEN CHOOSE i \in plain : \A j \in plain : i <= j
        ELSE IF Len(fs) > 1 THEN 1 ELSE 0

(* one turn of the loop *)
TrimStep(fs) == IF TooMuch(fs) /\ Victim(fs) > 0 THEN RemoveAt(fs, Victim(fs)) ELSE fs

(* trim: at most every frame goes *)
FramesTrimmed(fs) ==
    LET after[turn \in 0..Len(fs)] == IF turn = 0 THEN fs ELSE TrimStep(after[turn - 1])
    IN  after[Len(fs)]

(* push *)
PushFrame(size, terminal) ==
    /\ pushes.all < MaxPushes
    /\ pushes' = [all |-> pushes.all + 1, terminal |-> pushes.terminal + (IF terminal THEN 1 ELSE 0)]
    /\ LET all == Append(frames, [number |-> pushes.all + 1, size |-> size, terminal |-> terminal])
       IN  /\ frames' = FramesTrimmed(all)
           /\ dropped' = dropped + Len(all) - Len(FramesTrimmed(all))

(* drain *)
DrainFrames == pushes.all > 0 /\ frames' = <<>> /\ pushes' = [all |-> 0, terminal |-> 0] /\ dropped' = 0

FramesNext ==
    \/ \E size \in FrameSizes, terminal \in BOOLEAN : PushFrame(size, terminal)
    \/ DrainFrames

FramesSpec == FramesInit /\ [][FramesNext]_frameVars

-----------------------------------------------------------------------------

FramesTypeOK == dropped \in Nat /\ pushes.all \in 0..MaxPushes /\ Len(frames) <= MaxPushes

(* Whoever reads a stream late learns how it ended: of the terminal frames *)
(* one is always there.  The others are in their order, the newest of      *)
(* them, and all frames are accounted for; only a lone terminal frame may  *)
(* be larger than the buffer.                                              *)
EndIsRetained ==
    /\ pushes.terminal > 0 => \E i \in DOMAIN frames : frames[i].terminal
    /\ \A i, j \in DOMAIN frames : i < j => frames[i].number < frames[j].number
    /\ dropped + Len(frames) = pushes.all
    /\ TooMuch(frames) => Len(frames) = 1 /\ frames[1].terminal
=============================================================================
