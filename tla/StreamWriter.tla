----------------------------- MODULE StreamWriter -----------------------------
(***************************************************************************)
(* The writer of one event stream (boundedSseWriter.ts).  Once the         *)
(* response signals backpressure, values wait in a bounded queue for its   *)
(* `drain'; a deadline ends a stream that does not drain.  Writes, drain,  *)
(* the deadline, an error or the close of the response and dispose come in *)
(* any order.  A value is the number of bytes it takes.                    *)
(***************************************************************************)
EXTENDS Naturals, Sequences, SequencesExt

CONSTANTS
    ValueSizes,       \* bytes of a value
    MaxQueuedItems,   \* options of the writer
    MaxQueuedBytes,
    Flushes,          \* calls of flush
    MaxValues         \* bound on the values written

VARIABLES
    queue,      \* values accepted and not written
    queuedBytes, \* their bytes, as the writer counts them
    onWire,     \* values given to the response
    accepted,   \* values `write' returned true for
    writer,     \* blocked, closed, failed, armed: the drain listener and its timer
    response,   \* "open", or "ended" when it is closed or destroyed
    flushes     \* flush -> state, the values accepted before it

writerVars == <<queue, queuedBytes, onWire, accepted, writer, response, flushes>>

ASSUME WriterConstantsAssumption ==
    /\ ValueSizes \subseteq Nat \ {0} /\ MaxQueuedItems \in Nat \ {0}
    /\ MaxQueuedBytes \in Nat \ {0} /\ MaxValues \in Nat

WriterBytes(values) ==
    LET upTo[n \in 0..Len(values)] == IF n = 0 THEN 0 ELSE upTo[n - 1] + values[n]
    IN  upTo[Len(values)]

WriterInit ==
    /\ queue = <<>> /\ queuedBytes = 0 /\ onWire = <<>> /\ accepted = <<>>
    /\ writer = [blocked |-> FALSE, closed |-> FALSE, failed |-> FALSE, armed |-> FALSE]
    /\ response = "open"
    /\ flushes = [f \in Flushes |-> [state |-> "idle", after |-> 0]]

Waiting == {f \in Flushes : flushes[f].state = "waits"}

SettleFlushes(outcome) ==
    flushes' = [f \in Flushes |-> IF f \in Waiting THEN [flushes[f] EXCEPT !.state = outcome]
                                  ELSE flushes[f]]

(* fail, which does nothing after a failure or a close *)
Fail ==
    IF writer.failed \/ writer.closed
    THEN UNCHANGED <<queue, queuedBytes, writer, flushes>>
    ELSE /\ writer' = [writer EXCEPT !.failed = TRUE, !.blocked = FALSE, !.armed = FALSE]
         /\ queue' = <<>> /\ queuedBytes' = 0
         /\ SettleFlushes("rejected")

Refuses == writer.closed \/ writer.failed \/ response = "ended"

(* writeNow: the response takes the value, and may signal backpressure, or *)
(* throws                                                                  *)
WriteNow(x) ==
    \/ /\ onWire' = Append(onWire, x) /\ accepted' = Append(accepted, x)
       /\ \E full \in BOOLEAN :
             writer' = IF full THEN [writer EXCEPT !.blocked = TRUE, !.armed = TRUE] ELSE writer
       /\ UNCHANGED <<queue, queuedBytes, flushes>>
    \/ Fail /\ UNCHANGED <<onWire, accepted>>

(* Mutant: the bytes of the new value are not counted. *)
NoRoomBefore(x) == Len(queue) >= MaxQueuedItems \/ queuedBytes > MaxQueuedBytes

NoRoom(x) == Len(queue) >= MaxQueuedItems \/ queuedBytes + x > MaxQueuedBytes

(* write *)
Write(x) ==
    /\ Len(accepted) < MaxValues
    /\ ~Refuses
    /\ IF x > MaxQueuedBytes THEN Fail /\ UNCHANGED <<onWire, accepted>>
       ELSE IF ~writer.blocked /\ queue = <<>> THEN WriteNow(x)
       ELSE IF NoRoom(x) THEN Fail /\ UNCHANGED <<onWire, accepted>>
       ELSE /\ queue' = Append(queue, x) /\ queuedBytes' = queuedBytes + x
            /\ accepted' = Append(accepted, x)
            /\ UNCHANGED <<onWire, writer, flushes>>
    /\ UNCHANGED response

(* flush *)
Flush(f) ==
    /\ flushes[f].state = "idle"
    /\ flushes' = [flushes EXCEPT ![f] =
          [state |-> IF Refuses THEN "rejected"
                     ELSE IF ~writer.blocked /\ queue = <<>> THEN "resolved" ELSE "waits",
           after |-> Len(accepted)]]
    /\ UNCHANGED <<queue, queuedBytes, onWire, accepted, writer, response>>

(* Mutant: the response is blocked again and nothing waits for its drain.  *)
StillBlockedUnwatched == [writer EXCEPT !.blocked = TRUE, !.armed = FALSE]

StillBlocked == [writer EXCEPT !.blocked = TRUE, !.armed = TRUE]

(* handleDrain: the first n values of the queue are written; the last of   *)
(* them may block the response again, or the next one throws.              *)
Drain ==
    /\ writer.armed /\ response = "open"
    /\ \E n \in 0..Len(queue) :
          /\ onWire' = onWire \o SubSeq(queue, 1, n)
          /\ \/ /\ n > 0
                /\ queue' = SubSeq(queue, n + 1, Len(queue))
                /\ queuedBytes' = queuedBytes - WriterBytes(SubSeq(queue, 1, n))
                /\ writer' = StillBlocked
                /\ UNCHANGED flushes
             \/ /\ n = Len(queue)
                /\ queue' = <<>>
                /\ queuedBytes' = queuedBytes - WriterBytes(queue)
                /\ writer' = [writer EXCEPT !.blocked = FALSE, !.armed = FALSE]
                /\ SettleFlushes("resolved")
             \/ n < Len(queue) /\ Fail
    /\ UNCHANGED <<accepted, response>>

DrainDeadline ==
    /\ writer.armed
    /\ Fail
    /\ UNCHANGED <<onWire, accepted, response>>

ResponseError ==
    /\ response = "open" /\ ~writer.closed
    /\ Fail
    /\ UNCHANGED <<onWire, accepted, response>>

(* handleClose and dispose; dispose leaves the response to the caller *)
EndWriter ==
    IF writer.closed THEN UNCHANGED <<queue, queuedBytes, writer, flushes>>
    ELSE /\ writer' = [writer EXCEPT !.closed = TRUE, !.armed = FALSE]
         /\ queue' = <<>> /\ queuedBytes' = 0
         /\ SettleFlushes("rejected")

(* the response is destroyed by somebody, and says so later *)
ResponseDestroyed ==
    /\ response = "open"
    /\ response' = "ended"
    /\ UNCHANGED <<queue, queuedBytes, onWire, accepted, writer, flushes>>

ResponseCloses ==
    /\ ~writer.closed
    /\ response' = "ended"
    /\ EndWriter
    /\ UNCHANGED <<onWire, accepted>>

Dispose ==
    /\ ~writer.closed
    /\ EndWriter
    /\ UNCHANGED <<onWire, accepted, response>>

WriterNext ==
    \/ \E x \in ValueSizes : Write(x)
    \/ \E f \in Flushes : Flush(f)
    \/ Drain \/ DrainDeadline
    \/ ResponseError \/ ResponseDestroyed \/ ResponseCloses \/ Dispose

(* The timer of the deadline fires. *)
WriterSpec == WriterInit /\ [][WriterNext]_writerVars /\ WF_writerVars(DrainDeadline)

-----------------------------------------------------------------------------

WriterTypeOK ==
    /\ queue \in Seq(ValueSizes) /\ onWire \in Seq(ValueSizes) /\ accepted \in Seq(ValueSizes)
    /\ writer \in [blocked : BOOLEAN, closed : BOOLEAN, failed : BOOLEAN, armed : BOOLEAN]
    /\ flushes \in [Flushes -> [state : {"idle", "waits", "resolved", "rejected"}, after : Nat]]

(* The client gets the values in their order and without a gap: what was   *)
(* given to the response and what still waits are what was accepted, and a *)
(* failure cuts off an end only.                                           *)
StreamHasNoGap ==
    /\ IsPrefix(onWire, accepted)
    /\ ~writer.failed /\ ~writer.closed => onWire \o queue = accepted

(* A stalled client costs a bounded amount of memory: the counter the      *)
(* limit is compared with is the number of bytes that wait.                *)
QueueBounded ==
    /\ Len(queue) <= MaxQueuedItems
    /\ queuedBytes = WriterBytes(queue) /\ WriterBytes(queue) <= MaxQueuedBytes

(* A flush that succeeds says that all that was accepted before it has     *)
(* been given to the response.                                             *)
FlushedIsWritten ==
    \A f \in Flushes : flushes[f].state = "resolved" => flushes[f].after <= Len(onWire)

(* The stream of a slow client is in order, bounded and honest about what  *)
(* was flushed.                                                            *)
StreamIsSound == StreamHasNoGap /\ QueueBounded /\ FlushedIsWritten
=============================================================================
