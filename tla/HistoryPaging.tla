---------------------------- MODULE HistoryPaging ----------------------------
(***************************************************************************)
(* Reading a transcript page by page, from the newest message back, while  *)
(* it changes: the page of a list of messages (sessionMessagePage.ts), the *)
(* cursor a page hands out (sessionHistoryCursor.ts), and the handler of   *)
(* GET messages that ties the pages of one walk to one revision.           *)
(*                                                                         *)
(* A transcript is a sequence of messages, a message the number of bytes   *)
(* it takes; revision r is the r-th transcript there was.                  *)
(***************************************************************************)
EXTENDS Naturals, Sequences, SequencesExt, FiniteSets

CONSTANTS
    Sizes,        \* bytes a message may take
    PageBytes,    \* bytes of a page
    PageLimit,    \* messages of a page
    MaxHistory,   \* bound on the messages of a transcript
    MaxRevision   \* bound on the changes of the transcript

VARIABLES
    transcripts,  \* all transcripts there were, the current one last
    reader        \* the client: what it has, its cursor, its revision

pagingVars == <<transcripts, reader>>

ASSUME PagingConstantsAssumption ==
    /\ Sizes \subseteq Nat \ {0} /\ Sizes # {}
    /\ PageLimit \in Nat \ {0} /\ PageBytes \in Nat
    /\ MaxHistory \in Nat /\ MaxRevision \in Nat \ {0}

Total(rows) == FoldLeft(LAMBDA n, x : n + x, 0, rows)

(* Mutant: a row that is too large by itself is not sent. *)
FitsAlways(rows, start, end) ==
    end - start <= PageLimit /\ Total(SubSeq(rows, start + 1, end)) <= PageBytes

(* The rows of the page that ends at `end': as many as fit, and one row    *)
(* that does not fit by itself.                                            *)
Fits(rows, start, end) ==
    /\ end - start <= PageLimit
    /\ end - start <= 1 \/ Total(SubSeq(rows, start + 1, end)) <= PageBytes

PageStart(rows, end) ==
    CHOOSE s \in 0..end : Fits(rows, s, end) /\ \A t \in 0..end : Fits(rows, t, end) => s <= t

(* projectSessionMessagePage *)
PageAt(rows, offset) ==
    LET skipped == IF offset > Len(rows) THEN Len(rows) ELSE offset
        end     == Len(rows) - skipped
        start   == PageStart(rows, end)
        loaded  == skipped + end - start
    IN  [items |-> SubSeq(rows, start + 1, end), more |-> start > 0, loaded |-> loaded,
         next |-> IF start > 0 THEN loaded ELSE 0]

(* encodeSessionHistoryCursor and its inverse: a bare number or a number   *)
(* with a revision; 0 stands for no revision                               *)
Cursor(offset, revision) == [offset |-> offset, revision |-> revision]

Revision == Len(transcripts)
NoCursor == Cursor(0, 0)

PagingInit ==
    /\ \E n \in 0..MaxHistory : \E rows \in [1..n -> Sizes] : transcripts = <<rows>>
    /\ reader = [got |-> <<>>, cursor |-> NoCursor, revision |-> 0, state |-> "new", kept |-> <<>>]

(* Hermes appends a message, or drops the newest one (undo). *)
TranscriptChanges ==
    /\ Revision < MaxRevision
    /\ \E x \in Sizes \cup {0} :
          LET now == Last(transcripts)
          IN  /\ x = 0 => now # <<>>
              /\ x # 0 => Len(now) < MaxHistory
              /\ transcripts' = Append(transcripts, IF x = 0 THEN Front(now) ELSE Append(now, x))
    /\ UNCHANGED reader

(* Mutant: the revision of the page is not compared. *)
SameSnapshotUnchecked(cursor, r) == TRUE

(* a page of another revision than the cursor's is refused with 409 *)
SameSnapshot(cursor, r) == cursor.revision = 0 \/ cursor.revision = r

(* Mutant: a known revision is enough, whatever it is. *)
NotModifiedKnown(offset, known, r) == offset = 0 /\ known # 0

NotModified(offset, known, r) == offset = 0 /\ known # 0 /\ known = r

(* The next page of the walk.  The Gateway answers from the transcript of  *)
(* the cursor's revision, if it still has it, or from the current one.     *)
NextPage ==
    /\ reader.state \in {"new", "walking"}
    /\ \E r \in {Revision, reader.cursor.revision} \ {0} :
          LET page == PageAt(transcripts[r], reader.cursor.offset)
              cached == NotModified(reader.cursor.offset, reader.revision, r)
          IN  reader' =
                IF ~SameSnapshot(reader.cursor, r)
                THEN [reader EXCEPT !.state = "new", !.cursor = NoCursor, !.got = <<>>, !.revision = 0]
                ELSE IF cached
                THEN [reader EXCEPT !.state = "done", !.got = reader.kept, !.revision = r]
                ELSE [reader EXCEPT !.got = page.items \o reader.got,
                                    !.cursor = IF page.more THEN Cursor(page.next, r) ELSE NoCursor,
                                    !.revision = r,
                                    !.state = IF page.more THEN "walking" ELSE "done"]
    /\ UNCHANGED transcripts

(* The client keeps what it has read, and asks again later with its        *)
(* revision.                                                               *)
ReadAgain ==
    /\ reader.state = "done"
    /\ reader' = [reader EXCEPT !.state = "new", !.kept = reader.got, !.got = <<>>]
    /\ UNCHANGED transcripts

(* A walk that was broken off: the pages of it are forgotten, and with     *)
(* them the revision.                                                      *)
GiveUp ==
    /\ reader.state = "walking"
    /\ reader' = [got |-> <<>>, cursor |-> NoCursor, revision |-> 0, state |-> "new", kept |-> <<>>]
    /\ UNCHANGED transcripts

PagingNext == TranscriptChanges \/ NextPage \/ ReadAgain \/ GiveUp

PagingSpec == PagingInit /\ [][PagingNext]_pagingVars

-----------------------------------------------------------------------------

PagingTypeOK ==
    /\ Revision \in 1..MaxRevision
    /\ reader.state \in {"new", "walking", "done"}
    /\ reader.revision \in 0..MaxRevision /\ reader.cursor.revision \in 0..MaxRevision

(* A client that has come to the first message has a transcript there was, *)
(* without a gap and without a message twice, although messages were added *)
(* and removed between its pages, and also if it was told that nothing     *)
(* had changed.                                                            *)
WalkIsOneTranscript ==
    reader.state = "done" => reader.got = transcripts[reader.revision]

(* A page is never empty while there is more, so that a walk ends: a       *)
(* message larger than a page comes alone.                                 *)
PagesAdvance ==
    \A offset \in 0..MaxHistory :
        LET rows == Last(transcripts)
            page == PageAt(rows, offset)
        IN  /\ page.more => page.next > offset
            /\ ~page.more => page.loaded = Len(rows)
            /\ Len(page.items) <= PageLimit
=============================================================================
