------------------------------ MODULE MCSessions ------------------------------
(***************************************************************************)
(* The modules about sessions in one model: `part' says which of them      *)
(* moves, the others stay as they are.                                     *)
(***************************************************************************)
EXTENDS ConversationLanes, PromptResponses, SessionDirectory, HistoryPaging,
        TranscriptSync, SessionReconcile, LineageInputs

CONSTANTS s1, a1, a2, x1, x2, l1, l2, q1, q2, c1, w1, w2, y1, y2

VARIABLE part

MCLegacyFiles == {<<>>, <<1, 2>>}

RowIds == 1..3   \* bound on the sessions of a directory

(* a session that is open, was ended, began as a fork, elsewhere or before *)
(* its parent ended; of low or high activity, or of high activity and not  *)
(* to be continued                                                         *)
RowsLike(x, kinds) ==
    {[Row(x, p) EXCEPT !.ends = (k = "ended"), !.fork = (k = "fork"),
                       !.source = IF k = "elsewhere" THEN 2 ELSE 1,
                       !.startedAt = IF k = "early" THEN 1 ELSE 0,
                       !.endedAt = IF k = "ended" THEN 2 ELSE 0,
                       !.activityAt = q[1], !.importable = q[2]] :
        p \in (RowIds \cup {0}) \ {x}, k \in kinds,
        q \in {<<1, TRUE>>, <<2, TRUE>>, <<2, FALSE>>}}

PlainRows(x) == RowsLike(x, {"open", "ended", "fork"})
AnyRows(x) == RowsLike(x, {"open", "ended", "fork", "elsewhere", "early"})

(* a session whose chain Hermes has left out *)
HintedRows(x) ==
    {[Row(x, 0) EXCEPT !.rootHint = h, !.tipHint = t] : h \in RowIds \cup {0}, t \in {0, x}}

(* a directory of up to three sessions, one of them perhaps shown twice *)
MCDirectories ==
    {<<>>} \cup {<<c>> : c \in AnyRows(1)}
    \cup {<<d, c>> : c \in AnyRows(1), d \in AnyRows(2)}
    \cup {<<c, d, c>> : c \in PlainRows(1) \cup HintedRows(1), d \in PlainRows(2) \cup HintedRows(2)}
    \cup {<<e, d, c>> : c \in PlainRows(1), d \in PlainRows(2), e \in PlainRows(3)}
    \cup {<<e, d, c>> : c \in HintedRows(1), d \in HintedRows(2), e \in HintedRows(3)}

Parts == {"lanes", "prompts", "directory", "paging", "sync", "reconcile", "lineage"}

(* The parts with several initial states have one of them while another    *)
(* part moves.                                                             *)
SessionsInit ==
    /\ part \in Parts
    /\ LanesInit /\ (part # "lanes" => conv = <<>>)
    /\ PromptInit
    /\ DirectoryInit
    /\ PagingInit /\ (part # "paging" => transcripts = <<<<>>>>)
    /\ SyncInit
    /\ PoolInit /\ (part # "reconcile" => hermesHas = [i \in 1..Items |-> "same"])
    /\ directory \in (IF part = "lineage" THEN Directories ELSE {<<Row(1, 0)>>})

LanesMove == part = "lanes" /\ LanesNext
PromptsMove == part = "prompts" /\ PromptNext
DirectoryMoves == part = "directory" /\ DirectoryNext
PagingMoves == part = "paging" /\ PagingNext
SyncMoves == part = "sync" /\ SyncNext
PoolMoves == part = "reconcile" /\ PoolSteps

SessionsNext ==
    /\ UNCHANGED <<part, directory>>
    /\ \/ LanesMove /\ UNCHANGED <<promptVars, directoryVars, pagingVars, syncVars, poolVars>>
       \/ PromptsMove /\ UNCHANGED <<laneVars, directoryVars, pagingVars, syncVars, poolVars>>
       \/ DirectoryMoves /\ UNCHANGED <<laneVars, promptVars, pagingVars, syncVars, poolVars>>
       \/ PagingMoves /\ UNCHANGED <<laneVars, promptVars, directoryVars, syncVars, poolVars>>
       \/ SyncMoves /\ UNCHANGED <<laneVars, promptVars, directoryVars, pagingVars, poolVars>>
       \/ PoolMoves /\ UNCHANGED <<laneVars, promptVars, directoryVars, pagingVars, syncVars>>

sessionsVars == <<part, directory, laneVars, promptVars, directoryVars, pagingVars, syncVars, poolVars>>

(* The fairness of the parts: time passes, calls end, promises go on.      *)
SessionsSpec ==
    /\ SessionsInit /\ [][SessionsNext]_sessionsVars
    /\ \A a \in Answers : WF_promptVars(AnswerProgress(a))
    /\ WF_directoryVars(TtlPasses)
    /\ \A k \in 0..MaxCommits : WF_syncVars(SyncFails(k))
    /\ WF_poolVars(PoolMoves)

(* The answers to prompts are settled as the Gateway settled them, and the *)
(* prompts that wait can be answered.                                      *)
PromptsAreSound == PromptTypeOK /\ PromptsStayAnswerable

(* The conversations and their lanes name one session for each, whatever   *)
(* the order of directory responses, events and answers.                   *)
LanesAreSound == LanesTypeOK /\ ConversationsAgree

(* The lists that are kept follow the changes the Router hears of.         *)
DirectoryIsSound == DirectoryTypeOK /\ DirectoryFollowsChanges

(* What a client has read is the transcript there was, the answer to its   *)
(* own question, and of its own conversation, whatever changed and came    *)
(* back in the meantime.                                                   *)
ReadsAreWhole ==
    /\ PagingTypeOK /\ SyncTypeOK /\ PoolTypeOK
    /\ WalkIsOneTranscript /\ PagesAdvance
    /\ SyncAnswersBase /\ JoinedIsUnderWay /\ EveryItemCompared

(* Every answer to a prompt, every sync and every reconciliation is        *)
(* answered, each is made once; and a list is out of date for a time only. *)
SessionsProgress ==
    /\ <>[](/\ \A a \in Answers : answers[a] \notin InPassage
            /\ \A s \in Syncs : syncs[s].state # "waits"
            /\ part = "reconcile" => reply # 0)
    /\ StaleRowsEnd
===============================================================================
