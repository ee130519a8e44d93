--------------------------- MODULE SessionLineage ---------------------------
(***************************************************************************)
(* How the Router groups the rows of a Hermes session directory into       *)
(* conversations (sessionLineage.ts).  A row is a session of Hermes: a     *)
(* compression or a cli_close ends it, and a later row whose parent it is  *)
(* continues it.  A row may also say which session its chain begins and    *)
(* ends with, where Hermes has left out the rows between.                  *)
(*                                                                         *)
(* Texts are reduced to what is compared: 0 is an absent id, time, source  *)
(* or profile.                                                             *)
(***************************************************************************)
EXTENDS Naturals, Sequences, SequencesExt

(* [id, parent, rootHint, tipHint, source, profile, fork, ends, startedAt, *)
(*  endedAt, activityAt, importable]; `ends' is the end by compression or  *)
(*  cli_close.                                                             *)
Row(x, p) == [id |-> x, parent |-> p, rootHint |-> 0, tipHint |-> 0,
              source |-> 1, profile |-> 1, fork |-> FALSE, ends |-> FALSE,
              startedAt |-> 0, endedAt |-> 0, activityAt |-> 1, importable |-> TRUE]

Agree(a, b) == a = 0 \/ b = 0 \/ a = b

(* Mutant: the end of the parent is not looked at. *)
IsContinuationOfOpen(parent, child) ==
    child.parent = parent.id /\ ~child.fork /\ Agree(parent.source, child.source)

IsContinuation(parent, child) ==
    /\ child.parent = parent.id
    /\ ~child.fork
    /\ Agree(parent.source, child.source)
    /\ Agree(parent.profile, child.profile)
    /\ parent.ends
    /\ parent.endedAt = 0 \/ child.startedAt = 0 \/ child.startedAt >= parent.endedAt

(* rowsById: of two rows of one session the later one counts *)
RowsById(rows) ==
    [x \in {rows[i].id : i \in DOMAIN rows} |->
        rows[CHOOSE i \in DOMAIN rows :
                rows[i].id = x /\ \A j \in DOMAIN rows : rows[j].id = x => j <= i]]

Continues(rows, child) ==
    LET byId == RowsById(rows)
    IN  child.parent \in DOMAIN byId /\ IsContinuation(byId[child.parent], child)

(* the rows at the positions in I, in their order *)
RowsAt(rows, I) ==
    LET kept[i \in 0..Len(rows)] ==
            IF i = 0 THEN <<>>
            ELSE IF i \in I THEN Append(kept[i - 1], rows[i]) ELSE kept[i - 1]
    IN  kept[Len(rows)]

(* continuationChildren, in the order of the rows *)
ContinuationChildren(rows, x) ==
    RowsAt(rows, {i \in DOMAIN rows : rows[i].parent = x /\ Continues(rows, rows[i])})

AppendNew(s, x) == IF x \in ToSet(s) THEN s ELSE Append(s, x)

Unique(s) ==
    LET upTo[i \in 0..Len(s)] == IF i = 0 THEN <<>> ELSE AppendNew(upTo[i - 1], s[i])
    IN  upTo[Len(s)]

(* Mutant: the longest path wins before the last activity. *)
BetterTipByLength(candidate, current) ==
    IF candidate.row.importable # current.row.importable
    THEN candidate.row.importable
    ELSE Len(candidate.path) > Len(current.path)

BetterTip(candidate, current) ==
    IF candidate.row.importable # current.row.importable
    THEN candidate.row.importable
    ELSE IF candidate.row.activityAt # current.row.activityAt
    THEN candidate.row.activityAt > current.row.activityAt
    ELSE Len(candidate.path) > Len(current.path)

-----------------------------------------------------------------------------
(* The walk from a root: one round of the `while' loop.  A session that    *)
(* was seen is skipped.                                                    *)

Visit(rows, walk) ==
    LET current  == Last(walk.stack)
        rest     == Front(walk.stack)
        x        == current.row.id
        children == ContinuationChildren(rows, x)
        Child(i) == [row |-> children[i], path |-> Append(current.path, children[i].id)]
    IN  IF x \in ToSet(walk.all)
        THEN [walk EXCEPT !.stack = rest]
        ELSE [stack |-> rest \o [i \in DOMAIN children |-> Child(i)],
              all   |-> Append(walk.all, x),
              best  |-> IF BetterTip(current, walk.best) THEN current ELSE walk.best]

Round(rows, walk) == IF walk.stack = <<>> THEN walk ELSE Visit(rows, walk)

(* Every row is pushed at most once, when the session it continues is      *)
(* first seen: after that many rounds the stack is empty.                  *)
Walk(rows, root) ==
    LET start == [row |-> root, path |-> <<root.id>>]
        after[n \in 0..(1 + Len(rows))] ==
            IF n = 0 THEN [stack |-> <<start>>, all |-> <<>>, best |-> start]
            ELSE Round(rows, after[n - 1])
    IN  after[1 + Len(rows)]

Lineage(root, tip, path, all) == [root |-> root, tip |-> tip, path |-> path, all |-> all]

WalkedLineage(rows, root) ==
    LET w == Walk(rows, root)
    IN  Lineage(root.id, w.best.row.id, w.best.path, w.all)

(* Mutant: a row that its chain's root stands for keeps its own lineage. *)
WithoutSingletonKept(lineages, row) == lineages

(* The synthetic lineage of a projected row is removed once it is part of  *)
(* the one its hint names.                                                 *)
WithoutSingleton(lineages, row) ==
    IF row.rootHint = row.id
    THEN lineages
    ELSE [x \in DOMAIN lineages \ {row.id} |-> lineages[x]]

(* A row with a hint: the lineage of its root takes it in. *)
TakeHint(lineages, row) ==
    LET at(x)  == IF x \in DOMAIN lineages THEN lineages[x] ELSE Lineage(x, x, <<>>, <<>>)
        old    == at(row.rootHint)
        own    == IF row.rootHint = row.id THEN Lineage(row.id, row.id, <<>>, <<>>) ELSE at(row.id)
        tip    == IF row.tipHint # 0 THEN row.tipHint ELSE row.id
        hinted == Lineage(row.rootHint, tip,
                          Unique(<<row.rootHint>> \o old.path \o own.path \o <<tip>>),
                          Unique(old.all \o own.all \o <<row.rootHint, row.id, tip>>))
    IN  WithoutSingleton([x \in DOMAIN lineages \cup {row.rootHint} |->
                              IF x = row.rootHint THEN hinted ELSE lineages[x]],
                         row)

(* one lineage for each row that continues no other *)
WalkedLineages(rows) ==
    LET byId  == RowsById(rows)
        roots == {x \in DOMAIN byId : \A i \in DOMAIN rows : rows[i].id = x => ~Continues(rows, rows[i])}
    IN  [x \in roots |-> WalkedLineage(rows, byId[x])]

WithHints(lineages, hinted) ==
    LET joined[i \in 0..Len(hinted)] ==
            IF i = 0 THEN lineages ELSE TakeHint(joined[i - 1], hinted[i])
    IN  joined[Len(hinted)]

(* nativeSessionLineagesFromPayload: a function from roots to lineages *)
Lineages(rows) ==
    WithHints(WalkedLineages(rows), RowsAt(rows, {i \in DOMAIN rows : rows[i].rootHint # 0}))
=============================================================================
