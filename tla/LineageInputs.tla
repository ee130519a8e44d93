---------------------------- MODULE LineageInputs ----------------------------
(***************************************************************************)
(* SessionLineage over the directories a Gateway may answer: a state is a  *)
(* directory, and the properties compare its lineages with what they       *)
(* should be, without the walk.                                            *)
(***************************************************************************)
EXTENDS SessionLineage, FiniteSets

CONSTANT Directories

VARIABLE directory

SessionRow == [id : Nat \ {0}, parent : Nat, rootHint : Nat, tipHint : Nat,
               source : Nat, profile : Nat, fork : BOOLEAN, ends : BOOLEAN,
               startedAt : Nat, endedAt : Nat, activityAt : Nat, importable : BOOLEAN]

(* A session that a directory shows twice is the same session. *)
IsDirectory(rows) ==
    /\ rows \in Seq(SessionRow)
    /\ \A i, j \in DOMAIN rows : rows[i].id = rows[j].id => rows[i] = rows[j]

ASSUME DirectoriesAssumption == \A rows \in Directories : IsDirectory(rows)

-----------------------------------------------------------------------------

Listed(rows) == {rows[i].id : i \in DOMAIN rows}

RowIn(rows, x) == rows[CHOOSE i \in DOMAIN rows : rows[i].id = x]

(* what Hermes does at a compression: the session ends, and the next one   *)
(* has it as its parent, is of its source and profile, and starts later    *)
Follows(rows, y) ==
    LET r == RowIn(rows, y)
        p == RowIn(rows, r.parent)
    IN  /\ r.parent \in Listed(rows) /\ ~r.fork /\ p.ends
        /\ 0 \in {p.source, r.source} \/ p.source = r.source
        /\ 0 \in {p.profile, r.profile} \/ p.profile = r.profile
        /\ ~(0 < r.startedAt /\ r.startedAt < p.endedAt)

(* A set of sessions that is closed has what follows its sessions; the     *)
(* sessions that came of x are the least such set with x.                  *)
Closed(rows, S) ==
    \A y \in Listed(rows) : Follows(rows, y) /\ RowIn(rows, y).parent \in S => y \in S

Descendants(rows, x) ==
    {y \in Listed(rows) : \A S \in SUBSET Listed(rows) : x \in S /\ Closed(rows, S) => y \in S}

Plain(rows) == \A i \in DOMAIN rows : rows[i].rootHint = 0

(* Every session is in the lineage of the session its chain begins with,   *)
(* and in no other: a fork and a session whose parent goes on begin        *)
(* lineages of their own.                                                  *)
LineagesPartition ==
    Plain(directory) =>
        LET found == Lineages(directory)
        IN  /\ DOMAIN found = {x \in Listed(directory) : ~Follows(directory, x)}
            /\ \A x \in DOMAIN found : ToSet(found[x].all) = Descendants(directory, x)
            /\ \A x, y \in DOMAIN found : x # y => ToSet(found[x].all) \cap ToSet(found[y].all) = {}

(* The tip is the session a conversation is read from and written to: the  *)
(* one with the last activity among those that can be continued, at the    *)
(* end of a chain of continuations from the root.                          *)
TipIsNewest ==
    Plain(directory) =>
        LET found == Lineages(directory)
        IN  \A x \in DOMAIN found :
                LET tip  == RowIn(directory, found[x].tip)
                    path == found[x].path
                IN  /\ found[x].tip \in ToSet(found[x].all)
                    /\ \A y \in ToSet(found[x].all) :
                          LET r == RowIn(directory, y)
                          IN  /\ r.importable => tip.importable
                              /\ r.importable = tip.importable => r.activityAt <= tip.activityAt
                    /\ path[1] = x /\ Last(path) = found[x].tip
                    /\ \A i \in 2..Len(path) : RowIn(directory, path[i]).parent = path[i - 1]

(* a hint names a session that has no other root itself *)
HintsNameRoots(rows) ==
    \A i, j \in DOMAIN rows : rows[i].rootHint = rows[j].id => rows[j].rootHint \in {0, rows[j].id}

(* A row that Hermes says belongs to an earlier root is shown with it and  *)
(* not a second time by itself.                                            *)
HintedRowsJoin ==
    HintsNameRoots(directory) =>
        LET found == Lineages(directory)
        IN  \A i \in DOMAIN directory :
                LET r == directory[i]
                IN  r.rootHint # 0 =>
                       /\ r.rootHint \in DOMAIN found /\ r.id \in ToSet(found[r.rootHint].all)
                       /\ r.rootHint # r.id => r.id \notin DOMAIN found

(* A directory is divided into lineages that no session is missing from or *)
(* in twice, and each is continued at its newest session.                  *)
LineagesSound == LineagesPartition /\ TipIsNewest /\ HintedRowsJoin
=============================================================================
