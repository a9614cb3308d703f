------------------------------- MODULE Resume -------------------------------
(***************************************************************************)
(* One user's resume (internal/resume).  Of its projects each has          *)
(* contributions, which refer to cases, and difficulties, every kind in a  *)
(* table of its own that only the code relates to the others.  The user    *)
(* edits them from several windows, among them forms opened before a row   *)
(* was deleted, and reads them in several queries.  Its work experiences   *)
(* are rows of one table; their list tells of the first two next to each   *)
(* other that overlap, or lie more than half a year apart.                 *)
(*                                                                         *)
(* Left out: what the rows say, levels and highlights; the results of      *)
(* examinations, which are looked up by the id of the case as titles are.  *)
(* Times are small numbers.                                                *)
(***************************************************************************)
EXTENDS Integers, Sequences, FiniteSets, SequencesExt, TLC

CONSTANTS
    Procs,      \* windows of the user
    Cases,      \* cases a contribution may refer to
    Published,  \* those of them that are published
    MaxCalls,   \* bound: calls
    MaxRows,    \* bound: ids given out in each table
    Ids,        \* ids of experiences
    Times,      \* their starts and ends
    HalfAYear   \* how far apart two may lie

VARIABLES
    projects,       \* ids in table resume_projects
    contributions,  \* table contributions: id -> project
    refCases,       \* table ref_cases: contribution and case, a unique index
    difficulties,   \* table difficulties: id -> project
    ids,            \* ids given out in the first, second and last of them
    call, calls,
    late,           \* history: rows saved for a project that was going or gone
    kept,           \* history: rows that were there since a reader began
    experiences     \* table experiences: id -> start and end

projectVars == <<projects, contributions, refCases, difficulties, ids, call, calls, late, kept>>
resumeVars == <<projectVars, experiences>>
tables == <<projects, contributions, refCases, difficulties, ids>>

Idle == [op |-> "idle"]
NoRows == [project |-> {}, contribution |-> {}, difficulty |-> {}, case |-> {}]

\* The row of a contribution or a difficulty: a case refers to the first, and
\* the second names its case itself.
PartOf(pid) == pid
RefCase(cid, x) == <<cid, x>>

\* One project, with a contribution that refers to every case.
Init ==
    /\ projects = {1}
    /\ contributions = (1 :> PartOf(1))
    /\ refCases = {RefCase(1, x) : x \in Cases}
    /\ difficulties = <<>>
    /\ ids = [project |-> 1, contribution |-> 1, difficulty |-> 0]
    /\ call = [p \in Procs |-> Idle]
    /\ calls = 0
    /\ late = {}
    /\ kept = [p \in Procs |-> NoRows]
    /\ experiences = <<>>

Begin(p) == call[p] = Idle /\ calls < MaxCalls /\ calls' = calls + 1
Goto(p, c) == call' = [call EXCEPT ![p] = c]
Return(p) == Goto(p, Idle)

Without(table, gone) == [i \in DOMAIN table \ gone |-> table[i]]

\* The rows of a table for some projects.
Of(table, pids) == {i \in DOMAIN table : table[i] \in pids}

\* Projects a transaction has deleted that is not committed: it holds the row.
Deleting == {call[q].id : q \in {x \in Procs : call[x].op = "delete"}}

\* The id of a form: a new row, or one that is, or was, there.
FormIds(table) == 1 .. IF ids[table] < MaxRows THEN ids[table] + 1 ELSE MaxRows
Upserted(table, id) == ids' = [ids EXCEPT ![table] = IF id > @ THEN id ELSE @]

Late(pid, row) == late' = IF pid \in projects \ Deleting THEN late ELSE late \cup {row}

-----------------------------------------------------------------------------
(* Writing. *)

SaveProject(p) ==
    /\ Begin(p)
    /\ \E id \in FormIds("project") \ Deleting :
         /\ projects' = projects \cup {id}
         /\ Upserted("project", id)
    /\ UNCHANGED <<contributions, refCases, difficulties, call, late>>

\* The cases of the form replace those that were there.
saveContributionCases(id, cs) ==
    {r \in refCases : r[1] # id} \cup {RefCase(id, x) : x \in cs}

\* A row that is there keeps its project.
upsert(table, id, pid) == IF id \in DOMAIN table THEN table ELSE (id :> PartOf(pid)) @@ table

SaveContribution(p) ==
    /\ Begin(p)
    /\ \E pid \in 1 .. ids.project, id \in FormIds("contribution"), cs \in SUBSET Cases :
         /\ contributions' = upsert(contributions, id, pid)
         /\ refCases' = saveContributionCases(id, cs)
         /\ Upserted("contribution", id)
         /\ Late(pid, <<"contribution", id>>)
    /\ UNCHANGED <<projects, difficulties, call>>

DeleteContribution(p) ==
    /\ Begin(p)
    /\ \E id \in DOMAIN contributions :
         /\ contributions' = Without(contributions, {id})
         /\ refCases' = {r \in refCases : r[1] # id}
    /\ UNCHANGED <<projects, difficulties, ids, call, late>>

SaveDifficulty(p) ==
    /\ Begin(p)
    /\ \E pid \in 1 .. ids.project, id \in FormIds("difficulty") :
         /\ difficulties' = upsert(difficulties, id, pid)
         /\ Upserted("difficulty", id)
         /\ Late(pid, <<"difficulty", id>>)
    /\ UNCHANGED <<projects, contributions, refCases, call>>

DeleteDifficulty(p) ==
    /\ Begin(p)
    /\ \E id \in DOMAIN difficulties : difficulties' = Without(difficulties, {id})
    /\ UNCHANGED <<projects, contributions, refCases, ids, call, late>>

\* The transaction deletes the row, which another one then waits for, and
\* remembers the contributions it sees.
DeleteProject(p) ==
    /\ Begin(p)
    /\ \E id \in projects \ Deleting :
         Goto(p, [op |-> "delete", id |-> id, cids |-> Of(contributions, {id})])
    /\ UNCHANGED <<tables, late>>

\* Mutant: the contributions are read when they are deleted already.
DeletePartsFirst(p) ==
    /\ call[p].op = "delete"
    /\ LET id == call[p].id
       IN  /\ projects' = projects \ {id}
           /\ contributions' = Without(contributions, Of(contributions, {id}))
           /\ difficulties' = Without(difficulties, Of(difficulties, {id}))
           /\ UNCHANGED refCases
    /\ Return(p)
    /\ UNCHANGED <<ids, calls, late>>

\* The rest of the transaction: a contribution that was added after they were
\* read goes with the others, and leaves its cases.
DeleteParts(p) ==
    /\ call[p].op = "delete"
    /\ LET id == call[p].id
       IN  /\ projects' = projects \ {id}
           /\ contributions' = Without(contributions, Of(contributions, {id}))
           /\ difficulties' = Without(difficulties, Of(difficulties, {id}))
           /\ refCases' = {r \in refCases : r[1] \notin call[p].cids}
    /\ Return(p)
    /\ UNCHANGED <<ids, calls, late>>

-----------------------------------------------------------------------------
(* Reading. *)

Queries(pids, left) ==
    [op |-> "read", pids |-> pids, left |-> left, contributions |-> {}, difficulties |-> {}, cases |-> {},
     titles |-> {}]

\* One project, whose row is read beside its parts.
ProjectInfo(p) ==
    /\ Begin(p)
    /\ \E id \in projects : Goto(p, Queries({id}, {"project", "contributions", "difficulties"}))
    /\ UNCHANGED <<tables, late>>

\* All projects, whose rows are read first.
FindProjects(p) ==
    /\ Begin(p)
    /\ Goto(p, Queries(projects, {"contributions", "difficulties"}))
    /\ UNCHANGED <<tables, late>>

First(p) ==
    /\ call[p].op = "read" /\ "project" \in call[p].left
    /\ IF call[p].pids \subseteq projects
       THEN Goto(p, [call[p] EXCEPT !.left = @ \ {"project"}])
       ELSE Return(p)
    /\ UNCHANGED <<tables, calls, late>>

FindContributions(p) ==
    /\ call[p].op = "read" /\ "contributions" \in call[p].left
    /\ Goto(p, [call[p] EXCEPT !.left = @ \ {"contributions"},
                               !.contributions = Of(contributions, call[p].pids)])
    /\ UNCHANGED <<tables, calls, late>>

FindDifficulties(p) ==
    /\ call[p].op = "read" /\ "difficulties" \in call[p].left
    /\ Goto(p, [call[p] EXCEPT !.left = @ \ {"difficulties"},
                               !.difficulties = Of(difficulties, call[p].pids)])
    /\ UNCHANGED <<tables, calls, late>>

\* Mutant: the cases of the first contribution alone.
FindCasesOfOne(cids) == {r \in refCases : r[1] \in cids /\ \A c \in cids : r[1] <= c}

FindRefCases(cids) == {r \in refCases : r[1] \in cids}

\* After the others.
FindCases(p) ==
    /\ call[p].op = "read" /\ call[p].left = {}
    /\ Goto(p, [call[p] EXCEPT !.op = "titles", !.cases = FindRefCases(call[p].contributions)])
    /\ UNCHANGED <<tables, calls, late>>

\* The cases that are published; another is shown with nothing but its id.
GetPubByIDs(xs) == xs \cap Published

getCaMap(p) ==
    /\ call[p].op = "titles"
    /\ Goto(p, [call[p] EXCEPT !.op = "shown", !.titles = GetPubByIDs({r[2] : r \in call[p].cases})])
    /\ UNCHANGED <<tables, calls, late>>

Shown(p) ==
    /\ call[p].op = "shown"
    /\ Return(p)
    /\ UNCHANGED <<tables, calls, late>>

-----------------------------------------------------------------------------
(* Work experiences. *)

\* The end of a job that goes on: the zero time, long before all others.
Current == -1000

CurrentEmployed(e) == e.end = Current

Forms == [start : Times, end : Times \cup {Current}]

\* A new row, or all columns of one the user has.
SaveExperience ==
    \E id \in Ids, e \in Forms :
        /\ CurrentEmployed(e) \/ e.start <= e.end
        /\ experiences' = [i \in DOMAIN experiences \cup {id} |-> IF i = id THEN e ELSE experiences[i]]

DeleteExperience ==
    \E id \in DOMAIN experiences : experiences' = Without(experiences, {id})

\* What the query may return: the latest start first, equal starts anyhow.
Lists ==
    {[i \in DOMAIN l |-> experiences[l[i]]] : l \in {s \in SetToSeqs(DOMAIN experiences) :
        \A i \in 2 .. Len(s) : experiences[s[i - 1]].start >= experiences[s[i]].start}}

\* Mutant: the list is taken to begin with the earliest start.
checkAscending(l) ==
    LET overlaps == {i \in 2 .. Len(l) : l[i].start < l[i - 1].end}
        gaps == {i \in 2 .. Len(l) : l[i].start - l[i - 1].end > HalfAYear}
        first == CHOOSE i \in overlaps \cup gaps : \A j \in overlaps \cup gaps : i <= j
    IN  IF overlaps \cup gaps = {} THEN [msg |-> "none"]
        ELSE [msg |-> IF first \in overlaps THEN "overlap" ELSE "gap", at |-> first]

checkOverlap(l) ==
    LET overlaps == {i \in 2 .. Len(l) : l[i - 1].start < l[i].end}
        gaps == {i \in 2 .. Len(l) : l[i - 1].start - l[i].end > HalfAYear}
        first == CHOOSE i \in overlaps \cup gaps : \A j \in overlaps \cup gaps : i <= j
    IN  IF overlaps \cup gaps = {} THEN [msg |-> "none"]
        ELSE [msg |-> IF first \in overlaps THEN "overlap" ELSE "gap", at |-> first]

-----------------------------------------------------------------------------
Rows == [project |-> projects, contribution |-> DOMAIN contributions,
         difficulty |-> DOMAIN difficulties, case |-> refCases]

Both(a, b) == [t \in DOMAIN a |-> a[t] \cap b[t]]

\* What a reader could have missed: rows that were there all along.
Keep ==
    kept' = [p \in Procs |->
        IF call'[p].op \notin {"read", "titles", "shown"} THEN NoRows
        ELSE IF call[p] = Idle THEN Rows' ELSE Both(kept[p], Rows')]

Step(p) ==
    \/ SaveProject(p) \/ SaveContribution(p) \/ DeleteContribution(p)
    \/ SaveDifficulty(p) \/ DeleteDifficulty(p) \/ DeleteProject(p) \/ DeleteParts(p)
    \/ ProjectInfo(p) \/ FindProjects(p) \/ First(p) \/ FindContributions(p)
    \/ FindDifficulties(p) \/ FindCases(p) \/ getCaMap(p) \/ Shown(p)

Next ==
    \/ (\E p \in Procs : Step(p)) /\ Keep /\ UNCHANGED experiences
    \/ (SaveExperience \/ DeleteExperience) /\ UNCHANGED projectVars

Spec == Init /\ [][Next]_resumeVars

-----------------------------------------------------------------------------
(* Properties. *)

\* Rows carry ids that were given out.
TypeOK ==
    /\ projects \subseteq 1 .. ids.project
    /\ DOMAIN contributions \subseteq 1 .. ids.contribution
    /\ DOMAIN difficulties \subseteq 1 .. ids.difficulty
    /\ refCases \subseteq (1 .. ids.contribution) \X Cases
    /\ ids \in [{"project", "contribution", "difficulty"} -> 0 .. MaxRows]
    /\ DOMAIN experiences \subseteq Ids /\ \A i \in DOMAIN experiences : experiences[i] \in Forms

\* A contribution or a difficulty has its project, and a reference to a case
\* its contribution, but for what was saved while the project was being
\* deleted, or afterwards from an old form: no table refers to another, only
\* the transactions keep them together.
RecordsAreWhole ==
    /\ \A c \in DOMAIN contributions :
           contributions[c] \in projects \/ <<"contribution", c>> \in late
    /\ \A d \in DOMAIN difficulties :
           difficulties[d] \in projects \/ <<"difficulty", d>> \in late
    /\ \A r \in refCases : r[1] \in DOMAIN contributions \/ <<"contribution", r[1]>> \in late

\* What is there from before a reader's first query until after the last is
\* shown, whatever is saved and deleted in between.
ReadersMissNothing ==
    \A p \in Procs : call[p].op = "shown" =>
        LET cons == {c \in kept[p].contribution : contributions[c] \in call[p].pids}
        IN  /\ cons \subseteq call[p].contributions
            /\ {d \in kept[p].difficulty : difficulties[d] \in call[p].pids} \subseteq call[p].difficulties
            /\ {r \in kept[p].case : r[1] \in cons} \subseteq call[p].cases

\* Two jobs at once; one that goes on ends after all others.
Overlap(a, b) ==
    LET Before(x, y) == CurrentEmployed(y) \/ x.start < y.end
    IN  Before(a, b) /\ Before(b, a)

\* A list without a message has no two jobs at once, next to each other or not,
\* and no long time without a job; and an overlap that is told is one.  (A gap
\* that is told need not be one: an older job that goes on, or one that covers
\* two later ones, is not looked at.)
SilenceIsTrue ==
    \A l \in Lists :
        LET told == checkOverlap(l)
        IN  /\ told.msg = "none" =>
                   \A i, j \in DOMAIN l : i < j =>
                       /\ ~Overlap(l[i], l[j])
                       /\ j = i + 1 => l[i].start - l[j].end <= HalfAYear
            /\ told.msg = "overlap" => Overlap(l[told.at - 1], l[told.at]) \/ l[told.at - 1].end = l[told.at - 1].start
=============================================================================
