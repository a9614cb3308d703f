------------------------------ MODULE CaseSet -------------------------------
(***************************************************************************)
(* Case sets and exams (internal/cases): editors put cases into a set, a   *)
(* user has a language model judge his answers about published cases, and  *)
(* readers find a set, its cases and how they did in queries of their own. *)
(*                                                                         *)
(* One set and one user are modelled, and the set's title is a version.    *)
(* Left out: pages, the business object a set may belong to, the counts of *)
(* likes and views, and how the model is paid (LLM.tla).                   *)
(***************************************************************************)
EXTENDS Integers, Sequences, FiniteSets, FiniteSetsExt

CONSTANTS
    Procs,        \* editors, and requests of the user
    CaseIds,      \* ids of cases
    Published,    \* those that are published
    MaxCalls,     \* bound: calls
    MaxFaults     \* bound: statements of the database that fail

VARIABLES
    set,          \* table case_sets: the title, or NoSet
    rows,         \* table case_set_cases: the cases of the set
    records,      \* table case_examine_records: results by case, as they were stored
    results,      \* table case_results: the user's result by case
    charged,      \* history: answers the user has paid for
    lost,         \* history: those that were not recorded
    call, calls, faults,
    seen          \* history: what the tables have said since a reader began

caseSetVars == <<set, rows, records, results, charged, lost, call, calls, faults, seen>>

NoSet == 0
Idle == [op |-> "idle"]

\* A case nobody examined counts as one that failed.
ResultFailed == 0
ResultPassed == 1

Init ==
    /\ set = NoSet /\ rows = {}
    /\ records = [c \in CaseIds |-> <<>>]
    /\ results = [c \in CaseIds |-> ResultFailed]
    /\ charged = 0 /\ lost = 0
    /\ call = [p \in Procs |-> Idle]
    /\ calls = 0 /\ faults = 0
    /\ seen = [p \in Procs |-> {}]

Goto(p, c) == call' = [call EXCEPT ![p] = c]
Return(p) == Goto(p, Idle)
Begin(p) == call[p] = Idle /\ calls < MaxCalls /\ calls' = calls + 1

exams == <<records, results, charged, lost>>

-----------------------------------------------------------------------------
(* Editors. *)

\* A new row, or the columns of the form that are not zero.
UpdateNonZero == set' = set + 1

SaveCaseSet(p) ==
    /\ Begin(p)
    /\ UpdateNonZero
    /\ Return(p)
    /\ UNCHANGED <<rows, exams, faults>>

\* The cases that are not in the set.
Exclude(cids) == CaseIds \ cids

\* A form with the cases of the set and the candidates.
GetCandidates(p) ==
    /\ call[p] = Idle
    /\ calls < MaxCalls
    /\ set # NoSet
    /\ Goto(p, [op |-> "form", cids |-> rows \cup Exclude(rows)])
    /\ UNCHANGED <<set, rows, exams, calls, faults>>

\* In one transaction, if the set is there: the old rows are deleted and those
\* of the form created.
UpdateCasesByID(cids) == set # NoSet /\ rows' = cids

UpdateCases(p) ==
    /\ call[p].op = "form"
    /\ calls < MaxCalls
    /\ calls' = calls + 1
    /\ \E cids \in SUBSET call[p].cids : UpdateCasesByID(cids)
    /\ Return(p)
    /\ UNCHANGED <<set, exams, faults>>

-----------------------------------------------------------------------------
(* Exams. *)

\* The case is published.
Examine(p) ==
    /\ Begin(p)
    /\ \E c \in Published : Goto(p, [op |-> "invoke", cid |-> c])
    /\ UNCHANGED <<set, rows, exams, faults>>

\* The model answers and is paid, or the user is told that it was refused or failed.
Invoke(p) ==
    /\ call[p].op = "invoke"
    /\ \/ \E passes \in BOOLEAN :
            Goto(p, [op |-> "answer", cid |-> call[p].cid, passes |-> passes])
          /\ charged' = charged + 1
       \/ Return(p) /\ UNCHANGED charged
    /\ UNCHANGED <<set, rows, records, results, lost, calls, faults>>

\* An answer begins with the word for "passed", or it does not.
parseExamineResult(passes) == IF passes THEN ResultPassed ELSE ResultFailed

\* Mutant: a result that is there is left alone.
KeepResult(c, result) == IF records[c] = <<>> THEN result ELSE results[c]

\* The result of the new record, whatever there was.
Upserted(c, result) == result

\* One transaction records the answer and its result.
SaveResult(p) ==
    /\ call[p].op = "answer"
    /\ LET c == call[p].cid
           result == parseExamineResult(call[p].passes)
       IN  \/ /\ records' = [records EXCEPT ![c] = Append(@, result)]
              /\ results' = [results EXCEPT ![c] = Upserted(c, result)]
              /\ UNCHANGED <<lost, faults>>
           \/ /\ faults < MaxFaults
              /\ faults' = faults + 1
              /\ lost' = lost + 1
              /\ UNCHANGED <<records, results>>
    /\ Return(p)
    /\ UNCHANGED <<set, rows, charged, calls>>

-----------------------------------------------------------------------------
(* Readers. *)

Reading(p, op, c) ==
    /\ call[p].op = op
    /\ Goto(p, c)
    /\ UNCHANGED <<set, rows, exams, calls, faults>>

\* The set is there.
GetByID(p) ==
    /\ Begin(p)
    /\ set # NoSet
    /\ Goto(p, [op |-> "cids"])
    /\ UNCHANGED <<set, rows, exams, faults>>

ReadCids(p) == Reading(p, "cids", [op |-> "cases", cids |-> rows])

\* Mutant: published ones alone.
PublishedCases(cids) == cids \cap Published

\* Cases as the editors see them: unpublished ones, too, are shown to readers.
GetCasesByID(cids) == cids \cap CaseIds

ReadCases(p) == Reading(p, "cases", [op |-> "results", cids |-> GetCasesByID(call[p].cids)])

\* What the user achieved, read beside the counts of likes.
GetResults(p) ==
    Reading(p, "results", [op |-> "shown", cids |-> call[p].cids,
                           results |-> [c \in call[p].cids |-> results[c]]])

\* For the skills: the set and its rows are read side by side.
GetByIDsWithCases(p) ==
    /\ Begin(p)
    /\ \/ Goto(p, [op |-> "title", cids |-> rows])
       \/ set # NoSet /\ Goto(p, [op |-> "refs"])
       \/ set = NoSet /\ Return(p)
    /\ UNCHANGED <<set, rows, exams, faults>>

Shows(cids) == [op |-> "shown", cids |-> cids, results |-> <<>>]

GetRefs(p) ==
    \/ set # NoSet /\ Reading(p, "title", Shows(call[p].cids))
    \/ set = NoSet /\ Reading(p, "title", Idle)
    \/ Reading(p, "refs", Shows(rows))

toCaseSetVO(p) == Reading(p, "shown", Idle)

-----------------------------------------------------------------------------
Tables == [rows |-> rows, results |-> results]

See ==
    seen' = [p \in Procs |->
        IF call'[p].op \notin {"cids", "cases", "results", "title", "refs", "shown"} THEN {}
        ELSE IF call[p] = Idle THEN {Tables} ELSE seen[p] \cup {Tables'}]

Step(p) ==
    \/ SaveCaseSet(p) \/ GetCandidates(p) \/ UpdateCases(p)
    \/ Examine(p) \/ Invoke(p) \/ SaveResult(p)
    \/ GetByID(p) \/ ReadCids(p) \/ ReadCases(p) \/ GetResults(p)
    \/ GetByIDsWithCases(p) \/ GetRefs(p) \/ toCaseSetVO(p)

Next == (\E p \in Procs : Step(p)) /\ See

Spec == Init /\ [][Next]_caseSetVars

-----------------------------------------------------------------------------
(* Properties. *)

TypeOK ==
    /\ set \in 0 .. MaxCalls /\ rows \subseteq CaseIds
    /\ DOMAIN records = CaseIds /\ results \in [CaseIds -> {ResultFailed, ResultPassed}]
    /\ charged \in 0 .. MaxCalls /\ lost \in 0 .. faults /\ faults \in 0 .. MaxFaults

\* A list a reader is shown is one the set had, and every result one the user
\* had, at a moment since the reader asked: never half of a list, or a mix.
ListsAreWhole ==
    \A p \in Procs : call[p].op = "shown" =>
        /\ \E t \in seen[p] : t.rows = call[p].cids
        /\ \A c \in DOMAIN call[p].results :
             \E t \in seen[p] : t.results[c] = call[p].results[c]

\* Every answer the user paid for is recorded, or its caller was told of an
\* error; and his result is that of the last record.
ExamsAreRecorded ==
    LET answered == {p \in Procs : call[p].op = "answer"}
        stored == MapThenSumSet(LAMBDA c : Len(records[c]), CaseIds)
    IN  /\ charged = stored + lost + Cardinality(answered)
        /\ \A c \in CaseIds :
             results[c] = IF records[c] = <<>> THEN ResultFailed ELSE records[c][Len(records[c])]
=============================================================================
