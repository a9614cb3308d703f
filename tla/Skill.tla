-------------------------------- MODULE Skill --------------------------------
(***************************************************************************)
(* Skills (internal/skill): a skill has three levels, and a level names    *)
(* the questions, cases and sets of them one should know.  Editors save    *)
(* the skill and the names apart; after each the service reads all of it   *)
(* again, in three queries at once, and sends it to the search index.      *)
(* Readers are shown the titles of what is named.                          *)
(*                                                                         *)
(* One skill is modelled; its columns are versions, and its levels are     *)
(* written together.  Left out: pages, labels, and the exam results beside *)
(* the titles (CaseSet.tla).                                               *)
(***************************************************************************)
EXTENDS Integers, Sequences, FiniteSets, TLC

CONSTANTS
    Procs,        \* editors and readers
    Forms,        \* what editors choose: sets of [level, kind, rid]
    Things,       \* what there is to name: [kind, rid]
    MaxCalls,     \* bound: calls
    MaxMoves,     \* bound: things that disappear
    MaxFaults     \* bound: events that are lost

VARIABLES
    skill,        \* table skill: its version, or 0
    desc,         \* table skill_level: the version of the levels, or 0
    refs,         \* table skill_refs
    titles,       \* the questions, cases and sets others may find
    topic, index, \* Search
    call, calls, moves, faults,
    changes,      \* history: how often refs was replaced
    chosen,       \* history: the forms that were saved
    sent,         \* history: the versions the last event told
    stale         \* history: the index need not follow

skillVars ==
    <<skill, desc, refs, titles, topic, index, call, calls, moves, faults,
      changes, chosen, sent, stale>>

Idle == [op |-> "idle"]
NoDocument == <<>>

Elastic == INSTANCE Search WITH Docs <- {1}, NoDoc <- NoDocument

Init ==
    /\ skill = 0 /\ desc = 0
    /\ refs = {}
    /\ titles = Things
    /\ Elastic!SearchInit
    /\ call = [p \in Procs |-> Idle]
    /\ calls = 0 /\ moves = 0 /\ faults = 0 /\ changes = 0
    /\ chosen = {{}}
    /\ sent = [skill |-> 0, desc |-> 0, refs |-> 0]
    /\ stale = FALSE

Goto(p, c) == call' = [call EXCEPT ![p] = c]
Return(p) == Goto(p, Idle)
Begin(p) == call[p] = Idle /\ calls < MaxCalls /\ calls' = calls + 1

tables == <<skill, desc, refs>>
search == <<topic, index>>
history == <<changes, chosen, sent, stale>>

-----------------------------------------------------------------------------
(* Info reads the three tables side by side, and puts together the refs of *)
(* the levels it found.                                                    *)

Parts == {"skill", "desc", "refs"}

Now == [skill |-> skill, desc |-> desc, refs |-> refs]

Versions == [skill |-> skill, desc |-> desc, refs |-> changes]

Info(reason) == [op |-> "info", reason |-> reason, got |-> <<>>, told |-> <<>>]

skillToInfoDomain(got) ==
    [skill |-> got["skill"], desc |-> got["desc"],
     refs |-> IF got["desc"] = 0 THEN {} ELSE got["refs"]]

\* The last of the three answers; a skill that is not there is an error.
ReadPart(p) ==
    /\ call[p].op = "info"
    /\ \E part \in Parts \ DOMAIN call[p].got :
         LET got == call[p].got @@ (part :> Now[part])
             told == call[p].told @@ (part :> Versions[part])
         IN  IF DOMAIN got # Parts
             THEN Goto(p, [call[p] EXCEPT !.got = got, !.told = told])
             ELSE IF got["skill"] = 0 THEN Return(p)
             ELSE Goto(p, [op |-> call[p].reason, info |-> skillToInfoDomain(got), told |-> told])
    /\ UNCHANGED <<tables, titles, search, calls, moves, faults, history>>

-----------------------------------------------------------------------------
(* Editors. *)

\* The new skill, or another of that name; its levels by their number or name.
Upserted == skill' = skill + 1 /\ desc' = desc + 1

\* Mutant: only new refs are sent.
syncOnlyRefs(p) == Return(p)

syncSkill(p) == Goto(p, Info("sync"))

Save(p) ==
    /\ Begin(p)
    /\ Upserted
    /\ syncSkill(p)
    /\ UNCHANGED <<refs, titles, search, moves, faults, history>>

\* An editor opens the skill.
Open(p) ==
    /\ Begin(p)
    /\ Goto(p, Info("form"))
    /\ UNCHANGED <<tables, titles, search, moves, faults, history>>

\* One row for each thing a level names: questions, cases, and sets of both.
toRef(form) == {[level |-> r.level, kind |-> r.kind, rid |-> r.rid] : r \in form}

\* Mutant: the old rows stay.
AddRows(rows) == refs \cup rows

\* In one transaction the old rows are deleted and the new ones created; when
\* there are none to create, nothing is deleted.
Replaced(rows) == IF rows = {} THEN refs ELSE rows

SaveRefs(p) ==
    /\ call[p].op = "form"
    /\ \E form \in Forms :
         /\ call[p].info.desc # 0 \/ form = {}
         /\ refs' = Replaced(toRef(form))
         /\ changes' = IF form = {} THEN changes ELSE changes + 1
         /\ chosen' = chosen \cup {form}
    /\ Goto(p, Info("sync"))
    /\ UNCHANGED <<skill, desc, titles, search, calls, moves, faults, sent, stale>>

\* The event has the questions and cases of the levels, and no sets.
NewSkillEvent(info) ==
    [skill |-> info.skill, desc |-> info.desc,
     refs |-> {r \in info.refs : r.kind \in {"question", "case"}}]

Produce(p) ==
    /\ call[p].op = "sync"
    /\ LET told == call[p].told
           old == \E part \in Parts : told[part] < sent[part]
       IN  \/ /\ Elastic!Produce(Elastic!SyncEvent(FALSE, 1, NewSkillEvent(call[p].info)))
              /\ stale' = (stale \/ old)
              /\ sent' = IF old THEN sent ELSE told
              /\ UNCHANGED <<index, faults>>
           \/ /\ faults < MaxFaults
              /\ faults' = faults + 1
              /\ stale' = TRUE
              /\ UNCHANGED <<search, sent>>
    /\ Return(p)
    /\ UNCHANGED <<tables, titles, calls, moves, changes, chosen>>

Consume ==
    /\ Elastic!Consume
    /\ UNCHANGED <<tables, titles, call, calls, moves, faults, history>>

\* A question or case is taken back, or a set is gone.
Disappear ==
    /\ moves < MaxMoves
    /\ moves' = moves + 1
    /\ \E x \in titles : titles' = titles \ {x}
    /\ UNCHANGED <<tables, search, call, calls, faults, history>>

-----------------------------------------------------------------------------
(* Readers. *)

Rids(rows, kind) == {r.rid : r \in {x \in rows : x.kind = kind}}
At(rows, level) == {r \in rows : r.level = level}

Questions(rows) == Rids(rows, "question")
Cases(rows) == Rids(rows, "case")
CaseSets(rows) == Rids(rows, "caseSet")

\* Mutant: those of the advanced level are left out.
BasicSets(rows) == Rids(At(rows, "basic"), "questionSet") \cup Questions(At(rows, "intermediate"))

\* The numbers of the intermediate level's questions stand for those of its sets.
QuestionSets(rows) ==
    Rids(At(rows, "basic"), "questionSet") \cup Questions(At(rows, "intermediate"))
        \cup Rids(At(rows, "advanced"), "questionSet")

Asked(rows) ==
    {[kind |-> "question", rid |-> i] : i \in Questions(rows)}
        \cup {[kind |-> "case", rid |-> i] : i \in Cases(rows)}
        \cup {[kind |-> "caseSet", rid |-> i] : i \in CaseSets(rows)}
        \cup {[kind |-> "questionSet", rid |-> i] : i \in QuestionSets(rows)}

Thing(r) == [kind |-> r.kind, rid |-> r.rid]

\* What is asked for and found gives its title; the others are shown without.
Shows(rows, found) ==
    [op |-> "shown", rows |-> rows, titled |-> {r \in rows : Thing(r) \in found}]

Detail(p) ==
    /\ Begin(p)
    /\ Goto(p, Info("detail"))
    /\ UNCHANGED <<tables, titles, search, moves, faults, history>>

DetailRefs(p) ==
    /\ call[p].op = "detail"
    /\ LET rows == call[p].info.refs IN Goto(p, Shows(rows, Asked(rows) \cap titles))
    /\ UNCHANGED <<tables, titles, search, calls, moves, faults, history>>

\* All that the levels name, whatever the levels are.
RefsByLevelIDs(p) ==
    /\ Begin(p)
    /\ Goto(p, [op |-> "levels", rows |-> refs])
    /\ UNCHANGED <<tables, titles, search, moves, faults, history>>

skillLevels(p) ==
    /\ call[p].op = "levels"
    /\ Goto(p, Shows(call[p].rows, titles))
    /\ UNCHANGED <<tables, titles, search, calls, moves, faults, history>>

Shown(p) ==
    /\ call[p].op = "shown"
    /\ Return(p)
    /\ UNCHANGED <<tables, titles, search, calls, moves, faults, history>>

-----------------------------------------------------------------------------
Step(p) ==
    \/ Save(p) \/ Open(p) \/ SaveRefs(p) \/ ReadPart(p) \/ Produce(p)
    \/ Detail(p) \/ DetailRefs(p) \/ RefsByLevelIDs(p) \/ skillLevels(p) \/ Shown(p)

Next == Consume \/ Disappear \/ \E p \in Procs : Step(p)

Spec == Init /\ [][Next]_skillVars

-----------------------------------------------------------------------------
(* Properties. *)

TypeOK ==
    /\ skill \in 0 .. MaxCalls /\ desc = skill
    /\ titles \subseteq Things
    /\ changes \in 0 .. MaxCalls /\ moves \in 0 .. MaxMoves /\ faults \in 0 .. MaxFaults

\* A skill names what one editor chose, and never a mix of two forms; and so
\* does whatever a reader is shown.
ReferencesHold ==
    /\ refs \in chosen
    /\ \A p \in Procs : call[p].op = "shown" => call[p].rows \in chosen

\* Once every change is told, the document says what the tables say, unless an
\* event was lost or overtaken.
DocumentFollows ==
    (topic = <<>> /\ skill # 0 /\ \A p \in Procs : call[p].op \notin {"info", "sync"}) =>
        index["draft"][1] = NewSkillEvent(Now) \/ stale

\* Whatever is there all the time is shown with its title, but for the
\* question sets of the intermediate level, which nobody asks for.
TitlesAreShown ==
    \A p \in Procs : call[p].op = "shown" =>
        \A r \in call[p].rows :
            Thing(r) \in titles =>
                r \in call[p].titled \/ (r.kind = "questionSet" /\ r.level = "intermediate")
=============================================================================
