----------------------------- MODULE QuestionSet -----------------------------
(***************************************************************************)
(* Question sets (internal/question): a set names questions, which other   *)
(* editors create, publish and delete meanwhile.  After every change the   *)
(* service reads the set again and sends it to the search index.  Readers  *)
(* find a set in three queries.                                            *)
(*                                                                         *)
(* One set is modelled, and its title is a version.  Left out: pages,      *)
(* the business object a set may belong to, counts of likes and views.     *)
(***************************************************************************)
EXTENDS Integers, Sequences, FiniteSets

CONSTANTS
    Procs,        \* editors and readers
    Questions,    \* ids of questions
    Published,    \* those that are published at first
    MaxCalls,     \* bound: calls about the set
    MaxMoves,     \* bound: questions published and deleted
    MaxFaults     \* bound: events that are lost

VARIABLES
    set,          \* table question_sets: the title, or NoSet
    rows,         \* table question_set_questions: the questions of the set
    questions,    \* ids in table questions
    pubQuestions, \* ids in table publish_questions
    topic, index, \* Search
    call, calls, moves, faults,
    late,         \* history: rows written when their question was gone
    kept,         \* history: published questions of the set since a reader began
    sent,         \* history: the last change of title and of rows an event told
    changes,      \* history: how often the rows were replaced
    stale         \* history: the index need not follow

setVars ==
    <<set, rows, questions, pubQuestions, topic, index, call, calls, moves, faults,
      late, kept, sent, changes, stale>>

NoSet == 0
Idle == [op |-> "idle"]
NoDocument == <<>>

Elastic == INSTANCE Search WITH Docs <- {1}, NoDoc <- NoDocument

Init ==
    /\ set = NoSet
    /\ rows = {}
    /\ questions = Questions
    /\ pubQuestions = Published
    /\ Elastic!SearchInit
    /\ call = [p \in Procs |-> Idle]
    /\ calls = 0 /\ moves = 0 /\ faults = 0
    /\ late = {}
    /\ kept = [p \in Procs |-> {}]
    /\ sent = <<0, 0>>
    /\ changes = 0
    /\ stale = FALSE

Goto(p, c) == call' = [call EXCEPT ![p] = c]
Return(p) == Goto(p, Idle)
Begin(p) == call[p] = Idle /\ calls < MaxCalls /\ calls' = calls + 1

search == <<topic, index>>
library == <<questions, pubQuestions, moves>>
syncing == <<sent, stale>>

-----------------------------------------------------------------------------
(* What other editors do with the questions: Question.tla. *)

PublishQuestion ==
    /\ moves < MaxMoves
    /\ \E q \in questions \ pubQuestions : pubQuestions' = pubQuestions \cup {q}
    /\ moves' = moves + 1
    /\ UNCHANGED <<set, rows, questions, search, call, calls, faults, late, sent, changes, stale>>

\* Mutant: the rows of sets stay.
DeleteFromSet(q) == rows

DeleteQuestionSetQuestion(q) == rows \ {q}

\* One transaction; the document of the set is not sent again.
DeleteQuestion ==
    /\ moves < MaxMoves
    /\ moves' = moves + 1
    /\ \E q \in questions :
         /\ questions' = questions \ {q}
         /\ pubQuestions' = pubQuestions \ {q}
         /\ rows' = DeleteQuestionSetQuestion(q)
         /\ stale' = (stale \/ q \in rows)
    /\ UNCHANGED <<set, search, call, calls, faults, late, sent, changes>>

-----------------------------------------------------------------------------
(* Editors. *)

\* A new row, or the columns of the form that are not zero.
UpdateNonZero == set' = set + 1

\* Mutant: only a new set is sent.
syncNewSet(p) == IF set = NoSet THEN Goto(p, [op |-> "sync"]) ELSE Return(p)

syncQuestionSet(p) == Goto(p, [op |-> "sync"])

SaveQuestionSet(p) ==
    /\ Begin(p)
    /\ UpdateNonZero
    /\ syncQuestionSet(p)
    /\ UNCHANGED <<rows, library, search, faults, late, changes, syncing>>

\* The questions that are not in the set, for an editor to choose from.
ExcludeQuestions(qids) == questions \ qids

\* A form with the questions of the set and the candidates.
GetCandidates(p) ==
    /\ call[p] = Idle
    /\ calls < MaxCalls
    /\ set # NoSet
    /\ Goto(p, [op |-> "form", qids |-> (rows \cap questions) \cup ExcludeQuestions(rows)])
    /\ UNCHANGED <<set, rows, library, search, calls, faults, late, changes, syncing>>

\* The questions of the form replace those of the set, in one transaction that
\* asks whether the set is there, and not whether they are.
UpdateQuestionsByID(qids) ==
    /\ set # NoSet
    /\ rows' = qids
    /\ late' = (late \cap qids) \cup (qids \ questions)

UpdateQuestions(p) ==
    /\ call[p].op = "form"
    /\ calls < MaxCalls
    /\ calls' = calls + 1
    /\ \E qids \in SUBSET call[p].qids : UpdateQuestionsByID(qids)
    /\ changes' = changes + 1
    /\ syncQuestionSet(p)
    /\ UNCHANGED <<set, library, search, faults, syncing>>

\* GetByID of the service's own: the set, and then its questions.
SyncSet(p) ==
    /\ call[p].op = "sync"
    /\ Goto(p, [op |-> "syncRows", title |-> set])
    /\ UNCHANGED <<set, rows, library, search, calls, faults, late, changes, syncing>>

Document(title, qids) == [title |-> title, qids |-> qids]

SyncRows(p) ==
    /\ call[p].op = "syncRows"
    /\ Goto(p, [op |-> "event", told |-> <<call[p].title, changes>>,
                evt |-> Document(call[p].title, rows \cap questions)])
    /\ UNCHANGED <<set, rows, library, search, calls, faults, late, changes, syncing>>

\* An event that cannot be sent is only logged; one that another overtook puts
\* an old set into the index.
Produce(p) ==
    /\ call[p].op = "event"
    /\ LET told == call[p].told
           old == told[1] < sent[1] \/ told[2] < sent[2]
       IN  \/ /\ Elastic!Produce(Elastic!SyncEvent(FALSE, 1, call[p].evt))
              /\ stale' = (stale \/ old)
              /\ sent' = IF old THEN sent ELSE told
              /\ UNCHANGED <<index, faults>>
           \/ /\ faults < MaxFaults
              /\ faults' = faults + 1
              /\ stale' = TRUE
              /\ UNCHANGED <<search, sent>>
    /\ Return(p)
    /\ UNCHANGED <<set, rows, library, calls, late, changes>>

Consume ==
    /\ Elastic!Consume
    /\ UNCHANGED <<set, rows, library, call, calls, faults, late, changes, syncing>>

-----------------------------------------------------------------------------
(* Readers. *)

\* The set is there.
PubDetail(p) ==
    /\ Begin(p)
    /\ set # NoSet
    /\ Goto(p, [op |-> "rows"])
    /\ UNCHANGED <<set, rows, library, search, faults, late, changes, syncing>>

ReadRows(p) ==
    /\ call[p].op = "rows"
    /\ Goto(p, [op |-> "questions", qids |-> rows])
    /\ UNCHANGED <<set, rows, library, search, calls, faults, late, changes, syncing>>

\* Mutant: those the editors see.
GetQuestions(qids) == qids \cap questions

\* The published ones of them.
GetPubQuestions(qids) == qids \cap pubQuestions

ReadQuestions(p) ==
    /\ call[p].op = "questions"
    /\ Goto(p, [op |-> "shown", qids |-> GetPubQuestions(call[p].qids)])
    /\ UNCHANGED <<set, rows, library, search, calls, faults, late, changes, syncing>>

\* With the counts of likes, and a view is counted.
Shown(p) ==
    /\ call[p].op = "shown"
    /\ Return(p)
    /\ UNCHANGED <<set, rows, library, search, calls, faults, late, changes, syncing>>

-----------------------------------------------------------------------------
\* What a reader could have missed: it was there all along.
Keep ==
    kept' = [p \in Procs |->
        IF call'[p].op \notin {"rows", "questions", "shown"} THEN {}
        ELSE IF call[p] = Idle THEN rows' \cap pubQuestions' ELSE kept[p] \cap rows' \cap pubQuestions']

Step(p) ==
    \/ SaveQuestionSet(p) \/ GetCandidates(p) \/ UpdateQuestions(p)
    \/ SyncSet(p) \/ SyncRows(p) \/ Produce(p)
    \/ PubDetail(p) \/ ReadRows(p) \/ ReadQuestions(p) \/ Shown(p)

Next ==
    /\ PublishQuestion \/ DeleteQuestion \/ Consume \/ \E p \in Procs : Step(p)
    /\ Keep

Spec == Init /\ [][Next]_setVars

-----------------------------------------------------------------------------
(* Properties. *)

TypeOK ==
    /\ set \in 0 .. MaxCalls /\ changes \in 0 .. MaxCalls
    /\ pubQuestions \subseteq questions /\ questions \subseteq Questions
    /\ rows \subseteq Questions
    /\ moves \in 0 .. MaxMoves /\ faults \in 0 .. MaxFaults

\* A set names questions that are there, but for those that were deleted while
\* they stood in an editor's form: nobody asks for them when the form is saved.
ReferencesHold == rows \subseteq questions \cup late

\* Once every change is told, the document says what the tables say, unless an
\* event was lost or overtaken, or a question of the set was deleted.
DocumentFollows ==
    (topic = <<>> /\ set # NoSet /\ \A p \in Procs : call[p].op \notin {"sync", "syncRows", "event"}) =>
        index["draft"][1] = Document(set, rows \cap questions) \/ stale

\* Readers of a set see published questions alone, and every one that was in
\* it, and published, from before they asked until they are shown.
DraftsStayPrivate ==
    \A p \in Procs : call[p].op = "shown" =>
        /\ call[p].qids \cap questions \subseteq pubQuestions
        /\ kept[p] \subseteq call[p].qids
=============================================================================
