------------------------------ MODULE FullSync ------------------------------
(***************************************************************************)
(* The full syncs an administrator starts, for questions or for cases:     *)
(* SyncAll reads the draft and the published table side by side, a page    *)
(* at a time by offset, and puts each row into the search index without    *)
(* the topic; FullSync puts the published cases into the knowledge base.   *)
(* Editors go on meanwhile, and so do the events of their calls and the    *)
(* consumers of these.  Nothing holds any two of them together.            *)
(*                                                                         *)
(* A row is its version, which also stands for its utime.  The document of *)
(* a question is a pair, as its answers are rows of their own, read later. *)
(* What a call does after its commit is one step here: Question.tla and    *)
(* Cases.tla have the steps between, the caches, and events that fail.     *)
(***************************************************************************)
EXTENDS Integers, FiniteSets, Sequences

CONSTANTS
    Kind,       \* "question" or "case"
    Ids,        \* numbers of rows, which auto-increment gives out in order
    Existing,   \* the rows there are, all published and none indexed
    PageSize,   \* 10 in the code
    MaxVersions, MaxDeletes, MaxFaults  \* bounds

VARIABLES
    draft, pub,     \* the tables
    topic, index,   \* Search
    uploads, files, saved, upload, fileId, broken,  \* KnowledgeBase: the consumer
    own, ownUpload, \* the same for FullSync: the case it uploads itself
    due,            \* calls that have committed and not yet sent their events
    run,            \* what each sync is doing
    timeUp,         \* the ten minutes of SyncAll are over
    created,        \* ids auto-increment has given out
    version, deletes, faults,  \* counters for the bounds
    published,      \* history: versions ever in the published table
    spoiled,        \* history: documents that may lag behind their row
    raced,          \* history: rows saved while a publication was on its way
    met             \* history: uploads of one case that met

tables == <<draft, pub, created, version, published>>
kbVars == <<uploads, files, saved, upload, fileId, broken>>
fullVars == <<tables, topic, index, kbVars, own, ownUpload, due, run, timeUp, deletes,
              faults, spoiled, raced, met>>

NoRow == [ver |-> 0, live |-> FALSE]
NoDoc == <<0, 0>>
Tables == {"draft", "pub"}
Idle == [pc |-> "idle", offset |-> 0, page |-> <<>>, whole |-> TRUE]

Elastic == INSTANCE Search WITH Docs <- Ids
Kb == INSTANCE KnowledgeBase WITH Docs <- Ids, NoFile <- <<>>
Own == INSTANCE KnowledgeBase WITH Docs <- Ids, NoFile <- <<>>,
                                   uploads <- own, upload <- ownUpload

Init ==
    /\ draft = [q \in Ids |-> IF q \in Existing THEN [ver |-> q, live |-> TRUE] ELSE NoRow]
    /\ pub = draft
    /\ Elastic!SearchInit
    /\ Kb!KbInit
    /\ own = <<>> /\ ownUpload = Kb!NoUpload
    /\ due = {}
    /\ run = [s \in Tables \cup {"kbase"} |-> Idle]
    /\ timeUp = FALSE
    /\ created = Existing
    /\ version = Cardinality(Existing)
    /\ deletes = 0
    /\ faults = 0
    /\ published = [q \in Ids |-> IF q \in Existing THEN {q} ELSE {}]
    /\ spoiled = {}
    /\ raced = {}
    /\ met = [q \in Ids |-> 0]

table == [draft |-> draft, pub |-> pub]
RowsOf(t) == {q \in Ids : table[t][q] # NoRow}

OfQuestions == Kind = "question"

\* What is read of a question is the row and the answers; a case is one row.
Doc(row, eles) == <<row, eles>>
Whole(row) == Doc(row.ver, row.ver)

-----------------------------------------------------------------------------
(* Pages: rows under numbers that grow, so a new one comes first *)

Newest(a, b) == a > b

\* Mutant: the least recent publication first.
OldestUtime(a, b) == pub[a].ver < pub[b].ver

\* ORDER BY utime DESC, id DESC
LatestUtime(a, b) == pub[a].ver > pub[b].ver

\* No ORDER BY.
Unordered(a, b) == a # b

\* What a query may answer: each row of S, in the order it asks for.
InOrder(S, before(_, _)) ==
    {s \in [1..Cardinality(S) -> S] :
        \A i, j \in DOMAIN s : i < j => before(s[i], s[j])}

\* LIMIT and OFFSET
Part(s, k) == SubSeq(s, k + 1, IF k + PageSize < Len(s) THEN k + PageSize ELSE Len(s))

\* dao.List of questions, ListSync and PubListSync of cases.
ListById(t) == InOrder(RowsOf(t), Newest)

ListPubSince == InOrder(RowsOf("pub"), LatestUtime)

Listed(t) == IF OfQuestions /\ t = "pub" THEN ListPubSince ELSE ListById(t)

\* The page, with the rows as they are and, of questions, no answers yet.
Row(t, q) ==
    [id |-> q, doc |-> IF OfQuestions THEN Doc(table[t][q].ver, 0) ELSE Whole(table[t][q])]
Rows(t, ids) == [i \in DOMAIN ids |-> Row(t, ids[i])]

-----------------------------------------------------------------------------
(* History: who is overtaken by a commit *)

\* The sync has read the row, or only its row, and will still index it.
InHand(t, q) == \E i \in DOMAIN run[t].page : run[t].page[i].id = q

Overtaken(q, ts) == {<<t, q>> : t \in {u \in ts : InHand(u, q)}}

\* What no event will follow: a case's draft, as its saves send what is
\* published, and what is published of a question that is gone.
Unsent(q) ==
    IF ~OfQuestions THEN {<<"draft", q>>}
    ELSE IF draft'[q] = NoRow THEN {<<"pub", q>>} ELSE {}

\* What was published is saved again, before it is read for the live event, or
\* before FullSync comes to it.
Unpublished(q) ==
    IF OfQuestions THEN \E e \in due : e.id = q /\ e.op = "publish"
    ELSE \E i \in DOMAIN run["kbase"].page : run["kbase"].page[i] = q

-----------------------------------------------------------------------------
(* Editors *)

\* create takes the next id; the update of a question that is gone writes no
\* row.  A case is put back (INSERT ... ON DUPLICATE KEY UPDATE).
SaveDraft(q, row) ==
    /\ q \in created \cup {Cardinality(created) + 1}
    /\ created' = created \cup {q}
    /\ draft' = IF OfQuestions /\ q \in created /\ draft[q] = NoRow THEN draft
                ELSE [draft EXCEPT ![q] = row]

Commit(q, op) ==
    /\ version < MaxVersions
    /\ version' = version + 1
    /\ SaveDraft(q, [ver |-> version', live |-> op = "publish"])
    /\ due' = due \cup {[ver |-> version', id |-> q, op |-> op]}
    /\ raced' = IF op = "save" /\ Unpublished(q) THEN raced \cup {q} ELSE raced
    /\ UNCHANGED <<topic, index, kbVars, own, ownUpload, run, timeUp, deletes, faults, met>>

Save(q) ==
    /\ Commit(q, "save")
    /\ spoiled' = spoiled \cup Overtaken(q, {"draft"}) \cup Unsent(q)
    /\ UNCHANGED <<pub, published>>

Publish(q) ==
    /\ Commit(q, "publish")
    /\ pub' = [pub EXCEPT ![q] = [ver |-> version', live |-> TRUE]]
    /\ published' = [published EXCEPT ![q] = @ \cup {version'}]
    /\ spoiled' = spoiled \cup Overtaken(q, Tables) \cup Unsent(q)

\* Questions alone are deleted; the rows below move up, under the offset.
Delete(q) ==
    /\ OfQuestions
    /\ deletes < MaxDeletes
    /\ draft[q] # NoRow
    /\ deletes' = deletes + 1
    /\ draft' = [draft EXCEPT ![q] = NoRow]
    /\ pub' = [pub EXCEPT ![q] = NoRow]
    /\ run' = [s \in DOMAIN run |->
                  [run[s] EXCEPT !.whole = @ /\ run[s].pc \in {"idle", "done"}]]
    /\ UNCHANGED <<version, created, published, topic, index, kbVars, own, ownUpload, due,
                   timeUp, faults, spoiled, raced, met>>

\* The question's draft is read for both events; of a case, what is published.
Sent(e) ==
    LET row == IF OfQuestions THEN draft[e.id] ELSE pub[e.id]
        evt(live) == Elastic!SyncEvent(live, e.id, Whole(row)) IN
    IF row = NoRow THEN <<>>
    ELSE IF ~OfQuestions THEN <<evt(e.op = "publish")>>
    ELSE IF e.op = "publish" THEN <<evt(FALSE), evt(TRUE)>> ELSE <<evt(FALSE)>>

\* The file of a case is made of one version of it.
UploadOf(c, row) == [id |-> c, data |-> row.ver]

\* What the call does after its commit; of a case, upload included.
SendEvents(e) ==
    /\ due' = due \ {e}
    /\ topic' = topic \o Sent(e)
    /\ uploads' = IF ~OfQuestions /\ e.op = "publish"
                  THEN Append(uploads, UploadOf(e.id, pub[e.id])) ELSE uploads
    /\ UNCHANGED <<tables, index, files, saved, upload, fileId, broken, own, ownUpload, run,
                   timeUp, deletes, faults, spoiled, raced, met>>

Consume ==
    /\ Elastic!Consume
    /\ UNCHANGED <<tables, kbVars, own, ownUpload, due, run, timeUp, deletes, faults,
                   spoiled, raced, met>>

-----------------------------------------------------------------------------
(* SyncAll *)

outsideSync == <<tables, topic, kbVars, own, ownUpload, due, deletes, spoiled, raced, met>>

AllIdle == \A s \in DOMAIN run : run[s].pc = "idle"

\* The handler answers at once and leaves both to goroutines.
SyncAll ==
    /\ AllIdle
    /\ run' = [s \in DOMAIN run |->
                  IF s \in Tables THEN [run[s] EXCEPT !.pc = "read"] ELSE run[s]]
    /\ UNCHANGED <<outsideSync, index, timeUp, faults>>

ReadPage(t) ==
    /\ run[t].pc = "read" /\ ~timeUp
    /\ \E ids \in Listed(t) :
           LET page == Rows(t, Part(ids, run[t].offset))
               next == IF OfQuestions THEN "eles" ELSE "index" IN
           run' = [run EXCEPT ![t] = [@ EXCEPT !.page = page,
                                           !.pc = IF page = <<>> THEN "done" ELSE next]]
    /\ UNCHANGED <<outsideSync, index, timeUp, faults>>

\* One query for the answers of the page; a question that is gone has none.
ReadEles(t) ==
    LET Filled(e) == [id |-> e.id, doc |-> Doc(e.doc[1], table[t][e.id].ver)]
        page == run[t].page IN
    /\ run[t].pc = "eles" /\ ~timeUp
    /\ run' = [run EXCEPT ![t] = [@ EXCEPT !.page = [i \in DOMAIN page |-> Filled(page[i])],
                                         !.pc = "index"]]
    /\ UNCHANGED <<outsideSync, index, timeUp, faults>>

\* The next row of the page, and the next page after the last.
Onward(r) ==
    IF Len(r.page) > 1 THEN [r EXCEPT !.page = Tail(@), !.offset = @ + 1]
    ELSE [r EXCEPT !.page = <<>>, !.offset = @ + 1, !.pc = "read"]

Index(t) ==
    LET e == Head(run[t].page) IN
    /\ run[t].pc = "index" /\ ~timeUp
    /\ Elastic!Input(Elastic!SyncEvent(t = "pub", e.id, e.doc))
    /\ run' = [run EXCEPT ![t] = Onward(@)]
    /\ UNCHANGED <<outsideSync, timeUp, faults>>

MayFail == timeUp \/ faults < MaxFaults
Failing == faults' = IF timeUp THEN faults ELSE faults + 1

\* A question that cannot be indexed is logged and left out.
IndexFails(t) ==
    /\ OfQuestions
    /\ run[t].pc = "index"
    /\ MayFail /\ Failing
    /\ run' = [run EXCEPT ![t] = [Onward(@) EXCEPT !.whole = FALSE]]
    /\ UNCHANGED <<outsideSync, index, timeUp>>

\* A table that cannot be read ends its sync.
ReadFails(t) ==
    /\ run[t].pc \in {"read", "eles"}
    /\ MayFail /\ Failing
    /\ run' = [run EXCEPT ![t] = [@ EXCEPT !.pc = "failed", !.page = <<>>, !.whole = FALSE]]
    /\ UNCHANGED <<outsideSync, index, timeUp>>

\* Both share the context of ten minutes.
TimesOut ==
    /\ ~timeUp
    /\ faults < MaxFaults
    /\ faults' = faults + 1
    /\ \E t \in Tables : run[t].pc \in {"read", "eles", "index"}
    /\ timeUp' = TRUE
    /\ UNCHANGED <<outsideSync, index, run>>

\* The service of the cases has no logger: an error it wants to log, of a case
\* it could not index or of a sync that failed when both are over, is a panic
\* of a goroutine, and stops the process with all that runs in it.
Panics ==
    /\ ~OfQuestions
    /\ \/ \E t \in Tables : run[t].pc = "index" /\ MayFail /\ Failing
       \/ /\ \E t \in Tables : run[t].pc = "failed"
          /\ \A t \in Tables : run[t].pc \in {"failed", "done"}
          /\ UNCHANGED faults
    /\ run' = [s \in DOMAIN run |-> [Idle EXCEPT !.pc = "stopped", !.whole = FALSE]]
    /\ spoiled' = spoiled \cup {<<"pub", e.id>> : e \in due}
    /\ due' = {}
    /\ upload' = Kb!NoUpload
    /\ broken' = IF upload.pc = "idle" THEN broken ELSE [broken EXCEPT ![upload.id] = @ + 1]
    /\ UNCHANGED <<tables, topic, index, uploads, files, saved, fileId, own, ownUpload,
                   timeUp, deletes, raced, met>>

-----------------------------------------------------------------------------
(* FullSync of the knowledge base *)

outsideKb == <<tables, topic, index, due, timeUp, deletes, spoiled>>

\* Mutant: the ids of all cases.
AllIds == {c \in Ids : draft[c] # NoRow}

\* dao.Ids: the drafts marked as published.
PublishedIds == {c \in Ids : draft[c].live}

FullSync ==
    /\ ~OfQuestions
    /\ AllIdle
    /\ \E ids \in InOrder(PublishedIds, Unordered) :
           run' = [run EXCEPT !["kbase"] = [@ EXCEPT !.page = ids,
                                                !.pc = IF ids = <<>> THEN "done" ELSE "next"]]
    /\ UNCHANGED <<outsideKb, kbVars, own, ownUpload, faults, raced, met>>

\* syncOne reads the draft as it is by now.
SyncOne ==
    LET page == run["kbase"].page
        c == Head(page) IN
    /\ run["kbase"].pc = "next"
    /\ own' = <<UploadOf(c, draft[c])>>
    /\ run' = [run EXCEPT !["kbase"] = [@ EXCEPT !.page = Tail(page), !.pc = "upload"]]
    /\ UNCHANGED <<outsideKb, kbVars, ownUpload, faults, raced, met>>

\* A case that cannot be read is logged and left out.
SyncOneFails ==
    LET rest == Tail(run["kbase"].page) IN
    /\ run["kbase"].pc = "next"
    /\ faults < MaxFaults
    /\ faults' = faults + 1
    /\ run' = [run EXCEPT !["kbase"] = [@ EXCEPT !.page = rest,
                                      !.pc = IF rest = <<>> THEN "done" ELSE "next"]]
    /\ UNCHANGED <<outsideKb, kbVars, own, ownUpload, raced, met>>

\* Two uploads of one case meet.
Meets == upload'.pc # "idle" /\ ownUpload'.pc # "idle" /\ upload'.id = ownUpload'.id
CountMeeting(beginning) ==
    met' = IF beginning /\ Meets THEN [met EXCEPT ![upload'.id] = @ + 1] ELSE met

Over == ownUpload'.pc = "idle" /\ own' = <<>>
AfterOne ==
    run' = IF ~Over THEN run
           ELSE [run EXCEPT !["kbase"] =
                    [@ EXCEPT !.pc = IF run["kbase"].page = <<>> THEN "done" ELSE "next"]]

\* UploadFile, as the consumer does it, in the same tables and on the platform.
UploadOwn ==
    /\ run["kbase"].pc = "upload"
    /\ Own!UploadFile
    /\ AfterOne
    /\ UNCHANGED <<outsideKb, uploads, upload, faults, raced>>
    /\ CountMeeting(own # <<>>)

\* One of the calls fails, or takes more than three seconds: the next case.
UploadOwnFails ==
    /\ run["kbase"].pc = "upload"
    /\ faults < MaxFaults
    /\ faults' = faults + 1
    /\ Own!UploadFails
    /\ AfterOne
    /\ UNCHANGED <<outsideKb, uploads, upload, raced, met>>

\* The consumer of the uploads.
ConsumeUpload ==
    /\ Kb!UploadFile
    /\ UNCHANGED <<outsideKb, own, ownUpload, run, faults, raced>>
    /\ CountMeeting(upload.pc = "idle")

Next ==
    \/ \E q \in Ids : Save(q) \/ Publish(q) \/ Delete(q)
    \/ \E e \in due : SendEvents(e)
    \/ Consume \/ SyncAll
    \/ \E t \in Tables : ReadPage(t) \/ ReadEles(t) \/ Index(t) \/ IndexFails(t) \/ ReadFails(t)
    \/ TimesOut \/ Panics
    \/ FullSync \/ SyncOne \/ SyncOneFails \/ UploadOwn \/ UploadOwnFails \/ ConsumeUpload

Spec == Init /\ [][Next]_fullVars

\* For model checking: the sync of the published table waits for that of the
\* drafts.  They share nothing but editors, who come between any two steps of
\* either, and each property is about one table.
OneByOne ==
    run["draft"].pc \in {"read", "eles", "index"} => run'["pub"].pc \in {run["pub"].pc, "stopped"}

-----------------------------------------------------------------------------
(* Properties *)

TypeOK ==
    /\ draft \in [Ids -> [ver : 0..version, live : BOOLEAN]]
    /\ pub \in [Ids -> [ver : 0..version, live : BOOLEAN]]
    /\ \A t \in Tables : run[t].offset \in 0..(Cardinality(Ids) + deletes)
    /\ \A e \in due : e.ver <= version

Quiet == due = {} /\ topic = <<>>

\* A full sync that went through without a failure or a deletion leaves out no
\* row, whatever is created, saved and published under its offset: every row
\* has the document of its version, unless a commit came between the sync's
\* read of the row and its index call, or the row changed without an event
\* (questionSync, pubQuestionSync, caseSync, pubCaseSync).
NothingIsSkipped ==
    \A t \in Tables :
        (Quiet /\ run[t].pc = "done" /\ run[t].whole)
        => \A q \in RowsOf(t) :
              (<<t, q>> \notin spoiled /\ (t = "pub" => q \notin raced))
              => index[t][q] = Whole(table[t][q])

\* The published index holds only what was published, also when a page is old,
\* but for a question saved between its publication and the read for the live
\* event; and so does the knowledge base, but for a case saved between
\* FullSync's two reads (pubQuestionSync, pubCaseSync, FullSync, syncOne).
DraftsStayPrivate ==
    \A q \in Ids :
        /\ (index["pub"][q] # NoDoc /\ q \notin raced) =>
              index["pub"][q][1] \in published[q] /\ index["pub"][q][2] \in published[q] \cup {0}
        /\ \A f \in files[q] : f[1] \in published[q] \/ q \in raced

\* The platform keeps one file of a case, but for those that a failed upload, or
\* two uploads of the case that met, may leave behind (UploadFile).
FilesAreReplaced ==
    \A c \in Ids : Cardinality(files[c]) <= 1 + broken[c] + met[c]
=============================================================================
