------------------------------- MODULE Project -------------------------------
(***************************************************************************)
(* A project and its parts (internal/project): resumes, difficulties,      *)
(* questions, introductions and combos are rows of their own, saved and    *)
(* published one by one like the project, each in a draft and a published  *)
(* table, by upserts that name the columns they replace.  Every            *)
(* publication then reads the published project, six queries at once, and  *)
(* sends what they found to the search index; readers see the same six     *)
(* queries.                                                                *)
(*                                                                         *)
(* One project is modelled, with at most one part of a kind; the value of  *)
(* a column is the call that wrote it.  Left out: serial numbers,          *)
(* permissions (Access), view counts and the lists.                        *)
(***************************************************************************)
EXTENDS Integers, Sequences, FiniteSets

CONSTANTS
    Parts,           \* the kinds of the parts the project has
    Procs,           \* handlers of the editors
    MaxVersions,     \* bound: calls of Save and Publish
    MaxFaults        \* bound: queries, events, documents that fail

VARIABLES
    draft,           \* the row of each kind in the draft tables, or NoRow
    pub,             \* the same of the published tables
    topic, index,    \* Search
    call,            \* what each process is doing
    version, faults, \* counters for the bounds
    saved, released, \* history: the last call that saved, that published a row
    published,       \* history: the calls that published
    excused          \* history: the document need not follow

history == <<saved, released, published, excused>>
projectVars == <<draft, pub, topic, index, call, version, faults, history>>

Main == "project"               \* the project's own row
Rows == Parts \cup {Main}

\* What an editor writes.
Columns ==
    [project |-> {"title", "labels", "desc", "overview", "githubRepo", "giteeRepo",
                  "refQuestionSet", "codeSPU", "productSPU", "systemDesign"},
     resume |-> {"role", "content", "analysis"},
     introduction |-> {"role", "content", "analysis"},
     difficulty |-> {"title", "content", "analysis"},
     question |-> {"title", "analysis", "answer"},
     combo |-> {"title", "content"}]

NoRow == <<>>
NoDocument == [r \in Rows |-> NoRow]
Idle == [pc |-> "idle", left |-> {}, doc |-> NoDocument]

Unpublished == 1
StatusPublished == 2

Elastic == INSTANCE Search WITH Docs <- {Main}, NoDoc <- NoDocument

Init ==
    /\ draft = [r \in Rows |-> NoRow]
    /\ pub = [r \in Rows |-> NoRow]
    /\ Elastic!SearchInit
    /\ call = [p \in Procs |-> Idle]
    /\ version = 0
    /\ faults = 0
    /\ saved = [r \in Rows |-> 0]
    /\ released = [r \in Rows |-> 0]
    /\ published = {}
    /\ excused = FALSE

Busy == {p \in Procs : call[p] # Idle}

----------------------------------------------------------------------------
(* From the form to the tables, and back *)

\* The form an editor filled in the call v.
toDomain(kind, v) == [c \in Columns[kind] |-> v]

toEntity(d, status, now) ==
    [c \in DOMAIN d \cup {"status", "utime"} |->
        CASE c = "status" -> status [] c = "utime" -> now [] OTHER -> d[c]]

\* The columns that a save replaces in the row of the draft table ...
updateColumns ==
    [project |-> {"title", "status", "labels", "desc", "overview", "githubRepo",
                  "giteeRepo", "refQuestionSet", "codeSPU", "productSPU",
                  "systemDesign", "utime"},
     resume |-> {"role", "content", "analysis", "status", "utime"},
     introduction |-> {"role", "content", "analysis", "status"},
     difficulty |-> {"title", "content", "analysis", "status", "utime"},
     question |-> {"title", "analysis", "answer", "status", "utime"},
     combo |-> {"content", "title", "status", "utime"}]

\* Mutant: a published introduction keeps its analysis.
pubIntroductionKept ==
    [updateColumns EXCEPT !["introduction"] = {"role", "content", "status", "utime"}]

\* ... and that a publication replaces in that of the published one.
pubUpdateColumns == [updateColumns EXCEPT !["introduction"] = @ \cup {"utime"}]

\* INSERT ... ON DUPLICATE KEY UPDATE columns.
Upserted(row, entity, columns) ==
    IF row = NoRow THEN entity
    ELSE [c \in DOMAIN row |-> IF c \in columns THEN entity[c] ELSE row[c]]

save(r, status) ==
    Upserted(draft[r], toEntity(toDomain(r, version'), status, version'), updateColumns[r])

sync(r) ==
    Upserted(pub[r], toEntity(toDomain(r, version'), StatusPublished, version'),
             pubUpdateColumns[r])

\* rsmToDomain, diffToDomain, ...
entityToDomain(kind, row) == [c \in Columns[kind] |-> row[c]]

\* newResume, newDifficulty, ...: what an editor's form shows.
newForm(kind, d) == [c \in Columns[kind] |-> d[c]]

\* The same for readers, whose repository has conversions of its own.
pubToDomain(kind, row) == [c \in Columns[kind] |-> row[c]]

\* What is sent of a row: of the project three columns, of combos nothing.
newDocument(kind, row) ==
    IF row = NoRow \/ kind = "combo" THEN NoRow
    ELSE IF kind = Main
    THEN [c \in {"title", "desc", "labels"} |-> pubToDomain(kind, row)[c]]
    ELSE pubToDomain(kind, row)

----------------------------------------------------------------------------
(* Editors *)

NextVersion == version < MaxVersions /\ version' = version + 1

\* Save, ResumeSave, ...: the draft alone.
Save(r) ==
    /\ NextVersion
    /\ draft' = [draft EXCEPT ![r] = save(r, Unpublished)]
    /\ saved' = [saved EXCEPT ![r] = version']
    /\ UNCHANGED <<pub, topic, index, call, faults, released, published, excused>>

\* Both tables, in one transaction.
Sync(r) ==
    /\ NextVersion
    /\ draft' = [draft EXCEPT ![r] = save(r, StatusPublished)]
    /\ pub' = [pub EXCEPT ![r] = sync(r)]
    /\ saved' = [saved EXCEPT ![r] = version']
    /\ released' = [released EXCEPT ![r] = version']
    /\ published' = published \cup {version'}
    /\ excused' = (Busy # {})
    /\ UNCHANGED <<topic, index, faults>>

Reading == [pc |-> "read", left |-> Rows, doc |-> NoDocument]

\* Mutant: parts are published without telling the search.
PublishUnsynced(p, r) ==
    /\ call[p] = Idle
    /\ Sync(r)
    /\ call' = IF r = Main THEN [call EXCEPT ![p] = Reading] ELSE call

\* Publish, ResumePublish, ...: then syncToSearch starts its queries.
Publish(p, r) ==
    /\ call[p] = Idle
    /\ Sync(r)
    /\ call' = [call EXCEPT ![p] = Reading]

\* The published rows and parts stay.
Delete ==
    /\ draft[Main] # NoRow
    /\ draft' = [draft EXCEPT ![Main] = NoRow]
    /\ saved' = [saved EXCEPT ![Main] = 0]
    /\ UNCHANGED <<pub, topic, index, call, version, faults, released, published, excused>>

----------------------------------------------------------------------------
(* Detail and syncToSearch *)

\* Mutant: what the editors see.
DraftRow(r) == draft[r]

\* A query on a published table; two of the six do not ask for the status.
Published(r) ==
    IF pub[r] # NoRow /\ (r \in {"introduction", "combo"} \/ pub[r]["status"] = StatusPublished)
    THEN pub[r] ELSE NoRow

\* The six queries of Detail come in any order; a project that is not
\* published is not found, and then there is no event.
Query(p) ==
    /\ call[p].pc = "read"
    /\ \E r \in call[p].left :
         LET left == call[p].left \ {r} IN
         IF r = Main /\ Published(r) = NoRow
         THEN call' = [call EXCEPT ![p] = Idle]
         ELSE call' = [call EXCEPT ![p] =
                  [pc |-> IF left = {} THEN "produce" ELSE "read",
                   left |-> left, doc |-> [@.doc EXCEPT ![r] = newDocument(r, Published(r))]]]
    /\ UNCHANGED <<draft, pub, topic, index, version, faults, history>>

\* The event does not say that it is of published content: the index it is for
\* is that of the drafts.
Produce(p) ==
    /\ call[p].pc = "produce"
    /\ Elastic!Produce(Elastic!SyncEvent(FALSE, Main, call[p].doc))
    /\ call' = [call EXCEPT ![p] = Idle]
    /\ UNCHANGED <<draft, pub, index, version, faults, history>>

\* A query or the event fails: logged, and never tried again.
SyncFails(p) ==
    /\ call[p] # Idle
    /\ faults < MaxFaults
    /\ faults' = faults + 1
    /\ call' = [call EXCEPT ![p] = Idle]
    /\ excused' = TRUE
    /\ UNCHANGED <<draft, pub, topic, index, version, saved, released, published>>

Consume ==
    /\ \/ Elastic!Consume /\ UNCHANGED <<faults, excused>>
       \/ /\ Elastic!ConsumeFails
          /\ faults < MaxFaults
          /\ faults' = faults + 1
          /\ excused' = TRUE
    /\ UNCHANGED <<draft, pub, call, version, saved, released, published>>

Next ==
    \/ \E r \in Rows : Save(r)
    \/ \E p \in Procs, r \in Rows : Publish(p, r)
    \/ Delete
    \/ \E p \in Procs : Query(p) \/ Produce(p) \/ SyncFails(p)
    \/ Consume

Spec == Init /\ [][Next]_projectVars

----------------------------------------------------------------------------
Document == index["draft"][Main]

TypeOK ==
    /\ \A r \in Rows : \A row \in {draft[r], pub[r]} :
          row # NoRow => row \in [Columns[r] \cup {"status", "utime"} -> 0..MaxVersions]
    /\ \A r \in Rows : Document[r] # NoRow => DOMAIN Document[r] \subseteq Columns[r]
    /\ version \in 0..MaxVersions /\ faults \in 0..MaxFaults

\* What an editor has only saved is in no document and no event, and in none a
\* reader is on the way to put together (service/admin.go:202).
DraftsStayPrivate ==
    \A doc \in {Document} \cup {call[p].doc : p \in Procs} \cup
               {topic[i].data : i \in DOMAIN topic} :
        \A r \in Rows : \A c \in DOMAIN doc[r] : doc[r][c] \in published

\* A document never runs ahead of the tables, and with every call over and the
\* topic read it is what the tables say of a published project with all of its
\* published parts, also those published before the project was, unless two
\* publications met or a step failed (service/admin.go:73, 141, 202).
DocumentFollows ==
    /\ \A r \in Rows : \A c \in DOMAIN Document[r] : Document[r][c] <= released[r]
    /\ (Busy = {} /\ topic = <<>> /\ ~excused /\ pub[Main] # NoRow) =>
           \A r \in Rows :
              /\ \A c \in DOMAIN Document[r] : Document[r][c] = released[r]
              /\ Document[r] = NoRow <=> released[r] = 0 \/ r = "combo"

\* Whatever was saved and published before, an editor's form shows the last
\* save of a row and a reader the last publication, in every column: none is
\* left from an earlier call (repository/dao/admin.go:78-114, 116-222, 236-348).
FormsAreWhole ==
    \A r \in Rows :
        /\ draft[r] # NoRow =>
              newForm(r, entityToDomain(r, draft[r])) = [c \in Columns[r] |-> saved[r]]
        /\ pub[r] # NoRow => pubToDomain(r, pub[r]) = [c \in Columns[r] |-> released[r]]
=============================================================================
