------------------------------ MODULE MCContent ------------------------------
(***************************************************************************)
(* What editors write and readers find: questions, cases and projects with *)
(* their caches and documents, the syncs of questions and of relations to  *)
(* the knowledge service, the full syncs of questions and cases to search, *)
(* and what is put together from them: sets of questions and of cases,     *)
(* skills, roadmaps, and reviews with their companies, on small instances. *)
(*                                                                         *)
(* They share no row, so a behaviour runs one of them.  The first half has *)
(* the modules of the catalog, whose own variables are s1 to s12; the      *)
(* second half adds the others.                                            *)
(***************************************************************************)
EXTENDS Integers, Sequences, FiniteSets, TLC

CONSTANTS
    Scenes,                                \* what is played
    Procs,                                 \* editors, readers, requests
    MaxVersions, MaxDeletes, MaxReads, MaxFaults,
    Companies,                             \* Review
    Exercises, Printed, MaxSetCalls,       \* QuestionSet
    Ids, Bizs, DefaultBiz,                 \* Question, Cases
    ProjectParts, ProjectVersions,         \* Project
    QuestionRows, OldQuestions, QuestionCommits,
    CaseRows, OldCases, CaseCommits, SyncedPage   \* FullSync

\* Tables are finite, ids begin at 1, every biz has a name, what is published
\* is there, pages hold a number of rows, and a project has parts of the kinds
\* there are.
ASSUME ContentAssumption ==
    /\ IsFiniteSet(Ids) /\ IsFiniteSet(QuestionRows) /\ IsFiniteSet(CaseRows)
    /\ 0 \notin Ids
    /\ "" \notin Bizs
    /\ Printed \subseteq Exercises
    /\ SyncedPage \in Nat
    /\ ProjectParts \subseteq {"resume", "introduction", "difficulty", "question", "combo"}

VARIABLES
    scene,
    call, calls, moves, faults, topic, index,
    s1, s2, s3, s4, s5, s6, s7, s8, s9, s10, s11, s12

Reviews == INSTANCE Review WITH
    draft <- s1, pub <- s2, cache <- s3, companies <- s4, version <- s5, reads <- s6,
    deletes <- s7, views <- s8, published <- s9, spoiled <- s10, meant <- s11, unknown <- s12

\* A map that is new and one of old edges; an old edge's ends may share an id.
Ref(biz, id) == [biz |-> biz, id |-> id]
Roadmaps == INSTANCE Roadmap WITH
    Maps <- {1, 2}, Existing <- {2},
    BizOf <- <<Ref("questionSet", 1), Ref("tourGuide", 1)>>,
    SetQuestions <- <<{1, 2}>>,
    Legacy <- <<{}, {<<Ref("question", 1), Ref("questionSet", 1)>>,
                     <<Ref("questionSet", 1), Ref("question", 2)>>}>>,
    Known <- {Ref("question", 1), Ref("questionSet", 1), Ref("tourGuide", 1)},
    MaxCalls <- 3, MaxNodes <- 8, MaxFaults <- 1,
    maps <- s1, nodes <- s2, edges <- s3, nodeIds <- s4, edgeIds <- s5,
    migrated <- s6, edited <- s7, gone <- s8, blank <- s9

QuestionSets == INSTANCE QuestionSet WITH
    Questions <- Exercises, Published <- Printed, MaxCalls <- MaxSetCalls, MaxMoves <- 1,
    set <- s1, rows <- s2, questions <- s3, pubQuestions <- s4, late <- s5,
    kept <- s6, sent <- s7, changes <- s8, stale <- s9

CaseSets == INSTANCE CaseSet WITH
    CaseIds <- {1, 2}, Published <- {1}, MaxCalls <- 4, MaxFaults <- 1,
    set <- s1, rows <- s2, records <- s3, results <- s4, charged <- s5, lost <- s6, seen <- s7

\* A skill of nothing, and two that differ in every level.
Chosen(level, kind, id) == [level |-> level, kind |-> kind, rid |-> id]
Thing(kind, id) == [kind |-> kind, rid |-> id]
Skills == INSTANCE Skill WITH
    Forms <- {{}, {Chosen("basic", "question", 1), Chosen("intermediate", "questionSet", 1)},
              {Chosen("advanced", "questionSet", 2), Chosen("basic", "case", 1)}},
    Things <- {Thing("question", 1), Thing("case", 1), Thing("questionSet", 1),
               Thing("questionSet", 2)},
    MaxCalls <- 3, MaxMoves <- 1, MaxFaults <- 1,
    skill <- s1, desc <- s2, refs <- s3, titles <- s4, changes <- s5, chosen <- s6,
    sent <- s7, stale <- s8

-----------------------------------------------------------------------------
slots == <<s1, s2, s3, s4, s5, s6, s7, s8, s9, s10, s11, s12>>

From10 == s10 = 0 /\ s11 = 0 /\ s12 = 0
From9 == s9 = 0 /\ From10
From8 == s8 = 0 /\ From9
NoSlots ==
    /\ s1 = 0 /\ s2 = 0 /\ s3 = 0 /\ s4 = 0 /\ s5 = 0 /\ s6 = 0 /\ s7 = 0 /\ From8

NoTopic == topic = <<>> /\ index = 0

CatalogInit ==
    \/ scene = "review" /\ Reviews!Init /\ calls = 0 /\ moves = 0 /\ NoTopic
    \/ scene = "roadmap" /\ Roadmaps!Init /\ From10 /\ moves = 0 /\ NoTopic
    \/ scene = "questionset" /\ QuestionSets!Init /\ From10
    \/ scene = "caseset" /\ CaseSets!Init /\ From8 /\ moves = 0 /\ NoTopic
    \/ scene = "skill" /\ Skills!Init /\ From9

CatalogNext ==
    \/ scene = "review" /\ Reviews!Next /\ UNCHANGED <<calls, moves, topic, index>>
    \/ scene = "roadmap" /\ Roadmaps!Next /\ UNCHANGED <<moves, topic, index, s10, s11, s12>>
    \/ scene = "questionset" /\ QuestionSets!Next /\ UNCHANGED <<s10, s11, s12>>
    \/ /\ scene = "caseset" /\ CaseSets!Next
       /\ UNCHANGED <<moves, topic, index, s8, s9, s10, s11, s12>>
    \/ scene = "skill" /\ Skills!Next /\ UNCHANGED <<s9, s10, s11, s12>>

\* Skills: three calls, things that disappear and faults together.
CatalogScope == scene = "skill" => calls' + moves' + faults' <= 3

-----------------------------------------------------------------------------
CatalogTypes ==
    /\ scene = "review" => Reviews!TypeOK
    /\ scene = "roadmap" => Roadmaps!TypeOK
    /\ scene = "questionset" => QuestionSets!TypeOK
    /\ scene = "caseset" => CaseSets!TypeOK
    /\ scene = "skill" => Skills!TypeOK

CatalogCaches == scene = "review" => Reviews!CachesShowTheTable

CatalogDrafts ==
    /\ scene = "review" => Reviews!DraftsStayPrivate
    /\ scene = "questionset" => QuestionSets!DraftsStayPrivate

CatalogDocuments ==
    /\ scene = "questionset" => QuestionSets!DocumentFollows
    /\ scene = "skill" => Skills!DocumentFollows

CatalogReferences ==
    /\ scene = "questionset" => QuestionSets!ReferencesHold
    /\ scene = "skill" => Skills!ReferencesHold /\ Skills!TitlesAreShown
    /\ scene = "caseset" => CaseSets!ListsAreWhole /\ CaseSets!ExamsAreRecorded
    /\ scene = "roadmap" => 
           /\ Roadmaps!MigrationKeepsTheGraph /\ Roadmaps!EdgesHaveNodes
           /\ Roadmaps!TitlesAreShown
    /\ scene = "review" => Reviews!CompaniesStay

-----------------------------------------------------------------------------
VARIABLES
    draft, pub, lCache, tCache, version, reads, published, spoiled,
    qCache, created, deletes,
    cCache, uploads, files, saved, upload, fileId, broken, own, ownUpload,
    partSaved, released, excused,
    table, docs, clock, run, hand, first, touched

QuestionPages == INSTANCE Question

\* Two publications of one case, of one biz or of both.
CaseStudies == INSTANCE Cases

\* Of the kinds of parts, those that differ most.
Projects == INSTANCE Project WITH
    Parts <- ProjectParts, MaxVersions <- ProjectVersions, saved <- partSaved

\* Of questions or of cases: three rows at most, one to a page.
OfKind(kind, ofQuestions, ofCases) == IF kind = "question" THEN ofQuestions ELSE ofCases
Syncs(kind) == INSTANCE FullSync WITH
    Kind <- kind, Ids <- OfKind(kind, QuestionRows, CaseRows),
    Existing <- OfKind(kind, OldQuestions, OldCases), PageSize <- SyncedPage,
    MaxVersions <- OfKind(kind, QuestionCommits, CaseCommits),
    due <- s1, run <- s2, timeUp <- s3, raced <- s4, met <- s5

Knowledge == INSTANCE Kbase WITH
    Questions <- {1, 2, 3}, Edges <- {}, Maps <- {}, MapOf <- <<>>,
    PageSize <- 2, BatchSize <- 1, MaxRetries <- 1,
    MaxMoves <- 1, MaxCalls <- 1, MaxFaults <- 2, stamp <- s1

\* Two roadmaps to a page, of one edge and of two.
Relations == INSTANCE Kbase WITH
    Questions <- {}, Edges <- {1, 2, 3}, Maps <- {1, 2, 3}, MapOf <- <<1, 1, 2>>,
    PageSize <- 2, BatchSize <- 1, MaxRetries <- 1,
    MaxMoves <- 1, MaxCalls <- 1, MaxFaults <- 2, stamp <- s1

-----------------------------------------------------------------------------
(* The variables of the scenes that are not played. *)

NoTables ==
    /\ draft = 0 /\ pub = 0 /\ version = 0 /\ published = 0

NoReaders == lCache = 0 /\ tCache = 0 /\ reads = 0 /\ spoiled = 0

NoQuestion == qCache = 0 /\ created = 0 /\ deletes = 0

NoFullSync == own = 0 /\ ownUpload = 0

NoCases ==
    /\ cCache = 0 /\ uploads = 0 /\ files = 0 /\ saved = 0 /\ upload = 0
    /\ fileId = 0 /\ broken = 0 /\ NoFullSync

NoProject == partSaved = 0 /\ released = 0 /\ excused = 0

NoKnowledge ==
    /\ table = 0 /\ docs = 0 /\ clock = 0 /\ run = Knowledge!Fresh /\ hand = 0
    /\ first = 0 /\ touched = 0

NoCalls == calls = 0 /\ moves = 0

questionOnly == <<qCache, created, deletes>>
fullSyncOnly == <<own, ownUpload>>
casesOnly == <<cCache, uploads, files, saved, upload, fileId, broken, fullSyncOnly>>
readersOnly == <<lCache, tCache, reads, spoiled>>
projectOnly == <<partSaved, released, excused>>
knowledgeOnly == <<table, docs, clock, run, hand, first, touched>>
tablesOnly == <<draft, pub, version, published>>
pagesOnly == <<tablesOnly, readersOnly, questionOnly, casesOnly, projectOnly>>

vars == <<pagesOnly, knowledgeOnly, slots, call, calls, moves, faults, topic, index, scene>>

Init ==
    /\ scene \in Scenes
    /\ \/ /\ scene = "question" /\ QuestionPages!Init
          /\ NoCases /\ NoProject /\ NoKnowledge /\ NoCalls /\ NoSlots
       \/ /\ scene = "cases" /\ CaseStudies!Init
          /\ NoQuestion /\ NoFullSync /\ NoProject /\ NoKnowledge /\ NoCalls /\ NoSlots
       \/ /\ scene = "project" /\ Projects!Init
          /\ NoReaders /\ NoQuestion /\ NoCases /\ NoKnowledge /\ NoCalls /\ NoSlots
       \/ /\ \/ scene = "kbase" /\ Knowledge!Init
             \/ scene = "relations" /\ Relations!Init
          /\ call = 0 /\ NoTopic /\ NoTables /\ NoReaders /\ NoQuestion /\ NoCases /\ NoProject
          /\ s2 = 0 /\ s3 = 0 /\ s4 = 0 /\ s5 = 0 /\ s6 = 0 /\ s7 = 0 /\ From8
       \/ /\ \/ scene = "questionsync" /\ Syncs("question")!Init
             \/ scene = "casesync" /\ Syncs("case")!Init
          /\ lCache = 0 /\ tCache = 0 /\ reads = 0 /\ qCache = 0 /\ cCache = 0 /\ call = 0
          /\ NoProject /\ NoKnowledge /\ NoCalls /\ s6 = 0 /\ s7 = 0 /\ From8
       \/ /\ CatalogInit
          /\ NoTables /\ NoReaders /\ NoQuestion /\ NoCases /\ NoProject /\ NoKnowledge

besideKnowledge == <<pagesOnly, s2, s3, s4, s5, s6, s7, s8, s9, s10, s11, s12, call, topic, index, scene>>

besideFullSync == <<lCache, tCache, reads, qCache, cCache, call, projectOnly, knowledgeOnly,
                    calls, moves, s6, s7, s8, s9, s10, s11, s12, scene>>

Next ==
    \/ /\ scene = "question" /\ QuestionPages!Next
       /\ UNCHANGED <<casesOnly, projectOnly, knowledgeOnly, calls, moves, slots, scene>>
    \/ /\ scene = "cases" /\ CaseStudies!Next
       /\ UNCHANGED <<fullSyncOnly, questionOnly, projectOnly, knowledgeOnly, calls, moves, slots, scene>>
    \/ /\ scene = "project" /\ Projects!Next
       /\ UNCHANGED <<readersOnly, questionOnly, casesOnly, knowledgeOnly, calls, moves, slots, scene>>
    \/ /\ \/ scene = "kbase" /\ Knowledge!Next
          \/ scene = "relations" /\ Relations!Next
       /\ UNCHANGED besideKnowledge
    \/ /\ \/ scene = "questionsync" /\ Syncs("question")!Next
          \/ scene = "casesync" /\ Syncs("case")!Next
       /\ UNCHANGED besideFullSync
    \/ CatalogNext /\ UNCHANGED <<pagesOnly, knowledgeOnly, scene>>

\* A sync of the knowledge service goes on as long as the service does not fail.
SyncStep ==
    /\ \/ scene = "kbase" /\ Knowledge!Sync
       \/ scene = "relations" /\ Relations!Sync
    /\ UNCHANGED besideKnowledge

Spec == Init /\ [][Next]_vars /\ WF_vars(SyncStep)

\* Questions: three calls, or two and a fault; during a full sync, two saves, a
\* save and a deletion, or one of them and a fault.
Scope ==
    /\ scene = "question" => version' + deletes' + reads' + faults' <= 3
    /\ scene = "questionsync" => Syncs("question")!OneByOne /\ version' + deletes' + faults' <= 4
    /\ scene = "casesync" => Syncs("case")!OneByOne /\ version' + faults' <= 3
    /\ CatalogScope

\* In these scenes the consumers are faster than the calls: what they do
\* depends on the topics alone.
ConsumeFirst ==
    scene \in {"question", "cases", "questionset", "skill", "questionsync", "casesync"} =>
        /\ topic # <<>> => Len(topic') < Len(topic)
        /\ (scene = "cases" /\ topic = <<>> /\ (uploads # <<>> \/ upload.pc # "idle"))
           => upload' # upload

-----------------------------------------------------------------------------
\* The type invariants of the modules.
TypeOK ==
    /\ CatalogTypes
    /\ scene = "question" => QuestionPages!TypeOK
    /\ scene = "cases" => CaseStudies!TypeOK
    /\ scene = "project" => Projects!TypeOK
    /\ scene = "kbase" => Knowledge!TypeOK
    /\ scene = "relations" => Relations!TypeOK
    /\ scene = "questionsync" => Syncs("question")!TypeOK
    /\ scene = "casesync" => Syncs("case")!TypeOK

\* Once nobody is about to refresh an entry, Redis holds what the table says or
\* nothing, but for the stale fills the modules name (CachesShowTheTable of
\* questions, cases and reviews).
CachesShowTheTable ==
    /\ CatalogCaches
    /\ scene = "question" => QuestionPages!CachesShowTheTable
    /\ scene = "cases" => CaseStudies!CachesShowTheTable

\* Nothing is shown that was not published (DraftsStayPrivate of questions,
\* cases, projects, reviews, question sets and full syncs), and what is shown
\* can still be edited (Question!PublishedIsLive).
DraftsStayPrivate ==
    /\ CatalogDrafts
    /\ scene = "question" => QuestionPages!DraftsStayPrivate /\ QuestionPages!PublishedIsLive
    /\ scene = "cases" => CaseStudies!DraftsStayPrivate
    /\ scene = "project" => Projects!DraftsStayPrivate
    /\ scene = "questionsync" => Syncs("question")!DraftsStayPrivate
    /\ scene = "casesync" => Syncs("case")!DraftsStayPrivate

\* Search documents and knowledge base files end up with the last publication
\* (DocumentsFollow of questions and cases, DocumentFollows of projects,
\* question sets and skills, KnowledgeBase!OneFile).
DocumentsFollow ==
    /\ CatalogDocuments
    /\ scene = "question" => QuestionPages!DocumentsFollow
    /\ scene = "cases" => CaseStudies!DocumentsFollow /\ CaseStudies!OneFile
    /\ scene = "project" => Projects!DocumentFollows
    /\ scene = "casesync" => Syncs("case")!FilesAreReplaced

\* What is put together stays whole: no set, skill, map, review or form names,
\* or is shown, another thing than the one somebody chose (ReferencesHold of
\* question sets and skills, Skill!TitlesAreShown, CaseSet!ListsAreWhole and
\* ExamsAreRecorded, Roadmap!MigrationKeepsTheGraph and EdgesHaveNodes,
\* Review!CompaniesStay, Project!FormsAreWhole).
ReferencesHold ==
    /\ CatalogReferences
    /\ scene = "project" => Projects!FormsAreWhole

\* NothingIsSkipped of the syncs: Kbase's, and the full syncs of questions and cases.
NothingIsSkipped ==
    /\ scene = "kbase" => Knowledge!NothingIsSkipped
    /\ scene = "relations" => Relations!NothingIsSkipped
    /\ scene = "questionsync" => Syncs("question")!NothingIsSkipped
    /\ scene = "casesync" => Syncs("case")!NothingIsSkipped

\* Kbase!SyncEnds.
SyncEnds == Knowledge!SyncEnds
=============================================================================
