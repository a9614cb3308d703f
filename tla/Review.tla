------------------------------- MODULE Review -------------------------------
(***************************************************************************)
(* A review of an interview (internal/review): editors save and publish    *)
(* it, readers find it in the cache or in the table of what is published,  *)
(* and both see the company it names, a row of another module              *)
(* (internal/company) that may be renamed or deleted at any time.          *)
(*                                                                         *)
(* One review is modelled.  Left out: its contents, of which a version     *)
(* stands for all; likes, which a reader may or may not be shown.          *)
(***************************************************************************)
EXTENDS Integers, FiniteSets

CONSTANTS
    Procs,         \* editors and readers
    Companies,     \* ids of companies, above 0
    MaxVersions,   \* bound: calls of Save and Publish
    MaxReads,      \* bound: reads
    MaxDeletes,    \* bound: companies deleted
    MaxFaults      \* bound: calls of the cache, of companies and events that fail

VARIABLES
    draft, pub,    \* tables reviews and publish_reviews: the row, or Nothing
    cache,         \* "review:publish:1"
    companies,     \* ids in table companies
    call,
    version, reads, deletes, faults,
    views,         \* events interactive_events of this review
    published,     \* history: what was published
    spoiled,       \* history: an old review was put into the cache, or left there
    meant,         \* history: the company the editor of the draft meant
    unknown        \* history: the draft was saved from a form whose company was not found

reviewVars ==
    <<draft, pub, cache, companies, call, version, reads, deletes, faults, views,
      published, spoiled, meant, unknown>>

Idle == [op |-> "idle"]
NoCompany == 0

toDaoReview(v, cid) == [v |-> v, cid |-> cid]
Nothing == toDaoReview(0, NoCompany)

Init ==
    /\ draft = Nothing /\ pub = Nothing /\ cache = Nothing
    /\ companies = Companies
    /\ call = [p \in Procs |-> Idle]
    /\ version = 0 /\ reads = 0 /\ deletes = 0 /\ faults = 0
    /\ views = 0
    /\ published = {}
    /\ spoiled = FALSE
    /\ meant = NoCompany
    /\ unknown = FALSE

Goto(p, c) == call' = [call EXCEPT ![p] = c]
Return(p) == Goto(p, Idle)
Fail == faults < MaxFaults /\ faults' = faults + 1

counters == <<version, reads, deletes, faults>>
history == <<published, spoiled, meant, unknown>>

-----------------------------------------------------------------------------
(* Companies. *)

\* A row by its id; a new one with the id of an old form.
CompanyRow(c) == companies \cup {c}
DeleteById(c) == companies \ {c}

\* A name is changed, or an id that was deleted comes back from an old form.
SaveCompany ==
    /\ \E c \in Companies \ companies : companies' = CompanyRow(c)
    /\ UNCHANGED <<draft, pub, cache, call, counters, views, history>>

DeleteCompany ==
    /\ deletes < MaxDeletes
    /\ deletes' = deletes + 1
    /\ \E c \in companies : companies' = DeleteById(c)
    /\ UNCHANGED <<draft, pub, cache, call, version, reads, faults, views, history>>

\* The companies that are found; that of one review, or an error that is only
\* logged.
GetByIds(cs) == cs \cap companies
GetById(c) == IF GetByIds({c}) # {} THEN c ELSE NoCompany

-----------------------------------------------------------------------------
(* Editors. *)

Form(meantId, shownId, isLost) ==
    [op |-> "form", meant |-> meantId, cid |-> shownId, lost |-> isLost]

\* A form for the draft, or an empty one.
Info(p) ==
    /\ call[p] = Idle
    /\ version < MaxVersions
    /\ Goto(p, IF draft = Nothing THEN Form(NoCompany, NoCompany, FALSE) ELSE [op |-> "company", row |-> draft])
    /\ UNCHANGED <<draft, pub, cache, companies, counters, views, history>>

\* Mutant: the review without its company.
newReview(row, c) == Form(row.cid, NoCompany, c = NoCompany)

\* The company of the form is the one that was found.
newReviewWithCompany(row, c) == Form(row.cid, c, c = NoCompany)

CompanyOfDraft(p) ==
    /\ call[p].op = "company"
    /\ \/ Goto(p, newReviewWithCompany(call[p].row, GetById(call[p].row.cid))) /\ UNCHANGED faults
       \/ Fail /\ Goto(p, newReviewWithCompany(call[p].row, NoCompany))
    /\ UNCHANGED <<draft, pub, cache, companies, version, reads, deletes, views, history>>

\* The editor leaves the company as it is, or chooses one: what goes into the
\* tables.
Written(p) ==
    /\ call[p].op = "form"
    /\ version < MaxVersions
    /\ version' = version + 1
    /\ \E chosen \in companies \cup {NoCompany} :
         LET cid == IF chosen = NoCompany THEN call[p].cid ELSE chosen
             aim == IF chosen = NoCompany THEN call[p].meant ELSE chosen
         IN  /\ draft' = toDaoReview(version', cid)
             /\ meant' = aim
             /\ unknown' = (chosen = NoCompany /\ call[p].lost)

Save(p) ==
    /\ Written(p)
    /\ Return(p)
    /\ UNCHANGED <<pub, published, cache, companies, reads, deletes, faults, views, spoiled>>

\* Both rows, in one transaction.
Sync(p) ==
    /\ Written(p)
    /\ pub' = draft'
    /\ published' = published \cup {draft'}
    /\ Goto(p, [op |-> "set", row |-> draft'])
    /\ UNCHANGED <<cache, companies, reads, deletes, faults, views, spoiled>>

\* Mutant: the cache keeps the first review it was given.
SetIfAbsent(row) == IF cache = Nothing THEN row ELSE cache

SetReview(row) == row

\* What was published, or read, goes into the cache; an error is only logged.
Cache(p) ==
    /\ call[p].op \in {"set", "fill"}
    /\ \/ /\ cache' = SetReview(call[p].row)
          /\ spoiled' = (call[p].row # pub)
          /\ UNCHANGED faults
       \/ /\ Fail
          /\ spoiled' = (spoiled \/ cache # Nothing)
          /\ UNCHANGED cache
    /\ Goto(p, IF call[p].op = "set" THEN Idle ELSE [op |-> "show", row |-> call[p].row])
    /\ UNCHANGED <<draft, pub, companies, version, reads, deletes, views, published, meant, unknown>>

-----------------------------------------------------------------------------
(* Readers. *)

\* From the cache, or, when it has none or fails, from the table.
PubInfo(p) ==
    /\ call[p] = Idle
    /\ reads < MaxReads
    /\ reads' = reads + 1
    /\ \/ cache # Nothing /\ Goto(p, [op |-> "show", row |-> cache]) /\ UNCHANGED faults
       \/ cache = Nothing /\ Goto(p, [op |-> "table"]) /\ UNCHANGED faults
       \/ Fail /\ Goto(p, [op |-> "table"])
    /\ UNCHANGED <<draft, pub, cache, companies, version, deletes, views, history>>

\* Mutant: the row the editors see.
GetReview(row, other) == other

GetPublishReview(row, other) == row

\* Not found, or read and then cached.
ReadTable(p) ==
    /\ call[p].op = "table"
    /\ LET row == GetPublishReview(pub, draft)
       IN  IF row = Nothing THEN Return(p) ELSE Goto(p, [op |-> "fill", row |-> row])
    /\ UNCHANGED <<draft, pub, cache, companies, counters, views, history>>

\* With its company, and a view is counted, unless the event fails.
PubDetail(p) ==
    /\ call[p].op = "show"
    /\ Return(p)
    /\ \/ views' = views + 1 /\ UNCHANGED faults
       \/ Fail /\ UNCHANGED views
    /\ UNCHANGED <<draft, pub, cache, companies, version, reads, deletes, history>>

\* The table's list, with the companies and counts that are found; it is not
\* cached, and nobody counts views of it.
PubList(p) ==
    /\ call[p] = Idle
    /\ reads < MaxReads
    /\ reads' = reads + 1
    /\ pub # Nothing
    /\ Goto(p, [op |-> "list", row |-> pub])
    /\ UNCHANGED <<draft, pub, cache, companies, version, deletes, faults, views, history>>

Listed(p) ==
    /\ call[p].op = "list"
    /\ Return(p)
    /\ UNCHANGED <<draft, pub, cache, companies, counters, views, history>>

\* Twenty-four hours.
Expire ==
    /\ cache # Nothing
    /\ cache' = Nothing
    /\ spoiled' = FALSE
    /\ UNCHANGED <<draft, pub, companies, call, counters, views, published, meant, unknown>>

Next ==
    \/ SaveCompany \/ DeleteCompany \/ Expire
    \/ \E p \in Procs :
           \/ Info(p) \/ CompanyOfDraft(p) \/ Save(p) \/ Sync(p) \/ Cache(p)
           \/ PubInfo(p) \/ ReadTable(p) \/ PubDetail(p)
           \/ PubList(p) \/ Listed(p)

Spec == Init /\ [][Next]_reviewVars

-----------------------------------------------------------------------------
(* Properties. *)

TypeOK ==
    /\ {draft, pub, cache} \subseteq [v : 0 .. version, cid : Companies \cup {NoCompany}]
    /\ version \in 0 .. MaxVersions /\ reads \in 0 .. MaxReads /\ faults \in 0 .. MaxFaults
    /\ views <= reads

\* With no review on its way to the cache, the cache is empty or says what the
\* table says, unless an older review came there last: a publication or a read
\* that was overtaken, or a newer one that could not be written.  This is so
\* for a day (repository/review.go:76, 104).
CachesShowTheTable ==
    (\A p \in Procs : call[p].op \notin {"set", "fill"}) =>
        cache \in {Nothing, pub} \/ spoiled

\* Readers are shown what was published.
DraftsStayPrivate ==
    /\ cache \in published \cup {Nothing}
    /\ \A p \in Procs : call[p].op \in {"show", "list"} => call[p].row \in published

\* An editor who leaves the company alone does not change it, unless the form
\* came without one: the company was deleted, or could not be looked up when
\* the form was opened (web/admin_handler.go:93).
CompaniesStay == draft.cid = meant \/ unknown
=============================================================================
