---------------------------- MODULE ContentProofs ----------------------------
(***************************************************************************)
(* Proofs about the scenes of MCContent in which readers are shown what    *)
(* editors wrote: that caches show the tables, and that drafts stay where  *)
(* they are.                                                               *)
(***************************************************************************)
EXTENDS MCContent, FiniteSetTheorems, TLAPS

-----------------------------------------------------------------------------
(***************************************************************************)
(* Reviews.                                                                *)
(***************************************************************************)
\* What a call holds came from the published table or from the cache.
ReviewInv ==
    /\ DOMAIN call = Procs
    /\ s10 \in BOOLEAN
    /\ {s2, s3} \subseteq s9 \cup {Reviews!Nothing}
    /\ \A p \in Procs :
           call[p].op \in {"set", "fill", "show", "list"} => call[p].row \in s9
    /\ Reviews!CachesShowTheTable

LEMMA ReviewInit == Reviews!Init => ReviewInv
<1> SUFFICES ASSUME Reviews!Init PROVE ReviewInv
  OBVIOUS
<1>1. DOMAIN call = Procs /\ \A p \in Procs : call[p].op = "idle"
  BY DEF Reviews!Init, Reviews!Idle
<1>2. s2 = Reviews!Nothing /\ s3 = Reviews!Nothing /\ s9 = {} /\ s10 = FALSE
  BY DEF Reviews!Init
<1> QED
  BY <1>1, <1>2 DEF ReviewInv, Reviews!CachesShowTheTable

\* The other calls hold what they held.
LEMMA ReviewGoes ==
    ASSUME ReviewInv, NEW p \in Procs, NEW c, Reviews!Goto(p, c),
           c.op \in {"set", "fill", "show", "list"} => c.row \in s9',
           s9 \subseteq s9'
    PROVE  /\ DOMAIN call' = Procs
           /\ \A q \in Procs :
                  call'[q].op \in {"set", "fill", "show", "list"} => call'[q].row \in s9'
           /\ call'[p] = c
           /\ \A q \in Procs \ {p} : call'[q] = call[q]
BY DEF ReviewInv, Reviews!Goto

\* A step that touches neither the published table nor the cache.
LEMMA ReviewLooks ==
    ASSUME ReviewInv, NEW p \in Procs, NEW c, Reviews!Goto(p, c),
           call[p].op \notin {"set", "fill"},
           c.op \in {"set", "fill", "show", "list"} => c.row \in s9,
           s2' = s2, s3' = s3, s9' = s9, s10' = s10
    PROVE  ReviewInv'
<1>1. /\ DOMAIN call' = Procs
      /\ \A q \in Procs :
             call'[q].op \in {"set", "fill", "show", "list"} => call'[q].row \in s9'
      /\ \A q \in Procs \ {p} : call'[q] = call[q]
  BY ReviewGoes
<1>2. Reviews!CachesShowTheTable'
  BY <1>1 DEF ReviewInv, Reviews!CachesShowTheTable
<1> QED
  BY <1>1, <1>2 DEF ReviewInv

LEMMA ReviewNext == ReviewInv /\ [Reviews!Next]_Reviews!reviewVars => ReviewInv'
<1> SUFFICES ASSUME ReviewInv, [Reviews!Next]_Reviews!reviewVars PROVE ReviewInv'
  OBVIOUS
<1> USE DEF Reviews!counters, Reviews!history
<1>1. CASE UNCHANGED Reviews!reviewVars
  BY <1>1 DEF Reviews!reviewVars, ReviewInv, Reviews!CachesShowTheTable
<1>2. CASE Reviews!SaveCompany \/ Reviews!DeleteCompany
  BY <1>2 DEF Reviews!SaveCompany, Reviews!DeleteCompany, ReviewInv, Reviews!CachesShowTheTable
<1>3. CASE Reviews!Expire
  BY <1>3 DEF Reviews!Expire, ReviewInv, Reviews!CachesShowTheTable
<1>4. ASSUME NEW p \in Procs, Reviews!Info(p) PROVE ReviewInv'
  <2> DEFINE c == IF s1 = Reviews!Nothing
                  THEN Reviews!Form(Reviews!NoCompany, Reviews!NoCompany, FALSE)
                  ELSE [op |-> "company", row |-> s1]
  <2>1. Reviews!Goto(p, c) /\ s2' = s2 /\ s3' = s3 /\ s9' = s9 /\ s10' = s10
    BY <1>4 DEF Reviews!Info
  <2>2. call[p].op = "idle" /\ c.op \in {"form", "company"}
    BY <1>4 DEF Reviews!Info, Reviews!Idle, Reviews!Form
  <2> HIDE DEF c
  <2> QED
    BY <2>1, <2>2, ReviewLooks
<1>5. ASSUME NEW p \in Procs, Reviews!CompanyOfDraft(p) PROVE ReviewInv'
  BY <1>5, ReviewLooks DEF Reviews!CompanyOfDraft, Reviews!newReviewWithCompany, Reviews!Form
<1>6. ASSUME NEW p \in Procs, Reviews!Save(p) PROVE ReviewInv'
  BY <1>6, ReviewLooks DEF Reviews!Save, Reviews!Written, Reviews!Return, Reviews!Idle
<1>7. ASSUME NEW p \in Procs, Reviews!Sync(p) PROVE ReviewInv'
  <2> DEFINE c == [op |-> "set", row |-> s1']
  <2>1. /\ Reviews!Goto(p, c) /\ s2' = s1' /\ s9' = s9 \cup {s1'}
        /\ s3' = s3 /\ s10' = s10
    BY <1>7 DEF Reviews!Sync
  <2>2. /\ DOMAIN call' = Procs
        /\ \A q \in Procs :
               call'[q].op \in {"set", "fill", "show", "list"} => call'[q].row \in s9'
        /\ call'[p] = c
    BY <2>1, ReviewGoes
  <2> QED
    BY <2>1, <2>2 DEF ReviewInv, Reviews!CachesShowTheTable
<1>8. ASSUME NEW p \in Procs, Reviews!Cache(p) PROVE ReviewInv'
  <2>1. /\ call[p].op \in {"set", "fill"} /\ call[p].row \in s9
        /\ s2' = s2 /\ s9' = s9
        /\ \/ s3' = call[p].row /\ s10' = (call[p].row # s2)
           \/ s3' = s3 /\ s10' = (s10 \/ s3 # Reviews!Nothing)
    BY <1>8 DEF Reviews!Cache, Reviews!SetReview, ReviewInv
  <2> DEFINE c == IF call[p].op = "set" THEN Reviews!Idle ELSE [op |-> "show", row |-> call[p].row]
  <2>2. Reviews!Goto(p, c) /\ (c.op \in {"set", "fill", "show", "list"} => c.row \in s9')
    BY <1>8, <2>1 DEF Reviews!Cache, Reviews!Idle
  <2>3. /\ DOMAIN call' = Procs
        /\ \A q \in Procs :
               call'[q].op \in {"set", "fill", "show", "list"} => call'[q].row \in s9'
    <3> HIDE DEF c
    <3> QED BY <2>1, <2>2, ReviewGoes
  <2>4. s3' \in {Reviews!Nothing, s2'} \/ s10'
    BY <2>1
  <2> QED
    BY <2>1, <2>3, <2>4 DEF ReviewInv, Reviews!CachesShowTheTable
<1>9. ASSUME NEW p \in Procs, Reviews!PubInfo(p) PROVE ReviewInv'
  BY <1>9, ReviewLooks DEF Reviews!PubInfo, Reviews!Idle, ReviewInv
<1>10. ASSUME NEW p \in Procs, Reviews!ReadTable(p) PROVE ReviewInv'
  <2> DEFINE c == IF s2 = Reviews!Nothing THEN Reviews!Idle ELSE [op |-> "fill", row |-> s2]
  <2>1. /\ Reviews!Goto(p, c) /\ call[p].op = "table"
        /\ s2' = s2 /\ s3' = s3 /\ s9' = s9 /\ s10' = s10
    BY <1>10 DEF Reviews!ReadTable, Reviews!GetPublishReview, Reviews!Return
  <2>2. c.op \in {"set", "fill", "show", "list"} => c.row \in s9
    BY DEF ReviewInv, Reviews!Idle
  <2> HIDE DEF c
  <2> QED
    BY <2>1, <2>2, ReviewLooks
<1>11. ASSUME NEW p \in Procs, Reviews!PubDetail(p) \/ Reviews!Listed(p) PROVE ReviewInv'
  BY <1>11, ReviewLooks DEF Reviews!PubDetail, Reviews!Listed, Reviews!Return, Reviews!Idle
<1>12. ASSUME NEW p \in Procs, Reviews!PubList(p) PROVE ReviewInv'
  BY <1>12, ReviewLooks DEF Reviews!PubList, Reviews!Idle, ReviewInv
<1> QED
  BY <1>1, <1>2, <1>3, <1>4, <1>5, <1>6, <1>7, <1>8, <1>9, <1>10, <1>11, <1>12
     DEF Reviews!Next

LEMMA ReviewIsRight == ReviewInv => Reviews!CachesShowTheTable /\ Reviews!DraftsStayPrivate
BY DEF ReviewInv, Reviews!DraftsStayPrivate

-----------------------------------------------------------------------------
(***************************************************************************)
(* Questions.                                                              *)
(***************************************************************************)
QuestionOps == {"idle", "save", "publish", "delete", "detail", "list", "count"}

QuestionPcs == {"idle", "tx", "del", "row", "eles", "set", "list", "setList", "total", "setTotal",
                "draft", "draftEles", "produce", "live"}

\* A call on a page has no id, and one on a question may have no biz.
QuestionIds == Ids \cup {0}
QuestionBizs == Bizs \cup {""}

QuestionRow ==
    {row \in [ver : Nat, biz : QuestionBizs, live : BOOLEAN] :
         row = QuestionPages!NoRow \/ row.biz \in Bizs}

QuestionCall == [op : QuestionOps, pc : QuestionPcs, id : QuestionIds, biz : QuestionBizs,
                 pair : Nat \X Nat, list : SUBSET (Ids \X Nat), num : Nat]

QuestionType ==
    /\ draft \in [Ids -> QuestionRow] /\ pub \in [Ids -> QuestionRow]
    /\ qCache \in [Ids -> Nat \X Nat]
    /\ DOMAIN lCache = Bizs /\ DOMAIN tCache = Bizs
    /\ call \in [Procs -> QuestionCall]
    /\ published \in [Ids -> SUBSET Nat]
    /\ version \in Nat

\* Versions that were published.
PairShown(q, pair) == pair[1] \in published[q] /\ pair[2] \in published[q] \cup {0}
PageShown(list) == \A e \in list : e[1] \in Ids /\ e[2] \in published[e[1]]

\* What a call is about, and what it has in hand for a cache.
QuestionHolds(c) ==
    /\ c.pc \in {"tx", "del"} => c.op = "delete"
    /\ c.pc \in {"row", "eles", "set"} => c.op \in {"publish", "detail"}
    /\ c.pc \in {"draft", "draftEles"} => c.op \in {"save", "publish"}
    /\ c.pc \in {"list", "setList"} => c.op \in {"publish", "delete", "list"}
    /\ c.op \in {"save", "publish", "delete", "detail"} => c.id \in Ids
    /\ c.op \in {"publish", "delete", "list"} => c.biz \in Bizs
    /\ c.pc \in {"eles", "set"} => PairShown(c.id, c.pair)
    /\ c.pc = "setList" => PageShown(c.list)

RowsArePublished ==
    \A q \in Ids : pub[q] = QuestionPages!NoRow \/ (pub[q].ver \in published[q] /\ pub[q].biz \in Bizs)

QuestionDrafts ==
    /\ \A q \in Ids : qCache[q] # QuestionPages!NoPair => PairShown(q, qCache[q])
    /\ \A b \in Bizs : lCache[b] # QuestionPages!NoList => PageShown(lCache[b])

\* A call that will still bring the entry up to date ...
QuestionBusy(c, q) ==
    c.id = q /\ (c.pc \in {"eles", "set", "del"} \/ (c.pc = "row" /\ pub[q] # QuestionPages!NoRow))
ListBusy(c, b) ==
    /\ c.op \in {"publish", "delete"} /\ c.biz = b
    /\ c.pc \in {"row", "eles", "set", "del", "list", "setList"}
TotalBusy(c, b) ==
    /\ c.op = "publish" /\ c.biz = b
    /\ c.pc \in {"row", "eles", "set", "list", "setList", "total", "setTotal"}

\* ... and what a call has in hand is what the table holds.
QuestionFits(c, q) ==
    c.id = q => /\ c.pc = "eles" => c.pair = <<pub[q].ver, 0>>
                /\ c.pc = "set" => c.pair = QuestionPages!Pair(pub[q])
ListFits(c, b) == (c.biz = b /\ c.pc = "setList") => c.list = QuestionPages!PubList(b)
TotalFits(c, b) == (c.biz = b /\ c.pc = "setTotal") => c.num = QuestionPages!PubCount(b)

QuestionCached(q) ==
    <<"question", q>> \notin spoiled =>
        /\ \A p \in Procs : QuestionFits(call[p], q)
        /\ (\A p \in Procs : ~QuestionBusy(call[p], q)) =>
               qCache[q] \in {QuestionPages!NoPair, QuestionPages!Pair(pub[q])}
ListCached(b) ==
    <<"list", b>> \notin spoiled =>
        /\ \A p \in Procs : ListFits(call[p], b)
        /\ (\A p \in Procs : ~ListBusy(call[p], b)) =>
               lCache[b] \in {QuestionPages!NoList, QuestionPages!PubList(b)}
TotalCached(b) ==
    <<"total", b>> \notin spoiled =>
        /\ \A p \in Procs : TotalFits(call[p], b)
        /\ (\A p \in Procs : ~TotalBusy(call[p], b)) =>
               tCache[b] \in {QuestionPages!Miss, QuestionPages!PubCount(b)}

QuestionInv ==
    /\ QuestionType
    /\ \A p \in Procs : QuestionHolds(call[p])
    /\ RowsArePublished
    /\ QuestionDrafts
    /\ QuestionPages!PublishedIsLive
    /\ \A q \in Ids : QuestionCached(q)
    /\ \A b \in Bizs : ListCached(b) /\ TotalCached(b)

LEMMA QuestionInit == QuestionPages!Init => QuestionInv
<1> SUFFICES ASSUME QuestionPages!Init PROVE QuestionInv
  OBVIOUS
<1> USE DEF QuestionPages!Init, QuestionPages!NoRow, QuestionPages!NoPair, QuestionPages!Idle
<1>1. QuestionType
  BY DEF QuestionType, QuestionRow, QuestionCall, QuestionIds, QuestionBizs, QuestionOps, QuestionPcs
<1>2. \A p \in Procs : call[p].op = "idle" /\ call[p].pc = "idle" /\ QuestionHolds(call[p])
  BY DEF QuestionHolds
<1>3. RowsArePublished /\ QuestionDrafts /\ QuestionPages!PublishedIsLive
  BY DEF RowsArePublished, QuestionDrafts, QuestionPages!PublishedIsLive
<1>4. \A q \in Ids : QuestionCached(q)
  BY <1>2 DEF QuestionCached, QuestionFits
<1>5. \A b \in Bizs : ListCached(b) /\ TotalCached(b)
  BY <1>2 DEF ListCached, ListFits, TotalCached, TotalFits
<1> QED
  BY <1>1, <1>2, <1>3, <1>4, <1>5 DEF QuestionInv

-----------------------------------------------------------------------------
(* What a step does to one entry it leaves alone. *)

LEMMA QuestionStays ==
    ASSUME NEW q \in Ids, QuestionCached(q), NEW p \in Procs, NEW c, DOMAIN call = Procs,
           call' = [call EXCEPT ![p] = c],
           pub'[q] = pub[q], qCache'[q] = qCache[q],
           <<"question", q>> \in spoiled => <<"question", q>> \in spoiled',
           \/ <<"question", q>> \in spoiled'
           \/ QuestionFits(c, q) /\ (QuestionBusy(call[p], q) => QuestionBusy(c, q))
    PROVE  QuestionCached(q)'
<1>1. call'[p] = c /\ \A r \in Procs \ {p} : call'[r] = call[r]
  OBVIOUS
<1> QED
  BY <1>1 DEF QuestionCached, QuestionFits, QuestionBusy, QuestionPages!Pair

LEMMA ListStays ==
    ASSUME NEW b \in Bizs, ListCached(b), NEW p \in Procs, NEW c, DOMAIN call = Procs,
           call' = [call EXCEPT ![p] = c],
           QuestionPages!PubList(b)' = QuestionPages!PubList(b), lCache'[b] = lCache[b],
           <<"list", b>> \in spoiled => <<"list", b>> \in spoiled',
           \/ <<"list", b>> \in spoiled'
           \/ ListFits(c, b) /\ (ListBusy(call[p], b) => ListBusy(c, b))
    PROVE  ListCached(b)'
<1>1. call'[p] = c /\ \A r \in Procs \ {p} : call'[r] = call[r]
  OBVIOUS
<1> QED
  BY <1>1 DEF ListCached, ListFits, ListBusy

LEMMA TotalStays ==
    ASSUME NEW b \in Bizs, TotalCached(b), NEW p \in Procs, NEW c, DOMAIN call = Procs,
           call' = [call EXCEPT ![p] = c],
           QuestionPages!PubCount(b)' = QuestionPages!PubCount(b), tCache'[b] = tCache[b],
           <<"total", b>> \in spoiled => <<"total", b>> \in spoiled',
           \/ <<"total", b>> \in spoiled'
           \/ TotalFits(c, b) /\ (TotalBusy(call[p], b) => TotalBusy(c, b))
    PROVE  TotalCached(b)'
<1>1. call'[p] = c /\ \A r \in Procs \ {p} : call'[r] = call[r]
  OBVIOUS
<1> QED
  BY <1>1 DEF TotalCached, TotalFits, TotalBusy

\* What a call takes to its next step.
QuestionKeepsOn(p, c) ==
    /\ \A q \in Ids : \/ <<"question", q>> \in spoiled'
                      \/ QuestionFits(c, q) /\ (QuestionBusy(call[p], q) => QuestionBusy(c, q))
    /\ \A b \in Bizs : /\ \/ <<"list", b>> \in spoiled'
                          \/ ListFits(c, b) /\ (ListBusy(call[p], b) => ListBusy(c, b))
                       /\ \/ <<"total", b>> \in spoiled'
                          \/ TotalFits(c, b) /\ (TotalBusy(call[p], b) => TotalBusy(c, b))

\* Entries and tables after a step, of which the rest is shown already.
LEMMA QuestionTurns ==
    ASSUME QuestionInv, NEW p \in Procs, NEW c \in QuestionCall, QuestionHolds(c),
           call' = [call EXCEPT ![p] = c],
           draft' \in [Ids -> QuestionRow], version' \in Nat, QuestionPages!PublishedIsLive',
           pub' = pub, published' = published,
           qCache' \in [Ids -> Nat \X Nat], DOMAIN lCache' = Bizs, DOMAIN tCache' = Bizs,
           QuestionDrafts',
           \A q \in Ids : QuestionCached(q)',
           \A b \in Bizs : ListCached(b)' /\ TotalCached(b)'
    PROVE  QuestionInv'
<1>1. QuestionType'
  BY DEF QuestionInv, QuestionType
<1>2. \A r \in Procs : QuestionHolds(call[r])'
  BY DEF QuestionInv, QuestionType, QuestionHolds, PairShown, PageShown
<1>3. RowsArePublished'
  BY DEF QuestionInv, RowsArePublished
<1> QED
  BY <1>1, <1>2, <1>3 DEF QuestionInv

\* A published table that stays leaves its pages and totals.
LEMMA SamePages ==
    ASSUME pub' = pub, NEW b
    PROVE  /\ QuestionPages!PubList(b)' = QuestionPages!PubList(b)
           /\ QuestionPages!PubCount(b)' = QuestionPages!PubCount(b)
BY DEF QuestionPages!PubList, QuestionPages!PubCount

\* A step that touches no published row and no entry.
LEMMA QuestionGoes ==
    ASSUME QuestionInv, NEW p \in Procs, NEW c \in QuestionCall, QuestionHolds(c),
           call' = [call EXCEPT ![p] = c],
           draft' \in [Ids -> QuestionRow], version' \in Nat, QuestionPages!PublishedIsLive',
           pub' = pub, published' = published,
           qCache' = qCache, lCache' = lCache, tCache' = tCache, spoiled \subseteq spoiled',
           QuestionKeepsOn(p, c)
    PROVE  QuestionInv'
<1>1. DOMAIN call = Procs
  BY DEF QuestionInv, QuestionType
<1>2. \A q \in Ids : QuestionCached(q)'
  BY <1>1, QuestionStays DEF QuestionInv, QuestionKeepsOn
<1>3. \A b \in Bizs : ListCached(b)' /\ TotalCached(b)'
  BY <1>1, SamePages, ListStays, TotalStays DEF QuestionInv, QuestionKeepsOn
<1>4. QuestionDrafts'
  BY DEF QuestionInv, QuestionDrafts, PairShown, PageShown
<1>5. qCache' \in [Ids -> Nat \X Nat] /\ DOMAIN lCache' = Bizs /\ DOMAIN tCache' = Bizs
  BY DEF QuestionInv, QuestionType
<1> QED
  BY <1>2, <1>3, <1>4, <1>5, QuestionTurns

LEMMA QuestionLooks ==
    ASSUME QuestionInv, NEW p \in Procs, NEW c \in QuestionCall, QuestionHolds(c),
           call' = [call EXCEPT ![p] = c],
           draft' = draft, pub' = pub, published' = published, version' = version,
           qCache' = qCache, lCache' = lCache, tCache' = tCache, spoiled \subseteq spoiled',
           QuestionKeepsOn(p, c)
    PROVE  QuestionInv'
<1>1. draft' \in [Ids -> QuestionRow] /\ version' \in Nat /\ QuestionPages!PublishedIsLive'
  BY DEF QuestionInv, QuestionType, QuestionPages!PublishedIsLive
<1> QED
  BY <1>1, QuestionGoes

-----------------------------------------------------------------------------
(* The steps of a call. *)

\* A call that begins.
QuestionBegun(op, pc, q, b) ==
    [QuestionPages!Idle EXCEPT !.op = op, !.pc = pc, !.id = q, !.biz = b]

LEMMA QuestionBegins ==
    ASSUME QuestionInv, NEW p \in Procs, NEW op \in QuestionOps, NEW pc \in QuestionPcs,
           NEW q \in QuestionIds, NEW b \in QuestionBizs,
           QuestionPages!Begin(p, op, pc, q, b)
    PROVE  LET c == QuestionBegun(op, pc, q, b)
           IN  /\ c \in QuestionCall
               /\ call[p].op = "idle"
               /\ call' = [call EXCEPT ![p] = c]
               /\ c.op = op /\ c.pc = pc /\ c.id = q /\ c.biz = b
<1>1. QuestionPages!Idle \in QuestionCall
  BY DEF QuestionPages!Idle, QuestionPages!NoPair, QuestionCall, QuestionIds, QuestionBizs,
     QuestionOps, QuestionPcs
<1> DEFINE c == QuestionBegun(op, pc, q, b)
<1>2. c \in QuestionCall /\ c.op = op /\ c.pc = pc /\ c.id = q /\ c.biz = b
  BY <1>1 DEF QuestionBegun, QuestionCall
<1>3. call[p].op = "idle" /\ call' = [call EXCEPT ![p] = c]
  BY DEF QuestionPages!Begin, QuestionBegun
<1> HIDE DEF c
<1> QED
  BY <1>2, <1>3 DEF c

\* A call that has done nothing is not on its way to any entry, one that is
\* over has nothing in hand, and one that goes on has what it had.
LEMMA IdleIsFree ==
    ASSUME NEW p \in Procs, call[p].op = "idle", QuestionHolds(call[p])
    PROVE  /\ \A q \in Ids : ~QuestionBusy(call[p], q)
           /\ \A b \in Bizs : ~ListBusy(call[p], b) /\ ~TotalBusy(call[p], b)
BY DEF QuestionHolds, QuestionBusy, ListBusy, TotalBusy

LEMMA DoneIsFree ==
    /\ QuestionPages!Idle \in QuestionCall
    /\ QuestionHolds(QuestionPages!Idle)
    /\ \A q \in Ids : QuestionFits(QuestionPages!Idle, q)
    /\ \A b \in Bizs : ListFits(QuestionPages!Idle, b) /\ TotalFits(QuestionPages!Idle, b)
BY DEF QuestionPages!Idle, QuestionPages!NoPair, QuestionCall, QuestionIds, QuestionBizs,
     QuestionOps, QuestionPcs,
       QuestionHolds, QuestionFits, ListFits, TotalFits

QuestionAt(p, pc) == [call[p] EXCEPT !.pc = pc]

LEMMA QuestionGoto ==
    ASSUME QuestionInv, NEW p \in Procs, NEW pc \in QuestionPcs, QuestionPages!Goto(p, pc)
    PROVE  LET c == QuestionAt(p, pc)
           IN  /\ c \in QuestionCall
               /\ call' = [call EXCEPT ![p] = c]
               /\ c.pc = pc /\ c.op = call[p].op /\ c.id = call[p].id /\ c.biz = call[p].biz
               /\ c.pair = call[p].pair /\ c.list = call[p].list /\ c.num = call[p].num
<1> DEFINE c == QuestionAt(p, pc)
<1>1. call[p] \in QuestionCall
  BY DEF QuestionInv, QuestionType
<1>2. /\ c \in QuestionCall
      /\ c.pc = pc /\ c.op = call[p].op /\ c.id = call[p].id /\ c.biz = call[p].biz
      /\ c.pair = call[p].pair /\ c.list = call[p].list /\ c.num = call[p].num
  BY <1>1 DEF QuestionCall, QuestionAt
<1>3. call' = [call EXCEPT ![p] = c]
  BY DEF QuestionPages!Goto, QuestionAt
<1> HIDE DEF c
<1> QED
  BY <1>2, <1>3 DEF c

LEMMA SaveKeeps ==
    ASSUME QuestionInv, NEW p \in Procs, NEW q \in Ids, NEW b \in Bizs, QuestionPages!Save(p, q, b)
    PROVE  QuestionInv'
<1>0. /\ QuestionPages!Begin(p, "save", "draft", q, b)
      /\ "save" \in QuestionOps /\ "draft" \in QuestionPcs /\ q \in QuestionIds /\ b \in QuestionBizs
  BY DEF QuestionIds, QuestionBizs, QuestionPages!Save, QuestionOps, QuestionPcs
<1>c. PICK c : c = QuestionBegun("save", "draft", q, b)
  OBVIOUS
<1>1. /\ c \in QuestionCall /\ call[p].op = "idle" /\ call' = [call EXCEPT ![p] = c]
      /\ c.op = "save" /\ c.pc = "draft" /\ c.id = q /\ c.biz = b
  BY <1>0, <1>c, QuestionBegins
<1>2. /\ pub' = pub /\ published' = published /\ spoiled \subseteq spoiled'
      /\ qCache' = qCache /\ lCache' = lCache /\ tCache' = tCache
  BY DEF QuestionPages!Save
<1>3. /\ draft' \in [Ids -> QuestionRow] /\ version' \in Nat
      /\ \A r \in Ids : draft'[r] = draft[r] \/ ~draft'[r].live
  <2> DEFINE row == QuestionPages!Row(version + 1, b, FALSE)
  <2>0. version \in Nat /\ version' = version + 1
    BY DEF QuestionPages!Save, QuestionInv, QuestionType
  <2>1. row \in QuestionRow /\ row.live = FALSE
    <3>1. version + 1 \in Nat
      BY <2>0
    <3> QED
      BY <3>1 DEF QuestionPages!Row, QuestionRow, QuestionBizs
  <2>2. draft' = draft \/ draft' = [draft EXCEPT ![q] = row]
    BY DEF QuestionPages!Save, QuestionPages!SaveDraft
  <2> HIDE DEF row
  <2> QED
    BY <2>0, <2>1, <2>2 DEF QuestionInv, QuestionType
<1>4. QuestionPages!PublishedIsLive'
  BY <1>2, <1>3 DEF QuestionPages!PublishedIsLive, QuestionInv
<1>5. QuestionHolds(c)
  BY <1>1 DEF QuestionHolds
<1>6. QuestionKeepsOn(p, c)
  BY <1>1, IdleIsFree DEF QuestionKeepsOn, QuestionFits, ListFits, TotalFits, QuestionInv
<1> QED
  BY <1>1, <1>2, <1>3, <1>4, <1>5, <1>6, QuestionGoes

LEMMA DeleteKeeps ==
    ASSUME QuestionInv, NEW p \in Procs, NEW q \in Ids, QuestionPages!Delete(p, q)
    PROVE  QuestionInv'
<1>0. /\ QuestionPages!Begin(p, "delete", "tx", q, draft[q].biz)
      /\ "delete" \in QuestionOps /\ "tx" \in QuestionPcs /\ q \in QuestionIds
  BY DEF QuestionIds, QuestionPages!Delete, QuestionOps, QuestionPcs
<1>b. draft[q].biz \in QuestionBizs /\ draft[q].biz \in Bizs
  BY DEF QuestionInv, QuestionType, QuestionRow, QuestionPages!Delete
<1>c. PICK c : c = QuestionBegun("delete", "tx", q, draft[q].biz)
  OBVIOUS
<1>1. /\ c \in QuestionCall /\ call[p].op = "idle" /\ call' = [call EXCEPT ![p] = c]
      /\ c.op = "delete" /\ c.pc = "tx" /\ c.id = q /\ c.biz = draft[q].biz
  BY <1>0, <1>b, <1>c, QuestionBegins
<1>2. /\ pub' = pub /\ published' = published /\ spoiled' = spoiled
      /\ draft' = draft /\ version' = version
      /\ qCache' = qCache /\ lCache' = lCache /\ tCache' = tCache
  BY DEF QuestionPages!Delete
<1>3. QuestionHolds(c)
  BY <1>b, <1>1 DEF QuestionHolds
<1>4. QuestionKeepsOn(p, c)
  BY <1>1, IdleIsFree DEF QuestionKeepsOn, QuestionFits, ListFits, TotalFits, QuestionInv
<1> QED
  BY <1>1, <1>2, <1>3, <1>4, QuestionLooks

\* Where a call goes after a step that more than one of them takes: it has
\* nothing in hand, and a publication is still on its way to what is left.
LEMMA QuestionAfter ==
    ASSUME QuestionInv, NEW p \in Procs, NEW pc \in {"set", "list", "total", "produce", "live"},
           QuestionPages!After(p, pc)
    PROVE  \E c \in QuestionCall :
               /\ call' = [call EXCEPT ![p] = c]
               /\ QuestionHolds(c)
               /\ \A q \in Ids : QuestionFits(c, q)
               /\ \A b \in Bizs : /\ ListFits(c, b) /\ TotalFits(c, b)
                                  /\ pc = "set" /\ call[p].pc \in {"row", "set"} /\ ListBusy(call[p], b) =>
                                         ListBusy(c, b)
                                  /\ pc \in {"set", "list"} /\ TotalBusy(call[p], b) =>
                                         TotalBusy(c, b)
<1>1. QuestionHolds(call[p])
  BY DEF QuestionInv
<1>2. CASE call[p].op = "publish" /\ pc # "live"
  <2>1. PICK n \in {"list", "total", "draft", "live"} :
            /\ QuestionPages!Goto(p, n)
            /\ pc = "set" => n = "list"
            /\ pc = "list" => n = "total"
    BY <1>2 DEF QuestionPages!After
  <2>2. n \in QuestionPcs
    BY DEF QuestionPcs
  <2>3. PICK c : c = QuestionAt(p, n)
    OBVIOUS
  <2>4. /\ c \in QuestionCall
        /\ call' = [call EXCEPT ![p] = c]
        /\ c.pc = n /\ c.op = "publish" /\ c.id = call[p].id /\ c.biz = call[p].biz
    BY <1>2, <2>1, <2>2, <2>3, QuestionGoto
  <2>5. QuestionHolds(c)
    BY <1>1, <1>2, <2>4 DEF QuestionHolds
  <2>6. \A q \in Ids : QuestionFits(c, q)
    BY <2>4 DEF QuestionFits
  <2>7. \A b \in Bizs : ListFits(c, b) /\ TotalFits(c, b)
    BY <2>4 DEF ListFits, TotalFits
  <2>8. pc = "set" => \A b \in Bizs : ListBusy(call[p], b) => ListBusy(c, b)
    BY <2>1, <2>4 DEF ListBusy
  <2>9. pc \in {"set", "list"} => \A b \in Bizs : TotalBusy(call[p], b) => TotalBusy(c, b)
    BY <2>1, <2>4 DEF TotalBusy
  <2> QED
    BY <2>4, <2>5, <2>6, <2>7, <2>8, <2>9
<1>3. CASE ~(call[p].op = "publish" /\ pc # "live")
  <2>1. QuestionPages!Done(p)
    BY <1>3 DEF QuestionPages!After
  <2>2. PICK c : c = QuestionPages!Idle
    OBVIOUS
  <2>3. c \in QuestionCall /\ call' = [call EXCEPT ![p] = c]
    BY <2>1, <2>2, DoneIsFree DEF QuestionPages!Done
  <2>4. QuestionHolds(c) /\ \A q \in Ids : QuestionFits(c, q)
    BY <2>2, DoneIsFree
  <2>5. \A b \in Bizs : ListFits(c, b) /\ TotalFits(c, b)
    BY <2>2, DoneIsFree
  <2>6. \A b \in Bizs : /\ ~(pc = "set" /\ call[p].pc \in {"row", "set"} /\ ListBusy(call[p], b))
                        /\ ~(pc \in {"set", "list"} /\ TotalBusy(call[p], b))
    BY <1>1, <1>3 DEF QuestionHolds, ListBusy, TotalBusy
  <2> QED
    BY <2>3, <2>4, <2>5, <2>6
<1> QED
  BY <1>2, <1>3

\* An entry that a step writes.
LEMMA QuestionRefreshed ==
    ASSUME NEW q \in Ids, NEW p \in Procs, NEW c, DOMAIN call = Procs,
           QuestionCached(q), QuestionFits(c, q), call' = [call EXCEPT ![p] = c], pub' = pub,
           \/ <<"question", q>> \in spoiled'
           \/ /\ \/ <<"question", q>> \notin spoiled
                 \/ \A r \in Procs \ {p} : ~(call[r].id = q /\ call[r].pc \in {"eles", "set"})
              /\ qCache'[q] \in {QuestionPages!NoPair, QuestionPages!Pair(pub[q])}
    PROVE  QuestionCached(q)'
<1>1. call'[p] = c /\ \A r \in Procs \ {p} : call'[r] = call[r]
  OBVIOUS
<1>2. QuestionPages!Pair(pub[q])' = QuestionPages!Pair(pub[q])
  BY DEF QuestionPages!Pair
<1>3. CASE <<"question", q>> \in spoiled'
  BY <1>3 DEF QuestionCached
<1>4. CASE <<"question", q>> \notin spoiled'
  <2>1. qCache'[q] \in {QuestionPages!NoPair, QuestionPages!Pair(pub[q])}
    BY <1>4
  <2>2. \A r \in Procs \ {p} : QuestionFits(call[r], q)
    BY <1>4 DEF QuestionCached, QuestionFits
  <2>3. \A r \in Procs : QuestionFits(call[r], q)'
    BY <1>1, <1>2, <2>2 DEF QuestionFits
  <2> QED
    BY <1>2, <2>1, <2>3 DEF QuestionCached
<1> QED
  BY <1>3, <1>4

LEMMA ListRefreshed ==
    ASSUME NEW b \in Bizs, NEW p \in Procs, NEW c, DOMAIN call = Procs,
           ListCached(b), ListFits(c, b), call' = [call EXCEPT ![p] = c], pub' = pub,
           \/ <<"list", b>> \in spoiled'
           \/ /\ \/ <<"list", b>> \notin spoiled
                 \/ \A r \in Procs \ {p} : ~(call[r].biz = b /\ call[r].pc = "setList")
              /\ lCache'[b] \in {QuestionPages!NoList, QuestionPages!PubList(b)}
    PROVE  ListCached(b)'
<1>1. call'[p] = c /\ \A r \in Procs \ {p} : call'[r] = call[r]
  OBVIOUS
<1>2. QuestionPages!PubList(b)' = QuestionPages!PubList(b)
  BY SamePages
<1>3. CASE <<"list", b>> \in spoiled'
  BY <1>3 DEF ListCached
<1>4. CASE <<"list", b>> \notin spoiled'
  <2>1. lCache'[b] \in {QuestionPages!NoList, QuestionPages!PubList(b)}
    BY <1>4
  <2>2. \A r \in Procs \ {p} : ListFits(call[r], b)
    BY <1>4 DEF ListCached, ListFits
  <2>3. \A r \in Procs : ListFits(call[r], b)'
    BY <1>1, <1>2, <2>2 DEF ListFits
  <2> QED
    BY <1>2, <2>1, <2>3 DEF ListCached
<1> QED
  BY <1>3, <1>4

LEMMA TotalRefreshed ==
    ASSUME NEW b \in Bizs, NEW p \in Procs, NEW c, DOMAIN call = Procs,
           TotalCached(b), TotalFits(c, b), call' = [call EXCEPT ![p] = c], pub' = pub,
           \/ <<"total", b>> \in spoiled'
           \/ /\ \/ <<"total", b>> \notin spoiled
                 \/ \A r \in Procs \ {p} : ~(call[r].biz = b /\ call[r].pc = "setTotal")
              /\ tCache'[b] \in {QuestionPages!Miss, QuestionPages!PubCount(b)}
    PROVE  TotalCached(b)'
<1>1. call'[p] = c /\ \A r \in Procs \ {p} : call'[r] = call[r]
  OBVIOUS
<1>2. QuestionPages!PubCount(b)' = QuestionPages!PubCount(b)
  BY SamePages
<1>3. CASE <<"total", b>> \in spoiled'
  BY <1>3 DEF TotalCached
<1>4. CASE <<"total", b>> \notin spoiled'
  <2>1. tCache'[b] \in {QuestionPages!Miss, QuestionPages!PubCount(b)}
    BY <1>4
  <2>2. \A r \in Procs \ {p} : TotalFits(call[r], b)
    BY <1>4 DEF TotalCached, TotalFits
  <2>3. \A r \in Procs : TotalFits(call[r], b)'
    BY <1>1, <1>2, <2>2 DEF TotalFits
  <2> QED
    BY <1>2, <2>1, <2>3 DEF TotalCached
<1> QED
  BY <1>3, <1>4

-----------------------------------------------------------------------------
(* The steps that write the published table. *)

\* A row that comes from other pages than b's, and goes to others.
LEMMA OtherPages ==
    ASSUME pub \in [Ids -> QuestionRow], NEW q \in Ids, NEW row \in QuestionRow,
           pub' = [pub EXCEPT ![q] = row], NEW b, pub[q].biz # b, row.biz # b
    PROVE  /\ QuestionPages!PubList(b)' = QuestionPages!PubList(b)
           /\ QuestionPages!PubCount(b)' = QuestionPages!PubCount(b)
<1>1. \A r \in Ids \ {q} : pub'[r] = pub[r]
  OBVIOUS
<1>2. pub'[q] = row
  OBVIOUS
<1>3. {r \in Ids : pub'[r].biz = b} = {r \in Ids : pub[r].biz = b}
  BY <1>1, <1>2
<1>4. \A r \in {r \in Ids : pub[r].biz = b} : pub'[r] = pub[r]
  BY <1>1
<1> QED
  BY <1>3, <1>4 DEF QuestionPages!PubList, QuestionPages!PubCount

\* A commit of question q that marks what it overtakes: c is the call after
\* it, bs the pages the row leaves or joins.
QuestionWrites(p, c, q, row, bs) ==
    /\ c \in QuestionCall /\ QuestionHolds(c) /\ c.id = q
    /\ \/ c.op = "publish" /\ c.pc = "row" /\ row # QuestionPages!NoRow
       \/ c.op = "delete" /\ c.pc = "del" /\ row.biz \notin Bizs
    /\ \A r \in Ids : ~QuestionBusy(call[p], r)
    /\ \A d \in Bizs : ~ListBusy(call[p], d) /\ ~TotalBusy(call[p], d)
    /\ call' = [call EXCEPT ![p] = c]
    /\ row \in QuestionRow /\ pub' = [pub EXCEPT ![q] = row]
    /\ row = QuestionPages!NoRow \/ (row.ver \in published'[q] /\ row.biz \in Bizs)
    /\ row.biz \in Bizs => row.biz = c.biz
    /\ published' \in [Ids -> SUBSET Nat] /\ \A r \in Ids : published[r] \subseteq published'[r]
    /\ draft' \in [Ids -> QuestionRow] /\ version' \in Nat /\ QuestionPages!PublishedIsLive'
    /\ qCache' = qCache /\ lCache' = lCache /\ tCache' = tCache
    /\ {pub[q].biz, row.biz} \cap Bizs \subseteq bs
    /\ spoiled \subseteq spoiled'
    /\ QuestionPages!Overtaken(p, q, bs) \subseteq spoiled'
    /\ pub[q].biz \in Bizs /\ pub[q].biz # c.biz => <<"list", pub[q].biz>> \in spoiled'
    /\ pub[q].biz \in Bizs /\ (c.op = "delete" \/ pub[q].biz # c.biz) =>
           <<"total", pub[q].biz>> \in spoiled'

LEMMA QuestionCommitted ==
    ASSUME QuestionInv, NEW p \in Procs, NEW q \in Ids, NEW c, NEW row, NEW bs,
           QuestionWrites(p, c, q, row, bs)
    PROVE  QuestionInv'
<1> USE DEF QuestionWrites
<1>0. /\ DOMAIN call = Procs /\ call \in [Procs -> QuestionCall]
      /\ pub \in [Ids -> QuestionRow]
  BY DEF QuestionInv, QuestionType
<1>1. call'[p] = c /\ \A r \in Procs \ {p} : call'[r] = call[r]
  BY <1>0
<1>2. QuestionType'
  <2>1. call' \in [Procs -> QuestionCall]
    BY <1>0
  <2>2. pub' \in [Ids -> QuestionRow]
    BY <1>0
  <2> QED
    BY <2>1, <2>2 DEF QuestionInv, QuestionType
<1>3. \A r \in Procs : QuestionHolds(call[r])'
  <2>1. \A r \in Procs \ {p} : QuestionHolds(call[r])
    BY DEF QuestionInv
  <2>2. \A d : QuestionHolds(d) => QuestionHolds(d)'
    BY DEF QuestionHolds, PairShown, PageShown
  <2> QED
    BY <1>1, <2>1, <2>2 DEF QuestionHolds, PairShown, PageShown
<1>4. RowsArePublished'
  BY <1>0 DEF QuestionInv, RowsArePublished
<1>5. QuestionDrafts'
  BY DEF QuestionInv, QuestionDrafts, PairShown, PageShown
<1>6. \A r \in Ids \ {q} : QuestionCached(r)'
  <2> SUFFICES ASSUME NEW r \in Ids \ {q} PROVE QuestionCached(r)'
    OBVIOUS
  <2>1. pub'[r] = pub[r] /\ qCache'[r] = qCache[r] /\ QuestionCached(r)
    BY <1>0 DEF QuestionInv
  <2>2. QuestionFits(c, r)
    BY DEF QuestionFits
  <2> QED
    BY <1>0, <2>1, <2>2, QuestionStays
<1>7. QuestionCached(q)'
  <2>1. CASE <<"question", q>> \in spoiled'
    BY <2>1 DEF QuestionCached
  <2>2. CASE <<"question", q>> \notin spoiled'
    <3>1. \A r \in Procs \ {p} : ~(call[r].id = q /\ call[r].pc \in {"eles", "set"})
      BY <2>2 DEF QuestionPages!Overtaken, QuestionPages!Held, QuestionPages!At
    <3>2. \A r \in Procs : QuestionFits(call[r], q)'
      BY <1>1, <3>1 DEF QuestionFits
    <3>3. QuestionBusy(call[p], q)'
      BY <1>0, <1>1 DEF QuestionBusy
    <3> QED
      BY <3>2, <3>3 DEF QuestionCached
  <2> QED
    BY <2>1, <2>2
<1>8. ASSUME NEW b \in Bizs PROVE ListCached(b)' /\ TotalCached(b)'
  <2>1. ListCached(b) /\ TotalCached(b)
    BY DEF QuestionInv
  <2>2. ListFits(c, b) /\ TotalFits(c, b)
    BY DEF ListFits, TotalFits
  <2>3. CASE pub[q].biz # b /\ row.biz # b
    <3>1. /\ QuestionPages!PubList(b)' = QuestionPages!PubList(b)
          /\ QuestionPages!PubCount(b)' = QuestionPages!PubCount(b)
      BY <1>0, <2>3, OtherPages
    <3>2. ListCached(b)'
      BY <1>0, <2>1, <2>2, <3>1, ListStays
    <3>3. TotalCached(b)'
      BY <1>0, <2>1, <2>2, <3>1, TotalStays
    <3> QED
      BY <3>2, <3>3
  <2>4. CASE pub[q].biz = b \/ row.biz = b
    <3>0. b \in bs
      BY <2>4
    <3>1. ASSUME <<"list", b>> \notin spoiled' PROVE ListCached(b)'
      <4>1. \A r \in Procs \ {p} : ~(call[r].biz = b /\ call[r].pc = "setList")
        BY <3>0, <3>1 DEF QuestionPages!Overtaken, QuestionPages!HeldBiz, QuestionPages!OfBiz
      <4>2. \A r \in Procs : ListFits(call[r], b)'
        BY <1>1, <4>1 DEF ListFits
      <4>3. c.biz = b
        BY <2>4, <3>1
      <4>4. ListBusy(call[p], b)'
        BY <1>1, <4>3 DEF ListBusy
      <4> QED
        BY <4>2, <4>4 DEF ListCached
    <3>2. ASSUME <<"total", b>> \notin spoiled' PROVE TotalCached(b)'
      <4>1. \A r \in Procs \ {p} : ~(call[r].biz = b /\ call[r].pc = "setTotal")
        BY <3>0, <3>2 DEF QuestionPages!Overtaken, QuestionPages!HeldBiz, QuestionPages!OfBiz
      <4>2. \A r \in Procs : TotalFits(call[r], b)'
        BY <1>1, <4>1 DEF TotalFits
      <4>3. c.op = "publish" /\ c.pc = "row" /\ c.biz = b
        BY <2>4, <3>2
      <4>4. TotalBusy(call[p], b)'
        BY <1>1, <4>3 DEF TotalBusy
      <4> QED
        BY <4>2, <4>4 DEF TotalCached
    <3>3. <<"list", b>> \in spoiled' => ListCached(b)'
      BY DEF ListCached
    <3>4. <<"total", b>> \in spoiled' => TotalCached(b)'
      BY DEF TotalCached
    <3> QED
      BY <3>1, <3>2, <3>3, <3>4
  <2> QED
    BY <2>3, <2>4
<1> QED
  BY <1>2, <1>3, <1>4, <1>5, <1>6, <1>7, <1>8 DEF QuestionInv

LEMMA NoRowIsEmpty ==
    /\ QuestionPages!NoRow \in QuestionRow
    /\ QuestionPages!NoRow.ver = 0 /\ QuestionPages!NoRow.biz = "" /\ QuestionPages!NoRow.live = FALSE
BY DEF QuestionPages!NoRow, QuestionRow, QuestionBizs

LEMMA PublishKeeps ==
    ASSUME QuestionInv, NEW p \in Procs, NEW q \in Ids, NEW b \in Bizs,
           QuestionPages!Publish(p, q, b)
    PROVE  QuestionInv'
<1>0. /\ QuestionPages!Begin(p, "publish", "row", q, b)
      /\ "publish" \in QuestionOps /\ "row" \in QuestionPcs /\ q \in QuestionIds /\ b \in QuestionBizs
  BY DEF QuestionPages!Publish, QuestionIds, QuestionBizs, QuestionOps, QuestionPcs
<1>c. PICK c : c = QuestionBegun("publish", "row", q, b)
  OBVIOUS
<1>1. /\ c \in QuestionCall /\ call[p].op = "idle" /\ call' = [call EXCEPT ![p] = c]
      /\ c.op = "publish" /\ c.pc = "row" /\ c.id = q /\ c.biz = b
  BY <1>0, <1>c, QuestionBegins
<1>2. /\ \A r \in Ids : ~QuestionBusy(call[p], r)
      /\ \A d \in Bizs : ~ListBusy(call[p], d) /\ ~TotalBusy(call[p], d)
  BY <1>1, IdleIsFree DEF QuestionInv
<1>3. QuestionHolds(c)
  BY <1>1 DEF QuestionHolds
<1>4. version \in Nat /\ version' = version + 1 /\ version' \in Nat
  <2>1. version' = version + 1
    BY DEF QuestionPages!Publish
  <2>2. version \in Nat
    BY DEF QuestionInv, QuestionType
  <2> QED
    BY <2>1, <2>2
<1>5. PICK row : row = QuestionPages!Row(version', b, TRUE)
  OBVIOUS
<1>6. row \in QuestionRow /\ row.biz = b /\ row.ver = version' /\ row.live = TRUE
  BY <1>0, <1>4, <1>5 DEF QuestionPages!Row, QuestionRow
<1>7. row # QuestionPages!NoRow
  BY <1>4, <1>6, NoRowIsEmpty
<1>8. /\ pub' = [pub EXCEPT ![q] = row]
      /\ (draft' = draft /\ draft[q] = QuestionPages!NoRow) \/ draft' = [draft EXCEPT ![q] = row]
      /\ published' = [published EXCEPT ![q] = @ \cup {version'}]
      /\ qCache' = qCache /\ lCache' = lCache /\ tCache' = tCache
  BY <1>4, <1>5 DEF QuestionPages!Publish, QuestionPages!SaveDraft
<1>9. draft' \in [Ids -> QuestionRow] /\ pub \in [Ids -> QuestionRow] /\ draft \in [Ids -> QuestionRow]
  BY <1>6, <1>8 DEF QuestionInv, QuestionType
<1>10. QuestionPages!PublishedIsLive'
  <2>1. QuestionPages!PublishedIsLive
    BY DEF QuestionInv
  <2>2. ASSUME NEW r \in Ids, draft'[r].live PROVE pub'[r] = draft'[r]
    <3>1. CASE r # q
      BY <1>8, <1>9, <2>1, <2>2, <3>1 DEF QuestionPages!PublishedIsLive
    <3>2. CASE r = q
      <4>1. draft[q] = QuestionPages!NoRow => ~draft[q].live
        BY NoRowIsEmpty
      <4> QED
        BY <1>8, <1>9, <2>2, <3>2, <4>1
    <3> QED
      BY <3>1, <3>2
  <2> QED
    BY <2>2 DEF QuestionPages!PublishedIsLive
<1>11. /\ published' \in [Ids -> SUBSET Nat] /\ row.ver \in published'[q]
       /\ \A r \in Ids : published[r] \subseteq published'[r]
  BY <1>4, <1>6, <1>8 DEF QuestionInv, QuestionType
<1>12. PICK old : old = pub[q].biz
  OBVIOUS
<1>13. PICK left : left = {old} \ {b, ""}
  OBVIOUS
<1>14. spoiled' = spoiled \cup QuestionPages!OvertakenDocs(p, q, TRUE)
                  \cup QuestionPages!Overtaken(p, q, left \cup {b})
                  \cup QuestionPages!OfBiz("list", left) \cup QuestionPages!OfBiz("total", left)
  BY <1>12, <1>13 DEF QuestionPages!Publish
<1>15. old \in Bizs => old = b \/ old \in left
  BY <1>13, ContentAssumption
<1>16. old \in left =>
           /\ <<"list", old>> \in QuestionPages!OfBiz("list", left)
           /\ <<"total", old>> \in QuestionPages!OfBiz("total", left)
  BY DEF QuestionPages!OfBiz
<1>17. {pub[q].biz, row.biz} \cap Bizs \subseteq left \cup {b}
  BY <1>6, <1>12, <1>15
<1>18. /\ spoiled \subseteq spoiled'
       /\ QuestionPages!Overtaken(p, q, left \cup {b}) \subseteq spoiled'
       /\ old \in Bizs /\ old # c.biz => <<"list", old>> \in spoiled'
       /\ old \in Bizs /\ (c.op = "delete" \/ old # c.biz) => <<"total", old>> \in spoiled'
  BY <1>1, <1>14, <1>15, <1>16
<1>19. PICK bs : bs = left \cup {b}
  OBVIOUS
<1>20. /\ c \in QuestionCall /\ QuestionHolds(c) /\ c.id = q
       /\ \/ c.op = "publish" /\ c.pc = "row" /\ row # QuestionPages!NoRow
          \/ c.op = "delete" /\ c.pc = "del" /\ row.biz \notin Bizs
       /\ \A r \in Ids : ~QuestionBusy(call[p], r)
       /\ \A d \in Bizs : ~ListBusy(call[p], d) /\ ~TotalBusy(call[p], d)
       /\ call' = [call EXCEPT ![p] = c]
       /\ row \in QuestionRow /\ pub' = [pub EXCEPT ![q] = row]
       /\ row = QuestionPages!NoRow \/ (row.ver \in published'[q] /\ row.biz \in Bizs)
       /\ row.biz \in Bizs => row.biz = c.biz
  BY <1>1, <1>2, <1>3, <1>6, <1>7, <1>8, <1>11
<1>21. /\ published' \in [Ids -> SUBSET Nat] /\ \A r \in Ids : published[r] \subseteq published'[r]
       /\ draft' \in [Ids -> QuestionRow] /\ version' \in Nat /\ QuestionPages!PublishedIsLive'
       /\ qCache' = qCache /\ lCache' = lCache /\ tCache' = tCache
  BY <1>4, <1>8, <1>9, <1>10, <1>11
<1>22. /\ {pub[q].biz, row.biz} \cap Bizs \subseteq bs
       /\ spoiled \subseteq spoiled'
       /\ QuestionPages!Overtaken(p, q, bs) \subseteq spoiled'
       /\ pub[q].biz \in Bizs /\ pub[q].biz # c.biz => <<"list", pub[q].biz>> \in spoiled'
       /\ pub[q].biz \in Bizs /\ (c.op = "delete" \/ pub[q].biz # c.biz) =>
               <<"total", pub[q].biz>> \in spoiled'
  BY <1>12, <1>17, <1>18, <1>19
<1>23. QuestionWrites(p, c, q, row, bs)
  BY <1>20, <1>21, <1>22 DEF QuestionWrites
<1> QED
  BY <1>23, QuestionCommitted

LEMMA DeleteTxKeeps ==
    ASSUME QuestionInv, NEW p \in Procs, QuestionPages!DeleteTx(p)
    PROVE  QuestionInv'
<1>0. QuestionPages!Goto(p, "del") /\ "del" \in QuestionPcs /\ call[p].pc = "tx"
  BY DEF QuestionPages!DeleteTx, QuestionPcs
<1>c. PICK c : c = QuestionAt(p, "del")
  OBVIOUS
<1>a. call[p].op = "delete" /\ call[p].id \in Ids
  BY <1>0 DEF QuestionInv, QuestionHolds
<1>q. PICK q \in Ids : q = call[p].id
  BY <1>a
<1>1. /\ c \in QuestionCall /\ call' = [call EXCEPT ![p] = c]
      /\ c.op = "delete" /\ c.pc = "del" /\ c.id = q /\ c.biz = call[p].biz
  BY <1>0, <1>a, <1>c, <1>q, QuestionGoto
<1>2. /\ \A r \in Ids : ~QuestionBusy(call[p], r)
      /\ \A d \in Bizs : ~ListBusy(call[p], d) /\ ~TotalBusy(call[p], d)
  BY <1>0 DEF QuestionBusy, ListBusy, TotalBusy
<1>3. QuestionHolds(c)
  BY <1>a, <1>1 DEF QuestionHolds, QuestionInv
<1>5. PICK row : row = QuestionPages!NoRow
  OBVIOUS
<1>6. row \in QuestionRow /\ row.biz = "" /\ row.live = FALSE /\ row.biz \notin Bizs
  BY <1>5, ContentAssumption, NoRowIsEmpty
<1>8. /\ pub' = [pub EXCEPT ![q] = row] /\ draft' = [draft EXCEPT ![q] = row]
      /\ published' = published /\ version' = version
      /\ qCache' = qCache /\ lCache' = lCache /\ tCache' = tCache
  BY <1>5, <1>q DEF QuestionPages!DeleteTx
<1>9. /\ draft' \in [Ids -> QuestionRow] /\ pub \in [Ids -> QuestionRow] /\ draft \in [Ids -> QuestionRow]
      /\ published' \in [Ids -> SUBSET Nat] /\ version' \in Nat
  BY <1>6, <1>8 DEF QuestionInv, QuestionType
<1>10. QuestionPages!PublishedIsLive'
  BY <1>6, <1>8, <1>9 DEF QuestionInv, QuestionPages!PublishedIsLive
<1>12. PICK old : old = pub[q].biz
  OBVIOUS
<1>14. /\ spoiled' = spoiled \cup QuestionPages!OvertakenDocs(p, q, TRUE)
                     \cup QuestionPages!Overtaken(p, q, {old} \ {""})
                     \cup QuestionPages!OfBiz("list", {old} \ {"", c.biz})
                     \cup QuestionPages!OfBiz("total", {old} \ {""})
  BY <1>1, <1>12, <1>q DEF QuestionPages!DeleteTx
<1>15. old \in Bizs => old \in {old} \ {""}
  BY ContentAssumption
<1>16. old \in Bizs =>
           /\ old # c.biz => <<"list", old>> \in QuestionPages!OfBiz("list", {old} \ {"", c.biz})
           /\ <<"total", old>> \in QuestionPages!OfBiz("total", {old} \ {""})
  BY <1>15 DEF QuestionPages!OfBiz
<1>17. {pub[q].biz, row.biz} \cap Bizs \subseteq {old} \ {""}
  BY <1>6, <1>12, <1>15
<1>18. /\ spoiled \subseteq spoiled'
       /\ QuestionPages!Overtaken(p, q, {old} \ {""}) \subseteq spoiled'
       /\ old \in Bizs /\ old # c.biz => <<"list", old>> \in spoiled'
       /\ old \in Bizs /\ (c.op = "delete" \/ old # c.biz) => <<"total", old>> \in spoiled'
  BY <1>14, <1>16
<1>19. PICK bs : bs = {old} \ {""}
  OBVIOUS
<1>20. /\ c \in QuestionCall /\ QuestionHolds(c) /\ c.id = q
       /\ \/ c.op = "publish" /\ c.pc = "row" /\ row # QuestionPages!NoRow
          \/ c.op = "delete" /\ c.pc = "del" /\ row.biz \notin Bizs
       /\ \A r \in Ids : ~QuestionBusy(call[p], r)
       /\ \A d \in Bizs : ~ListBusy(call[p], d) /\ ~TotalBusy(call[p], d)
       /\ call' = [call EXCEPT ![p] = c]
       /\ row \in QuestionRow /\ pub' = [pub EXCEPT ![q] = row]
       /\ row = QuestionPages!NoRow \/ (row.ver \in published'[q] /\ row.biz \in Bizs)
       /\ row.biz \in Bizs => row.biz = c.biz
  BY <1>1, <1>2, <1>3, <1>5, <1>6, <1>8
<1>21. /\ published' \in [Ids -> SUBSET Nat] /\ \A r \in Ids : published[r] \subseteq published'[r]
       /\ draft' \in [Ids -> QuestionRow] /\ version' \in Nat /\ QuestionPages!PublishedIsLive'
       /\ qCache' = qCache /\ lCache' = lCache /\ tCache' = tCache
  BY <1>8, <1>9, <1>10
<1>22. /\ {pub[q].biz, row.biz} \cap Bizs \subseteq bs
       /\ spoiled \subseteq spoiled'
       /\ QuestionPages!Overtaken(p, q, bs) \subseteq spoiled'
       /\ pub[q].biz \in Bizs /\ pub[q].biz # c.biz => <<"list", pub[q].biz>> \in spoiled'
       /\ pub[q].biz \in Bizs /\ (c.op = "delete" \/ pub[q].biz # c.biz) =>
               <<"total", pub[q].biz>> \in spoiled'
  BY <1>12, <1>17, <1>18, <1>19
<1>23. QuestionWrites(p, c, q, row, bs)
  BY <1>20, <1>21, <1>22 DEF QuestionWrites
<1> QED
  BY <1>23, QuestionCommitted

-----------------------------------------------------------------------------
(* The steps that write the caches. *)

\* A call p that goes on as c, which has nothing in hand and is still on its
\* way to the pages it was on its way to.
QuestionFrees(p, c) ==
    /\ c \in QuestionCall /\ QuestionHolds(c)
    /\ call' = [call EXCEPT ![p] = c]
    /\ \A q \in Ids : QuestionFits(c, q)
    /\ \A b \in Bizs : ListFits(c, b) /\ TotalFits(c, b)
    /\ pub' = pub /\ published' = published /\ draft' = draft /\ version' = version

\* It writes the entry of a question, ...
QuestionPuts(p, c, q, pair) ==
    /\ QuestionFrees(p, c)
    /\ \A r \in Ids : QuestionBusy(call[p], r) => r = q
    /\ \A b \in Bizs : ListBusy(call[p], b) => ListBusy(c, b)
    /\ \A b \in Bizs : TotalBusy(call[p], b) => TotalBusy(c, b)
    /\ pair \in Nat \X Nat /\ (pair = QuestionPages!NoPair \/ PairShown(q, pair))
    /\ qCache' = [qCache EXCEPT ![q] = pair] /\ lCache' = lCache /\ tCache' = tCache
    /\ spoiled \ {<<"question", q>>} \subseteq spoiled'
    /\ \/ <<"question", q>> \in spoiled'
       \/ /\ \/ <<"question", q>> \notin spoiled
             \/ \A r \in Procs \ {p} : ~(call[r].id = q /\ call[r].pc \in {"eles", "set"})
          /\ pair \in {QuestionPages!NoPair, QuestionPages!Pair(pub[q])}

LEMMA QuestionPut ==
    ASSUME QuestionInv, NEW p \in Procs, NEW q \in Ids, NEW c, NEW pair, QuestionPuts(p, c, q, pair)
    PROVE  QuestionInv'
<1>1. /\ c \in QuestionCall /\ QuestionHolds(c) /\ call' = [call EXCEPT ![p] = c]
      /\ pub' = pub /\ published' = published /\ draft' = draft /\ version' = version
      /\ lCache' = lCache /\ tCache' = tCache
  BY DEF QuestionPuts, QuestionFrees
<1>2. \A r \in Ids : QuestionFits(c, r) /\ (QuestionBusy(call[p], r) => r = q)
  BY DEF QuestionPuts, QuestionFrees
<1>3. qCache' = [qCache EXCEPT ![q] = pair] /\ spoiled \ {<<"question", q>>} \subseteq spoiled'
  BY DEF QuestionPuts
<1>4. /\ DOMAIN call = Procs /\ qCache \in [Ids -> Nat \X Nat]
      /\ draft' \in [Ids -> QuestionRow] /\ version' \in Nat /\ QuestionPages!PublishedIsLive'
      /\ DOMAIN lCache' = Bizs /\ DOMAIN tCache' = Bizs
  BY <1>1 DEF QuestionInv, QuestionType, QuestionPages!PublishedIsLive
<1>5. /\ qCache' \in [Ids -> Nat \X Nat] /\ qCache'[q] = pair
      /\ \A r \in Ids \ {q} : qCache'[r] = qCache[r]
  BY <1>3, <1>4 DEF QuestionPuts
<1>6. QuestionDrafts'
  BY <1>1, <1>5 DEF QuestionInv, QuestionDrafts, PairShown, PageShown, QuestionPuts
<1>8. \A r \in Ids \ {q} : QuestionCached(r)'
  <2> SUFFICES ASSUME NEW r \in Ids \ {q} PROVE QuestionCached(r)'
    OBVIOUS
  <2>1. QuestionCached(r) /\ QuestionFits(c, r) /\ ~QuestionBusy(call[p], r)
    BY <1>2 DEF QuestionInv
  <2>2. pub'[r] = pub[r] /\ qCache'[r] = qCache[r]
    BY <1>1, <1>5
  <2>3. <<"question", r>> \in spoiled => <<"question", r>> \in spoiled'
    BY <1>3
  <2> QED
    BY <1>1, <1>4, <2>1, <2>2, <2>3, QuestionStays
<1>9. QuestionCached(q)'
  BY <1>1, <1>2, <1>4, <1>5, QuestionRefreshed DEF QuestionInv, QuestionPuts
<1>10. \A b \in Bizs : ListCached(b)' /\ TotalCached(b)'
  <2> SUFFICES ASSUME NEW b \in Bizs PROVE ListCached(b)' /\ TotalCached(b)'
    OBVIOUS
  <2>1. /\ <<"list", b>> \in spoiled => <<"list", b>> \in spoiled'
        /\ <<"total", b>> \in spoiled => <<"total", b>> \in spoiled'
    BY <1>3
  <2>2. ListFits(c, b) /\ (ListBusy(call[p], b) => ListBusy(c, b))
    BY DEF QuestionPuts, QuestionFrees
  <2>3. TotalFits(c, b) /\ (TotalBusy(call[p], b) => TotalBusy(c, b))
    BY DEF QuestionPuts, QuestionFrees
  <2>4. lCache'[b] = lCache[b] /\ tCache'[b] = tCache[b] /\ ListCached(b) /\ TotalCached(b)
    BY <1>1 DEF QuestionInv
  <2>5. ListCached(b)'
    BY <1>1, <1>4, <2>1, <2>2, <2>4, SamePages, ListStays
  <2>6. TotalCached(b)'
    BY <1>1, <1>4, <2>1, <2>3, <2>4, SamePages, TotalStays
  <2> QED
    BY <2>5, <2>6
<1> QED
  BY <1>1, <1>4, <1>5, <1>6, <1>8, <1>9, <1>10, QuestionTurns

\* ... the first page of a biz, ...
ListPuts(p, c, b, list) ==
    /\ QuestionFrees(p, c)
    /\ \A q \in Ids : ~QuestionBusy(call[p], q)
    /\ \A d \in Bizs : ListBusy(call[p], d) => d = b
    /\ \A d \in Bizs : TotalBusy(call[p], d) => TotalBusy(c, d)
    /\ list = QuestionPages!NoList \/ PageShown(list)
    /\ lCache' = [lCache EXCEPT ![b] = list] /\ qCache' = qCache /\ tCache' = tCache
    /\ spoiled \ {<<"list", b>>} \subseteq spoiled'
    /\ \/ <<"list", b>> \in spoiled'
       \/ /\ \/ <<"list", b>> \notin spoiled
             \/ \A r \in Procs \ {p} : ~(call[r].biz = b /\ call[r].pc = "setList")
          /\ list \in {QuestionPages!NoList, QuestionPages!PubList(b)}

LEMMA ListPut ==
    ASSUME QuestionInv, NEW p \in Procs, NEW b, NEW c, NEW list, ListPuts(p, c, b, list)
    PROVE  QuestionInv'
<1>1. /\ c \in QuestionCall /\ QuestionHolds(c) /\ call' = [call EXCEPT ![p] = c]
      /\ pub' = pub /\ published' = published /\ draft' = draft /\ version' = version
      /\ qCache' = qCache /\ tCache' = tCache
  BY DEF ListPuts, QuestionFrees
<1>2. \A d \in Bizs : ListFits(c, d) /\ (ListBusy(call[p], d) => d = b)
  BY DEF ListPuts, QuestionFrees
<1>3. lCache' = [lCache EXCEPT ![b] = list] /\ spoiled \ {<<"list", b>>} \subseteq spoiled'
  BY DEF ListPuts
<1>4. /\ DOMAIN call = Procs /\ DOMAIN lCache = Bizs
      /\ draft' \in [Ids -> QuestionRow] /\ version' \in Nat /\ QuestionPages!PublishedIsLive'
      /\ qCache' \in [Ids -> Nat \X Nat] /\ DOMAIN tCache' = Bizs
  BY <1>1 DEF QuestionInv, QuestionType, QuestionPages!PublishedIsLive
<1>5. /\ DOMAIN lCache' = Bizs /\ \A d \in Bizs \ {b} : lCache'[d] = lCache[d]
      /\ b \in Bizs => lCache'[b] = list
  BY <1>3, <1>4
<1>6. QuestionDrafts'
  BY <1>1, <1>5 DEF QuestionInv, QuestionDrafts, PairShown, PageShown, ListPuts
<1>7. \A r \in Ids : QuestionCached(r)'
  <2> SUFFICES ASSUME NEW r \in Ids PROVE QuestionCached(r)'
    OBVIOUS
  <2>1. QuestionCached(r) /\ QuestionFits(c, r) /\ ~QuestionBusy(call[p], r)
    BY DEF QuestionInv, ListPuts, QuestionFrees
  <2>2. pub'[r] = pub[r] /\ qCache'[r] = qCache[r]
    BY <1>1
  <2>3. <<"question", r>> \in spoiled => <<"question", r>> \in spoiled'
    BY <1>3
  <2> QED
    BY <1>1, <1>4, <2>1, <2>2, <2>3, QuestionStays
<1>8. \A d \in Bizs : ListCached(d)'
  <2> SUFFICES ASSUME NEW d \in Bizs PROVE ListCached(d)'
    OBVIOUS
  <2>0. ListCached(d) /\ ListFits(c, d)
    BY <1>2 DEF QuestionInv
  <2>1. CASE d = b
    BY <1>1, <1>4, <1>5, <2>0, <2>1, ListRefreshed DEF ListPuts
  <2>2. CASE d # b
    <3>1. lCache'[d] = lCache[d] /\ ~ListBusy(call[p], d)
      BY <1>2, <1>5, <2>2
    <3>2. <<"list", d>> \in spoiled => <<"list", d>> \in spoiled'
      BY <1>3, <2>2
    <3> QED
      BY <1>1, <1>4, <2>0, <3>1, <3>2, SamePages, ListStays
  <2> QED
    BY <2>1, <2>2
<1>9. \A d \in Bizs : TotalCached(d)'
  <2> SUFFICES ASSUME NEW d \in Bizs PROVE TotalCached(d)'
    OBVIOUS
  <2>1. <<"total", d>> \in spoiled => <<"total", d>> \in spoiled'
    BY <1>3
  <2>2. TotalFits(c, d) /\ (TotalBusy(call[p], d) => TotalBusy(c, d))
    BY DEF ListPuts, QuestionFrees
  <2>3. tCache'[d] = tCache[d] /\ TotalCached(d)
    BY <1>1 DEF QuestionInv
  <2> QED
    BY <1>1, <1>4, <2>1, <2>2, <2>3, SamePages, TotalStays
<1> QED
  BY <1>1, <1>4, <1>5, <1>6, <1>7, <1>8, <1>9, QuestionTurns

\* ... or the total of one.
TotalPuts(p, c, b, num) ==
    /\ QuestionFrees(p, c)
    /\ \A q \in Ids : ~QuestionBusy(call[p], q)
    /\ \A d \in Bizs : ~ListBusy(call[p], d)
    /\ \A d \in Bizs : TotalBusy(call[p], d) => d = b
    /\ tCache' = [tCache EXCEPT ![b] = num] /\ qCache' = qCache /\ lCache' = lCache
    /\ spoiled \ {<<"total", b>>} \subseteq spoiled'
    /\ \/ <<"total", b>> \in spoiled' \/ b \notin Bizs
       \/ /\ \/ <<"total", b>> \notin spoiled
             \/ \A r \in Procs \ {p} : ~(call[r].biz = b /\ call[r].pc = "setTotal")
          /\ num \in {QuestionPages!Miss, QuestionPages!PubCount(b)}

LEMMA TotalPut ==
    ASSUME QuestionInv, NEW p \in Procs, NEW b, NEW c, NEW num, TotalPuts(p, c, b, num)
    PROVE  QuestionInv'
<1>1. /\ c \in QuestionCall /\ QuestionHolds(c) /\ call' = [call EXCEPT ![p] = c]
      /\ pub' = pub /\ published' = published /\ draft' = draft /\ version' = version
      /\ qCache' = qCache /\ lCache' = lCache
  BY DEF TotalPuts, QuestionFrees
<1>2. \A d \in Bizs : TotalFits(c, d) /\ (TotalBusy(call[p], d) => d = b)
  BY DEF TotalPuts, QuestionFrees
<1>3. tCache' = [tCache EXCEPT ![b] = num] /\ spoiled \ {<<"total", b>>} \subseteq spoiled'
  BY DEF TotalPuts
<1>4. /\ DOMAIN call = Procs /\ DOMAIN tCache = Bizs
      /\ draft' \in [Ids -> QuestionRow] /\ version' \in Nat /\ QuestionPages!PublishedIsLive'
      /\ qCache' \in [Ids -> Nat \X Nat] /\ DOMAIN lCache' = Bizs
  BY <1>1 DEF QuestionInv, QuestionType, QuestionPages!PublishedIsLive
<1>5. /\ DOMAIN tCache' = Bizs /\ \A d \in Bizs \ {b} : tCache'[d] = tCache[d]
      /\ b \in Bizs => tCache'[b] = num
  BY <1>3, <1>4
<1>6. QuestionDrafts'
  BY <1>1 DEF QuestionInv, QuestionDrafts, PairShown, PageShown
<1>7. \A r \in Ids : QuestionCached(r)'
  <2> SUFFICES ASSUME NEW r \in Ids PROVE QuestionCached(r)'
    OBVIOUS
  <2>1. QuestionCached(r) /\ QuestionFits(c, r) /\ ~QuestionBusy(call[p], r)
    BY DEF QuestionInv, TotalPuts, QuestionFrees
  <2>2. pub'[r] = pub[r] /\ qCache'[r] = qCache[r]
    BY <1>1
  <2>3. <<"question", r>> \in spoiled => <<"question", r>> \in spoiled'
    BY <1>3
  <2> QED
    BY <1>1, <1>4, <2>1, <2>2, <2>3, QuestionStays
<1>8. \A d \in Bizs : ListCached(d)'
  <2> SUFFICES ASSUME NEW d \in Bizs PROVE ListCached(d)'
    OBVIOUS
  <2>1. <<"list", d>> \in spoiled => <<"list", d>> \in spoiled'
    BY <1>3
  <2>2. ListFits(c, d) /\ ~ListBusy(call[p], d)
    BY DEF TotalPuts, QuestionFrees
  <2>3. lCache'[d] = lCache[d] /\ ListCached(d)
    BY <1>1 DEF QuestionInv
  <2> QED
    BY <1>1, <1>4, <2>1, <2>2, <2>3, SamePages, ListStays
<1>9. \A d \in Bizs : TotalCached(d)'
  <2> SUFFICES ASSUME NEW d \in Bizs PROVE TotalCached(d)'
    OBVIOUS
  <2>0. TotalCached(d) /\ TotalFits(c, d)
    BY <1>2 DEF QuestionInv
  <2>1. CASE d = b
    BY <1>1, <1>4, <1>5, <2>0, <2>1, TotalRefreshed DEF TotalPuts
  <2>2. CASE d # b
    <3>1. tCache'[d] = tCache[d] /\ ~TotalBusy(call[p], d)
      BY <1>2, <1>5, <2>2
    <3>2. <<"total", d>> \in spoiled => <<"total", d>> \in spoiled'
      BY <1>3, <2>2
    <3> QED
      BY <1>1, <1>4, <2>0, <3>1, <3>2, SamePages, TotalStays
  <2> QED
    BY <2>1, <2>2
<1> QED
  BY <1>1, <1>4, <1>5, <1>6, <1>7, <1>8, <1>9, QuestionTurns

LEMMA DelQuestionKeeps ==
    ASSUME QuestionInv, NEW p \in Procs, QuestionPages!DelQuestion(p)
    PROVE  QuestionInv'
<1>0. QuestionPages!Goto(p, "list") /\ "list" \in QuestionPcs /\ call[p].pc = "del"
  BY DEF QuestionPages!DelQuestion, QuestionPcs
<1>c. PICK c : c = QuestionAt(p, "list")
  OBVIOUS
<1>a. call[p].op = "delete" /\ call[p].id \in Ids /\ call[p].biz \in Bizs
  BY <1>0 DEF QuestionInv, QuestionHolds
<1>q. PICK q \in Ids : q = call[p].id
  BY <1>a
<1>1. /\ c \in QuestionCall /\ call' = [call EXCEPT ![p] = c]
      /\ c.op = "delete" /\ c.pc = "list" /\ c.id = q /\ c.biz = call[p].biz
  BY <1>0, <1>a, <1>c, <1>q, QuestionGoto
<1>2. QuestionHolds(c)
  BY <1>a, <1>1 DEF QuestionHolds
<1>3. /\ \A r \in Ids : QuestionFits(c, r) /\ (QuestionBusy(call[p], r) => r = q)
      /\ \A b \in Bizs : ListFits(c, b) /\ (ListBusy(call[p], b) => ListBusy(c, b))
      /\ \A b \in Bizs : TotalFits(c, b) /\ ~TotalBusy(call[p], b)
  BY <1>0, <1>1, <1>q DEF QuestionFits, QuestionBusy, ListFits, ListBusy, TotalFits, TotalBusy
<1>4. /\ pub' = pub /\ published' = published /\ draft' = draft /\ version' = version
      /\ lCache' = lCache /\ tCache' = tCache
      /\ qCache' = [qCache EXCEPT ![q] = QuestionPages!NoPair]
      /\ spoiled' = spoiled \ QuestionPages!Cured(p, <<"question", q>>)
  BY <1>q DEF QuestionPages!DelQuestion
<1>5. \/ <<"question", q>> \in spoiled'
      \/ <<"question", q>> \notin spoiled
      \/ \A r \in Procs \ {p} : ~(call[r].id = q /\ call[r].pc \in {"eles", "set"})
  BY <1>4 DEF QuestionPages!Cured, QuestionPages!At
<1>6. spoiled \ {<<"question", q>>} \subseteq spoiled'
  BY <1>4 DEF QuestionPages!Cured
<1>7. PICK pair : pair = QuestionPages!NoPair
  OBVIOUS
<1>8. pair \in Nat \X Nat
  BY <1>7 DEF QuestionPages!NoPair
<1>9. QuestionFrees(p, c)
  BY <1>1, <1>2, <1>3, <1>4 DEF QuestionFrees
<1>10. QuestionPuts(p, c, q, pair)
  BY <1>3, <1>4, <1>5, <1>6, <1>7, <1>8, <1>9 DEF QuestionPuts
<1> QED
  BY <1>10, QuestionPut

LEMMA SetQuestionKeeps ==
    ASSUME QuestionInv, NEW p \in Procs, QuestionPages!SetQuestion(p)
    PROVE  QuestionInv'
<1>0. QuestionPages!After(p, "set") /\ call[p].pc = "set"
  BY DEF QuestionPages!SetQuestion
<1>a. call[p].op \in {"publish", "detail"} /\ call[p].id \in Ids /\ PairShown(call[p].id, call[p].pair)
  BY <1>0 DEF QuestionInv, QuestionHolds
<1>q. PICK q \in Ids : q = call[p].id
  BY <1>a
<1>1. PICK c \in QuestionCall :
          /\ call' = [call EXCEPT ![p] = c]
          /\ QuestionHolds(c)
          /\ \A r \in Ids : QuestionFits(c, r)
          /\ \A b \in Bizs : /\ ListFits(c, b) /\ TotalFits(c, b)
                             /\ ListBusy(call[p], b) => ListBusy(c, b)
                             /\ TotalBusy(call[p], b) => TotalBusy(c, b)
  BY <1>0, QuestionAfter
<1>3. \A r \in Ids : QuestionBusy(call[p], r) => r = q
  BY <1>q DEF QuestionBusy
<1>7. PICK pair : pair = call[p].pair
  OBVIOUS
<1>8. pair \in Nat \X Nat /\ PairShown(q, pair)
  BY <1>a, <1>q, <1>7 DEF QuestionInv, QuestionType, QuestionCall
<1>4. /\ pub' = pub /\ published' = published /\ draft' = draft /\ version' = version
      /\ lCache' = lCache /\ tCache' = tCache
      /\ qCache' = [qCache EXCEPT ![q] = pair]
      /\ spoiled' = IF pair = QuestionPages!Pair(pub[q])
                    THEN spoiled \ QuestionPages!Cured(p, <<"question", q>>) ELSE spoiled
  BY <1>q, <1>7 DEF QuestionPages!SetQuestion
<1>5. \/ <<"question", q>> \in spoiled'
      \/ /\ \/ <<"question", q>> \notin spoiled
            \/ \A r \in Procs \ {p} : ~(call[r].id = q /\ call[r].pc \in {"eles", "set"})
         /\ pair \in {QuestionPages!NoPair, QuestionPages!Pair(pub[q])}
  <2>1. CASE <<"question", q>> \in spoiled
    BY <1>4, <2>1 DEF QuestionPages!Cured, QuestionPages!At
  <2>2. CASE <<"question", q>> \notin spoiled
    BY <1>0, <1>q, <1>7, <2>2 DEF QuestionInv, QuestionCached, QuestionFits
  <2> QED
    BY <2>1, <2>2
<1>6. spoiled \ {<<"question", q>>} \subseteq spoiled'
  BY <1>4 DEF QuestionPages!Cured
<1>9. QuestionFrees(p, c)
  BY <1>1, <1>4 DEF QuestionFrees
<1>10. QuestionPuts(p, c, q, pair)
  BY <1>1, <1>3, <1>4, <1>5, <1>6, <1>8, <1>9 DEF QuestionPuts
<1> QED
  BY <1>10, QuestionPut

LEMMA GetPubByIDKeeps ==
    ASSUME QuestionInv, NEW p \in Procs, NEW q \in Ids, QuestionPages!GetPubByID(p, q)
    PROVE  QuestionInv'
<1>b. PICK none : none = ""
  OBVIOUS
<1>0. /\ QuestionPages!Begin(p, "detail", "row", q, none)
      /\ "detail" \in QuestionOps /\ "row" \in QuestionPcs /\ q \in QuestionIds
      /\ none \in QuestionBizs
  BY <1>b DEF QuestionPages!GetPubByID, QuestionPages!Ask, QuestionIds, QuestionBizs, QuestionOps, QuestionPcs
<1>c. PICK c : c = QuestionBegun("detail", "row", q, none)
  OBVIOUS
<1>1. /\ c \in QuestionCall /\ call[p].op = "idle" /\ call' = [call EXCEPT ![p] = c]
      /\ c.op = "detail" /\ c.pc = "row" /\ c.id = q
  BY <1>0, <1>c, QuestionBegins
<1>2. QuestionHolds(c)
  BY <1>1 DEF QuestionHolds
<1>3. /\ \A r \in Ids : QuestionFits(c, r)
      /\ \A b \in Bizs : ListFits(c, b) /\ TotalFits(c, b)
  BY <1>1 DEF QuestionFits, ListFits, TotalFits
<1>5. /\ \A r \in Ids : ~QuestionBusy(call[p], r)
      /\ \A b \in Bizs : ~ListBusy(call[p], b) /\ ~TotalBusy(call[p], b)
  BY <1>1, IdleIsFree DEF QuestionInv
<1>4. /\ pub' = pub /\ published' = published /\ draft' = draft /\ version' = version
      /\ lCache' = lCache /\ tCache' = tCache /\ spoiled' = spoiled
      /\ qCache' = [qCache EXCEPT ![q] = QuestionPages!NoPair]
  BY DEF QuestionPages!GetPubByID, QuestionPages!Ask
<1>7. PICK pair : pair = QuestionPages!NoPair
  OBVIOUS
<1>8. pair \in Nat \X Nat
  BY <1>7 DEF QuestionPages!NoPair
<1>9. QuestionFrees(p, c)
  BY <1>1, <1>2, <1>3, <1>4 DEF QuestionFrees
<1>10. QuestionPuts(p, c, q, pair)
  BY <1>3, <1>4, <1>5, <1>7, <1>8, <1>9 DEF QuestionPuts
<1> QED
  BY <1>10, QuestionPut

LEMMA SetQuestionsKeeps ==
    ASSUME QuestionInv, NEW p \in Procs, QuestionPages!SetQuestions(p)
    PROVE  QuestionInv'
<1>0. QuestionPages!After(p, "list") /\ call[p].pc = "setList"
  BY DEF QuestionPages!SetQuestions
<1>a. call[p].biz \in Bizs /\ PageShown(call[p].list)
  BY <1>0 DEF QuestionInv, QuestionHolds
<1>q. PICK b \in Bizs : b = call[p].biz
  BY <1>a
<1>1. PICK c \in QuestionCall :
          /\ call' = [call EXCEPT ![p] = c]
          /\ QuestionHolds(c)
          /\ \A r \in Ids : QuestionFits(c, r)
          /\ \A d \in Bizs : /\ ListFits(c, d) /\ TotalFits(c, d)
                             /\ TotalBusy(call[p], d) => TotalBusy(c, d)
  BY <1>0, QuestionAfter
<1>3. /\ \A r \in Ids : ~QuestionBusy(call[p], r)
      /\ \A d \in Bizs : ListBusy(call[p], d) => d = b
  BY <1>0, <1>q DEF QuestionBusy, ListBusy
<1>7. PICK list : list = call[p].list
  OBVIOUS
<1>4. /\ pub' = pub /\ published' = published /\ draft' = draft /\ version' = version
      /\ qCache' = qCache /\ tCache' = tCache
      /\ lCache' = [lCache EXCEPT ![b] = list]
      /\ spoiled' = IF list = QuestionPages!PubList(b)
                    THEN spoiled \ QuestionPages!Cured(p, <<"list", b>>) ELSE spoiled
  BY <1>q, <1>7 DEF QuestionPages!SetQuestions
<1>5. \/ <<"list", b>> \in spoiled'
      \/ /\ \/ <<"list", b>> \notin spoiled
            \/ \A r \in Procs \ {p} : ~(call[r].biz = b /\ call[r].pc = "setList")
         /\ list \in {QuestionPages!NoList, QuestionPages!PubList(b)}
  <2>1. CASE <<"list", b>> \in spoiled
    BY <1>4, <2>1 DEF QuestionPages!Cured
  <2>2. CASE <<"list", b>> \notin spoiled
    BY <1>0, <1>q, <1>7, <2>2 DEF QuestionInv, ListCached, ListFits
  <2> QED
    BY <2>1, <2>2
<1>6. spoiled \ {<<"list", b>>} \subseteq spoiled'
  BY <1>4 DEF QuestionPages!Cured
<1>9. QuestionFrees(p, c)
  BY <1>1, <1>4 DEF QuestionFrees
<1>10. ListPuts(p, c, b, list)
  BY <1>a, <1>1, <1>3, <1>4, <1>5, <1>6, <1>7, <1>9 DEF ListPuts
<1> QED
  BY <1>10, ListPut

LEMMA SetTotalKeeps ==
    ASSUME QuestionInv, NEW p \in Procs, QuestionPages!SetTotal(p)
    PROVE  QuestionInv'
<1>0. QuestionPages!After(p, "total") /\ call[p].pc = "setTotal"
  BY DEF QuestionPages!SetTotal
<1>q. PICK b : b = call[p].biz
  OBVIOUS
<1>1. PICK c \in QuestionCall :
          /\ call' = [call EXCEPT ![p] = c]
          /\ QuestionHolds(c)
          /\ \A r \in Ids : QuestionFits(c, r)
          /\ \A d \in Bizs : ListFits(c, d) /\ TotalFits(c, d)
  BY <1>0, QuestionAfter
<1>3. /\ \A r \in Ids : ~QuestionBusy(call[p], r)
      /\ \A d \in Bizs : ~ListBusy(call[p], d)
      /\ \A d \in Bizs : TotalBusy(call[p], d) => d = b
  BY <1>0, <1>q DEF QuestionBusy, ListBusy, TotalBusy
<1>7. PICK num : num = call[p].num
  OBVIOUS
<1>4. /\ pub' = pub /\ published' = published /\ draft' = draft /\ version' = version
      /\ qCache' = qCache /\ lCache' = lCache
      /\ tCache' = [tCache EXCEPT ![b] = num]
      /\ spoiled' = IF num = QuestionPages!PubCount(b)
                    THEN spoiled \ QuestionPages!Cured(p, <<"total", b>>) ELSE spoiled
  BY <1>q, <1>7 DEF QuestionPages!SetTotal
<1>5. \/ <<"total", b>> \in spoiled'
      \/ b \notin Bizs
      \/ /\ \/ <<"total", b>> \notin spoiled
            \/ \A r \in Procs \ {p} : ~(call[r].biz = b /\ call[r].pc = "setTotal")
         /\ num \in {QuestionPages!Miss, QuestionPages!PubCount(b)}
  <2>1. CASE <<"total", b>> \in spoiled
    BY <1>4, <2>1 DEF QuestionPages!Cured
  <2>2. CASE <<"total", b>> \notin spoiled /\ b \in Bizs
    BY <1>0, <1>q, <1>7, <2>2 DEF QuestionInv, TotalCached, TotalFits
  <2> QED
    BY <2>1, <2>2
<1>6. spoiled \ {<<"total", b>>} \subseteq spoiled'
  BY <1>4 DEF QuestionPages!Cured
<1>9. QuestionFrees(p, c)
  BY <1>1, <1>4 DEF QuestionFrees
<1>10. TotalPuts(p, c, b, num)
  BY <1>1, <1>3, <1>4, <1>5, <1>6, <1>9 DEF TotalPuts
<1> QED
  BY <1>10, TotalPut

LEMMA GetListKeeps ==
    ASSUME QuestionInv, NEW p \in Procs, NEW b \in Bizs, QuestionPages!GetList(p, b)
    PROVE  QuestionInv'
<1>0. /\ QuestionPages!Begin(p, "list", "list", 0, b)
      /\ "list" \in QuestionOps /\ "list" \in QuestionPcs /\ 0 \in QuestionIds
      /\ b \in QuestionBizs
  BY DEF QuestionPages!GetList, QuestionPages!Ask, QuestionIds, QuestionBizs, QuestionOps, QuestionPcs
<1>c. PICK c : c = QuestionBegun("list", "list", 0, b)
  OBVIOUS
<1>1. /\ c \in QuestionCall /\ call[p].op = "idle" /\ call' = [call EXCEPT ![p] = c]
      /\ c.op = "list" /\ c.pc = "list" /\ c.biz = b
  BY <1>0, <1>c, QuestionBegins
<1>2. QuestionHolds(c)
  BY <1>1 DEF QuestionHolds
<1>3. /\ \A r \in Ids : QuestionFits(c, r)
      /\ \A d \in Bizs : ListFits(c, d) /\ TotalFits(c, d)
  BY <1>1 DEF QuestionFits, ListFits, TotalFits
<1>b. /\ \A r \in Ids : ~QuestionBusy(call[p], r)
      /\ \A d \in Bizs : ~ListBusy(call[p], d) /\ ~TotalBusy(call[p], d)
  BY <1>1, IdleIsFree DEF QuestionInv
<1>4. /\ pub' = pub /\ published' = published /\ draft' = draft /\ version' = version
      /\ qCache' = qCache /\ tCache' = tCache /\ spoiled' = spoiled
      /\ lCache' = [lCache EXCEPT ![b] = QuestionPages!NoList]
  BY DEF QuestionPages!GetList, QuestionPages!Ask
<1>9. QuestionFrees(p, c)
  BY <1>1, <1>2, <1>3, <1>4 DEF QuestionFrees
<1>10. ListPuts(p, c, b, QuestionPages!NoList)
  BY <1>b, <1>3, <1>4, <1>9 DEF ListPuts
<1> QED
  BY <1>10, ListPut

LEMMA GetCountKeeps ==
    ASSUME QuestionInv, NEW p \in Procs, NEW b \in Bizs, QuestionPages!GetCount(p, b)
    PROVE  QuestionInv'
<1>0. /\ QuestionPages!Begin(p, "count", "total", 0, b)
      /\ "count" \in QuestionOps /\ "total" \in QuestionPcs /\ 0 \in QuestionIds
      /\ b \in QuestionBizs
  BY DEF QuestionPages!GetCount, QuestionPages!Ask, QuestionIds, QuestionBizs, QuestionOps, QuestionPcs
<1>c. PICK c : c = QuestionBegun("count", "total", 0, b)
  OBVIOUS
<1>1. /\ c \in QuestionCall /\ call[p].op = "idle" /\ call' = [call EXCEPT ![p] = c]
      /\ c.op = "count" /\ c.pc = "total" /\ c.biz = b
  BY <1>0, <1>c, QuestionBegins
<1>2. QuestionHolds(c)
  BY <1>1 DEF QuestionHolds
<1>3. /\ \A r \in Ids : QuestionFits(c, r)
      /\ \A d \in Bizs : ListFits(c, d) /\ TotalFits(c, d)
  BY <1>1 DEF QuestionFits, ListFits, TotalFits
<1>b. /\ \A r \in Ids : ~QuestionBusy(call[p], r)
      /\ \A d \in Bizs : ~ListBusy(call[p], d) /\ ~TotalBusy(call[p], d)
  BY <1>1, IdleIsFree DEF QuestionInv
<1>4. /\ pub' = pub /\ published' = published /\ draft' = draft /\ version' = version
      /\ qCache' = qCache /\ lCache' = lCache /\ spoiled' = spoiled
      /\ tCache' = [tCache EXCEPT ![b] = QuestionPages!Miss]
  BY DEF QuestionPages!GetCount, QuestionPages!Ask
<1>9. QuestionFrees(p, c)
  BY <1>1, <1>2, <1>3, <1>4 DEF QuestionFrees
<1>10. TotalPuts(p, c, b, QuestionPages!Miss)
  BY <1>b, <1>3, <1>4, <1>9 DEF TotalPuts
<1> QED
  BY <1>10, TotalPut

-----------------------------------------------------------------------------
(* The steps that only read, or only send. *)

\* A call with its next step and what it has in hand.
QuestionHas(p, pc, pair, list, num) ==
    [call[p] EXCEPT !.pc = pc, !.pair = pair, !.list = list, !.num = num]

LEMMA QuestionReads ==
    ASSUME QuestionInv, NEW p \in Procs, NEW pc \in QuestionPcs, NEW pair \in Nat \X Nat,
           NEW list \in SUBSET (Ids \X Nat), NEW num \in Nat
    PROVE  LET c == QuestionHas(p, pc, pair, list, num)
           IN  /\ c \in QuestionCall
               /\ c.pc = pc /\ c.pair = pair /\ c.list = list /\ c.num = num
               /\ c.op = call[p].op /\ c.id = call[p].id /\ c.biz = call[p].biz
<1>1. call[p] \in QuestionCall
  BY DEF QuestionInv, QuestionType
<1> QED
  BY <1>1 DEF QuestionCall, QuestionHas

LEMMA InHand ==
    ASSUME QuestionInv, NEW p \in Procs
    PROVE  /\ call[p].pair \in Nat \X Nat /\ call[p].list \in SUBSET (Ids \X Nat) /\ call[p].num \in Nat
           /\ QuestionHolds(call[p])
<1>1. call[p] \in QuestionCall
  BY DEF QuestionInv, QuestionType
<1> QED
  BY <1>1 DEF QuestionCall, QuestionInv

\* What such a step leaves alone.
OnlyReads ==
    /\ draft' = draft /\ pub' = pub /\ published' = published /\ version' = version
    /\ qCache' = qCache /\ lCache' = lCache /\ tCache' = tCache /\ spoiled \subseteq spoiled'

LEMMA RowKeeps ==
    ASSUME QuestionInv, NEW p \in Procs, QuestionPages!ReadRow(p)
    PROVE  QuestionInv'
<1>0. call[p].pc = "row" /\ OnlyReads
  BY DEF QuestionPages!ReadRow, QuestionPages!OnlyCalls, OnlyReads
<1>a. call[p].id \in Ids /\ call[p].op \in {"publish", "detail"}
  BY <1>0 DEF QuestionInv, QuestionHolds
<1>q. PICK q \in Ids : q = call[p].id
  BY <1>a
<1>1. CASE pub[q] = QuestionPages!NoRow
  <2>1. QuestionPages!After(p, "set")
    BY <1>1, <1>q DEF QuestionPages!ReadRow
  <2>2. PICK c \in QuestionCall :
            /\ call' = [call EXCEPT ![p] = c]
            /\ QuestionHolds(c)
            /\ \A r \in Ids : QuestionFits(c, r)
            /\ \A b \in Bizs : /\ ListFits(c, b) /\ TotalFits(c, b)
                               /\ ListBusy(call[p], b) => ListBusy(c, b)
                               /\ TotalBusy(call[p], b) => TotalBusy(c, b)
    BY <1>0, <2>1, QuestionAfter
  <2>3. \A r \in Ids : ~QuestionBusy(call[p], r)
    BY <1>0, <1>1, <1>q DEF QuestionBusy
  <2>4. QuestionKeepsOn(p, c)
    BY <2>2, <2>3 DEF QuestionKeepsOn
  <2> QED
    BY <1>0, <2>2, <2>4, QuestionLooks DEF OnlyReads
<1>2. CASE pub[q] # QuestionPages!NoRow
  <2>0. pub[q].ver \in published[q] /\ pub[q].ver \in Nat
    BY <1>2 DEF QuestionInv, QuestionType, QuestionRow, RowsArePublished
  <2>a. PICK pair : pair = <<pub[q].ver, 0>>
    OBVIOUS
  <2>b. pair \in Nat \X Nat /\ pair[1] = pub[q].ver /\ pair[2] = 0
    BY <2>0, <2>a
  <2>1. pair \in Nat \X Nat /\ pair = <<pub[q].ver, 0>> /\ PairShown(q, pair)
    BY <2>0, <2>a, <2>b DEF PairShown
  <2>2. PICK c : c = QuestionHas(p, "eles", pair, call[p].list, call[p].num)
    OBVIOUS
  <2>3. /\ c \in QuestionCall /\ c.pc = "eles" /\ c.pair = pair
        /\ c.op = call[p].op /\ c.id = q /\ c.biz = call[p].biz
    BY <1>q, <2>b, <2>2, InHand, QuestionReads DEF QuestionPcs
  <2>4. call' = [call EXCEPT ![p] = c]
    <3>1. call' = [call EXCEPT ![p].pair = pair, ![p].pc = "eles"]
      BY <1>2, <1>q, <2>1 DEF QuestionPages!ReadRow
    <3>2. c = [call[p] EXCEPT !.pair = pair, !.pc = "eles"]
      <4>1. call[p] \in QuestionCall
        BY DEF QuestionInv, QuestionType
      <4> QED
        BY <2>2, <4>1 DEF QuestionHas, QuestionCall
    <3> QED
      BY <3>1, <3>2
  <2>5. QuestionHolds(c)
    BY <1>a, <2>1, <2>3, InHand DEF QuestionHolds
  <2>6. QuestionKeepsOn(p, c)
    BY <1>0, <1>q, <2>1, <2>3 DEF QuestionKeepsOn, QuestionFits, QuestionBusy, ListFits, ListBusy,
       TotalFits, TotalBusy
  <2> QED
    BY <1>0, <2>3, <2>4, <2>5, <2>6, QuestionLooks DEF OnlyReads
<1> QED
  BY <1>1, <1>2

LEMMA ElesKeeps ==
    ASSUME QuestionInv, NEW p \in Procs, QuestionPages!ReadEles(p)
    PROVE  QuestionInv'
<1>0. call[p].pc = "eles" /\ OnlyReads
  BY DEF QuestionPages!ReadEles, QuestionPages!OnlyCalls, OnlyReads
<1>a. call[p].id \in Ids /\ call[p].op \in {"publish", "detail"} /\ PairShown(call[p].id, call[p].pair)
  BY <1>0 DEF QuestionInv, QuestionHolds
<1>q. PICK q \in Ids : q = call[p].id
  BY <1>a
<1>1. pub[q].ver \in published[q] \cup {0} /\ pub[q].ver \in Nat
  BY NoRowIsEmpty DEF QuestionInv, QuestionType, QuestionRow, RowsArePublished
<1>b. PICK pair : pair = <<call[p].pair[1], pub[q].ver>>
  OBVIOUS
<1>c. pair \in Nat \X Nat /\ pair[1] = call[p].pair[1] /\ pair[2] = pub[q].ver
  BY <1>1, <1>b, InHand
<1>2. pair \in Nat \X Nat /\ pair = <<call[p].pair[1], pub[q].ver>> /\ PairShown(q, pair)
  BY <1>1, <1>a, <1>b, <1>c, <1>q DEF PairShown
<1>3. PICK c : c = QuestionHas(p, "set", pair, call[p].list, call[p].num)
  OBVIOUS
<1>4. /\ c \in QuestionCall /\ c.pc = "set" /\ c.pair = pair
      /\ c.op = call[p].op /\ c.id = q /\ c.biz = call[p].biz
  BY <1>q, <1>c, <1>3, InHand, QuestionReads DEF QuestionPcs
<1>5. call' = [call EXCEPT ![p] = c]
  <2>1. call' = [call EXCEPT ![p].pair = pair, ![p].pc = "set"]
    BY <1>q, <1>2 DEF QuestionPages!ReadEles
  <2>2. c = [call[p] EXCEPT !.pair = pair, !.pc = "set"]
    <3>1. call[p] \in QuestionCall
      BY DEF QuestionInv, QuestionType
    <3> QED
      BY <1>3, <3>1 DEF QuestionHas, QuestionCall
  <2> QED
    BY <2>1, <2>2
<1>6. QuestionHolds(c)
  BY <1>a, <1>2, <1>4, InHand DEF QuestionHolds
<1>7. <<"question", q>> \in spoiled' \/ c.pair = QuestionPages!Pair(pub[q])
  <2>1. CASE <<"question", q>> \notin spoiled
    <3>1. call[p].pair = <<pub[q].ver, 0>>
      BY <1>0, <1>q, <2>1 DEF QuestionInv, QuestionCached, QuestionFits
    <3> QED
      BY <1>2, <1>4, <3>1 DEF QuestionPages!Pair
  <2> QED
    BY <1>0, <2>1 DEF OnlyReads
<1>8. QuestionKeepsOn(p, c)
  BY <1>0, <1>q, <1>4, <1>7 DEF QuestionKeepsOn, QuestionFits, QuestionBusy, ListFits, ListBusy,
     TotalFits, TotalBusy
<1> QED
  BY <1>0, <1>4, <1>5, <1>6, <1>8, QuestionLooks DEF OnlyReads

LEMMA ReadListKeeps ==
    ASSUME QuestionInv, NEW p \in Procs, QuestionPages!ReadList(p)
    PROVE  QuestionInv'
<1>0. call[p].pc = "list" /\ OnlyReads
  BY DEF QuestionPages!ReadList, QuestionPages!OnlyCalls, OnlyReads
<1>a. call[p].biz \in Bizs /\ call[p].op \in {"publish", "delete", "list"}
  BY <1>0 DEF QuestionInv, QuestionHolds
<1>q. PICK b \in Bizs : b = call[p].biz
  BY <1>a
<1>1. PICK list : list = QuestionPages!PubList(b)
  OBVIOUS
<1>2. list \in SUBSET (Ids \X Nat) /\ PageShown(list)
  <2>1. \A r \in Ids : pub[r].biz = b =>
            pub[r].ver \in Nat /\ pub[r].ver \in published[r]
    BY NoRowIsEmpty, ContentAssumption DEF QuestionInv, QuestionType, QuestionRow, RowsArePublished
  <2> QED
    BY <1>1, <2>1 DEF QuestionPages!PubList, PageShown
<1>3. PICK c : c = QuestionHas(p, "setList", call[p].pair, list, call[p].num)
  OBVIOUS
<1>4. /\ c \in QuestionCall /\ c.pc = "setList" /\ c.list = list
      /\ c.op = call[p].op /\ c.id = call[p].id /\ c.biz = b
  BY <1>q, <1>2, <1>3, InHand, QuestionReads DEF QuestionPcs
<1>5. call' = [call EXCEPT ![p] = c]
  <2>1. call' = [call EXCEPT ![p].list = list, ![p].pc = "setList"]
    BY <1>q, <1>1 DEF QuestionPages!ReadList
  <2>2. c = [call[p] EXCEPT !.list = list, !.pc = "setList"]
    <3>1. call[p] \in QuestionCall
      BY DEF QuestionInv, QuestionType
    <3> QED
      BY <1>3, <3>1 DEF QuestionHas, QuestionCall
  <2> QED
    BY <2>1, <2>2
<1>6. QuestionHolds(c)
  BY <1>a, <1>2, <1>4, InHand DEF QuestionHolds
<1>7. QuestionKeepsOn(p, c)
  BY <1>0, <1>q, <1>1, <1>4 DEF QuestionKeepsOn, QuestionFits, QuestionBusy, ListFits, ListBusy,
     TotalFits, TotalBusy
<1> QED
  BY <1>0, <1>4, <1>5, <1>6, <1>7, QuestionLooks DEF OnlyReads

LEMMA ReadTotalKeeps ==
    ASSUME QuestionInv, NEW p \in Procs, QuestionPages!ReadTotal(p)
    PROVE  QuestionInv'
<1>0. call[p].pc = "total" /\ OnlyReads
  BY DEF QuestionPages!ReadTotal, QuestionPages!OnlyCalls, OnlyReads
<1>1. PICK num : num = QuestionPages!PubCount(call[p].biz)
  OBVIOUS
<1>2. num \in Nat
  <2>1. IsFiniteSet({q \in Ids : pub[q].biz = call[p].biz})
    BY ContentAssumption, FS_Subset
  <2> QED
    BY <1>1, <2>1, FS_CardinalityType DEF QuestionPages!PubCount, QuestionPages!Cardinality, Cardinality
<1>3. PICK c : c = QuestionHas(p, "setTotal", call[p].pair, call[p].list, num)
  OBVIOUS
<1>4. /\ c \in QuestionCall /\ c.pc = "setTotal" /\ c.num = num
      /\ c.op = call[p].op /\ c.id = call[p].id /\ c.biz = call[p].biz
  BY <1>2, <1>3, InHand, QuestionReads DEF QuestionPcs
<1>5. call' = [call EXCEPT ![p] = c]
  <2>1. call' = [call EXCEPT ![p].num = num, ![p].pc = "setTotal"]
    BY <1>1 DEF QuestionPages!ReadTotal
  <2>2. c = [call[p] EXCEPT !.num = num, !.pc = "setTotal"]
    <3>1. call[p] \in QuestionCall
      BY DEF QuestionInv, QuestionType
    <3> QED
      BY <1>3, <3>1 DEF QuestionHas, QuestionCall
  <2> QED
    BY <2>1, <2>2
<1>6. QuestionHolds(c)
  BY <1>4, InHand DEF QuestionHolds
<1>7. QuestionKeepsOn(p, c)
  BY <1>0, <1>1, <1>4 DEF QuestionKeepsOn, QuestionFits, QuestionBusy, ListFits, ListBusy,
     TotalFits, TotalBusy
<1> QED
  BY <1>0, <1>4, <1>5, <1>6, <1>7, QuestionLooks DEF OnlyReads

\* A call that is on its way to no entry, and goes on with nothing for one.
LEMMA QuestionSends ==
    ASSUME QuestionInv, NEW p \in Procs, NEW c \in QuestionCall, QuestionHolds(c),
           call' = [call EXCEPT ![p] = c], OnlyReads,
           call[p].pc \in {"draft", "draftEles", "produce", "live"},
           c.pc \notin {"eles", "set", "setList", "setTotal"}
    PROVE  QuestionInv'
<1>1. QuestionKeepsOn(p, c)
  BY DEF QuestionKeepsOn, QuestionFits, QuestionBusy, ListFits, ListBusy, TotalFits, TotalBusy
<1> QED
  BY <1>1, QuestionLooks DEF OnlyReads

LEMMA ReadDraftKeeps ==
    ASSUME QuestionInv, NEW p \in Procs, QuestionPages!ReadDraft(p)
    PROVE  QuestionInv'
<1>0. call[p].pc = "draft" /\ OnlyReads
  BY DEF QuestionPages!ReadDraft, QuestionPages!OnlyCalls, OnlyReads
<1>a. call[p].id \in Ids /\ call[p].op \in {"save", "publish"}
  BY <1>0 DEF QuestionInv, QuestionHolds
<1>q. PICK q \in Ids : q = call[p].id
  BY <1>a
<1>1. CASE draft[q] = QuestionPages!NoRow
  <2>1. QuestionPages!Done(p)
    BY <1>1, <1>q DEF QuestionPages!ReadDraft
  <2>2. PICK c : c = QuestionPages!Idle
    OBVIOUS
  <2>3. c \in QuestionCall /\ QuestionHolds(c) /\ call' = [call EXCEPT ![p] = c]
    BY <2>1, <2>2, DoneIsFree DEF QuestionPages!Done
  <2>4. c.pc = "idle"
    BY <2>2 DEF QuestionPages!Idle
  <2> QED
    BY <1>0, <2>3, <2>4, QuestionSends
<1>2. CASE draft[q] # QuestionPages!NoRow
  <2>0. draft[q].ver \in Nat
    BY DEF QuestionInv, QuestionType, QuestionRow
  <2>a. PICK pair : pair = <<draft[q].ver, 0>>
    OBVIOUS
  <2>b. pair \in Nat \X Nat
    BY <2>0, <2>a
  <2>2. PICK c : c = QuestionHas(p, "draftEles", pair, call[p].list, call[p].num)
    OBVIOUS
  <2>3. /\ c \in QuestionCall /\ c.pc = "draftEles" /\ c.pair = pair
        /\ c.op = call[p].op /\ c.id = q /\ c.biz = call[p].biz
    BY <1>q, <2>b, <2>2, InHand, QuestionReads DEF QuestionPcs
  <2>4. call' = [call EXCEPT ![p] = c]
    <3>1. call' = [call EXCEPT ![p].pair = pair, ![p].pc = "draftEles"]
      BY <1>2, <1>q, <2>a DEF QuestionPages!ReadDraft
    <3>2. c = [call[p] EXCEPT !.pair = pair, !.pc = "draftEles"]
      <4>1. call[p] \in QuestionCall
        BY DEF QuestionInv, QuestionType
      <4> QED
        BY <2>2, <4>1 DEF QuestionHas, QuestionCall
    <3> QED
      BY <3>1, <3>2
  <2>5. QuestionHolds(c)
    BY <1>a, <2>3, InHand DEF QuestionHolds
  <2> QED
    BY <1>0, <2>3, <2>4, <2>5, QuestionSends
<1> QED
  BY <1>1, <1>2

LEMMA ReadDraftElesKeeps ==
    ASSUME QuestionInv, NEW p \in Procs, QuestionPages!ReadDraftEles(p)
    PROVE  QuestionInv'
<1>0. call[p].pc = "draftEles" /\ OnlyReads
  BY DEF QuestionPages!ReadDraftEles, QuestionPages!OnlyCalls, OnlyReads
<1>a. call[p].id \in Ids /\ call[p].op \in {"save", "publish"}
  BY <1>0 DEF QuestionInv, QuestionHolds
<1>1. draft[call[p].id].ver \in Nat
  BY <1>a DEF QuestionInv, QuestionType, QuestionRow
<1>b. PICK pair : pair = <<call[p].pair[1], draft[call[p].id].ver>>
  OBVIOUS
<1>c. pair \in Nat \X Nat
  BY <1>1, <1>b, InHand
<1>3. PICK c : c = QuestionHas(p, "produce", pair, call[p].list, call[p].num)
  OBVIOUS
<1>4. /\ c \in QuestionCall /\ c.pc = "produce" /\ c.pair = pair
      /\ c.op = call[p].op /\ c.id = call[p].id /\ c.biz = call[p].biz
  BY <1>c, <1>3, InHand, QuestionReads DEF QuestionPcs
<1>5. call' = [call EXCEPT ![p] = c]
  <2>1. call' = [call EXCEPT ![p].pair = pair, ![p].pc = "produce"]
    BY <1>b DEF QuestionPages!ReadDraftEles
  <2>2. c = [call[p] EXCEPT !.pair = pair, !.pc = "produce"]
    <3>1. call[p] \in QuestionCall
      BY DEF QuestionInv, QuestionType
    <3> QED
      BY <1>3, <3>1 DEF QuestionHas, QuestionCall
  <2> QED
    BY <2>1, <2>2
<1>6. QuestionHolds(c)
  BY <1>a, <1>4, InHand DEF QuestionHolds
<1> QED
  BY <1>0, <1>4, <1>5, <1>6, QuestionSends

LEMMA SyncKeeps ==
    ASSUME QuestionInv, NEW p \in Procs,
           QuestionPages!syncQuestion(p) \/ QuestionPages!syncPubQuestion(p)
    PROVE  QuestionInv'
<1>0. call[p].pc \in {"produce", "live"} /\ OnlyReads
  BY DEF QuestionPages!syncQuestion, QuestionPages!syncPubQuestion, OnlyReads
<1>1. PICK pc \in {"produce", "live"} : QuestionPages!After(p, pc)
  BY DEF QuestionPages!syncQuestion, QuestionPages!syncPubQuestion
<1>2. PICK c \in QuestionCall :
          /\ call' = [call EXCEPT ![p] = c]
          /\ QuestionHolds(c)
          /\ \A r \in Ids : QuestionFits(c, r)
          /\ \A b \in Bizs : ListFits(c, b) /\ TotalFits(c, b)
  BY <1>1, QuestionAfter
<1>3. QuestionKeepsOn(p, c)
  BY <1>0, <1>2 DEF QuestionKeepsOn, QuestionBusy, ListBusy, TotalBusy
<1> QED
  BY <1>0, <1>2, <1>3, QuestionLooks DEF OnlyReads

LEMMA FailsKeeps ==
    ASSUME QuestionInv, NEW p \in Procs, QuestionPages!Fails(p)
    PROVE  QuestionInv'
<1>0. /\ OnlyReads
      /\ call[p].pc \in {"set", "del", "setList", "setTotal", "produce", "live"}
      /\ call[p].pc = "del" => QuestionPages!Goto(p, "list")
      /\ call[p].pc = "setList" => QuestionPages!After(p, "list")
      /\ call[p].pc = "setTotal" => QuestionPages!After(p, "total")
      /\ call[p].pc \in {"set", "produce", "live"} => QuestionPages!After(p, call[p].pc)
  BY DEF QuestionPages!Fails, OnlyReads
<1>k. /\ call[p].pc \in {"set", "del"} => <<"question", call[p].id>> \in spoiled'
      /\ call[p].pc = "setList" => <<"list", call[p].biz>> \in spoiled'
      /\ call[p].pc = "setTotal" => <<"total", call[p].biz>> \in spoiled'
  BY DEF QuestionPages!Fails
<1>1. CASE call[p].pc = "del"
  <2>1. "list" \in QuestionPcs
    BY DEF QuestionPcs
  <2>2. call[p].op = "delete" /\ call[p].id \in Ids /\ call[p].biz \in Bizs
    BY <1>1 DEF QuestionInv, QuestionHolds
  <2>3. PICK c : c = QuestionAt(p, "list")
    OBVIOUS
  <2>4. /\ c \in QuestionCall /\ call' = [call EXCEPT ![p] = c]
        /\ c.op = "delete" /\ c.pc = "list" /\ c.id = call[p].id /\ c.biz = call[p].biz
    BY <1>0, <1>1, <2>1, <2>2, <2>3, QuestionGoto
  <2>5. QuestionHolds(c)
    BY <2>2, <2>4 DEF QuestionHolds
  <2>6. QuestionKeepsOn(p, c)
    BY <1>1, <1>k, <2>4 DEF QuestionKeepsOn, QuestionFits, QuestionBusy, ListFits, ListBusy,
       TotalFits, TotalBusy
  <2> QED
    BY <1>0, <2>4, <2>5, <2>6, QuestionLooks DEF OnlyReads
<1>2. CASE call[p].pc # "del"
  <2>1. PICK pc \in {"set", "list", "total", "produce", "live"} :
            /\ QuestionPages!After(p, pc)
            /\ pc = "set" <=> call[p].pc = "set"
            /\ pc = "list" <=> call[p].pc = "setList"
    BY <1>0, <1>2
  <2>2. PICK c \in QuestionCall :
            /\ call' = [call EXCEPT ![p] = c]
            /\ QuestionHolds(c)
            /\ \A q \in Ids : QuestionFits(c, q)
            /\ \A b \in Bizs : /\ ListFits(c, b) /\ TotalFits(c, b)
                               /\ pc = "set" /\ call[p].pc \in {"row", "set"} /\ ListBusy(call[p], b) =>
                                      ListBusy(c, b)
                               /\ pc \in {"set", "list"} /\ TotalBusy(call[p], b) =>
                                      TotalBusy(c, b)
    BY <2>1, QuestionAfter
  <2>3. \A q \in Ids : <<"question", q>> \in spoiled' \/ ~QuestionBusy(call[p], q)
    BY <1>0, <1>k DEF QuestionBusy
  <2>4. \A b \in Bizs : call[p].pc # "set" => (<<"list", b>> \in spoiled' \/ ~ListBusy(call[p], b))
    BY <1>0, <1>2, <1>k DEF ListBusy
  <2>5. \A b \in Bizs : call[p].pc \notin {"set", "setList"} =>
                            (<<"total", b>> \in spoiled' \/ ~TotalBusy(call[p], b))
    BY <1>0, <1>2, <1>k DEF TotalBusy
  <2>6. QuestionKeepsOn(p, c)
    BY <2>1, <2>2, <2>3, <2>4, <2>5 DEF QuestionKeepsOn
  <2> QED
    BY <1>0, <2>2, <2>6, QuestionLooks DEF OnlyReads
<1> QED
  BY <1>1, <1>2

LEMMA QuestionIdles ==
    ASSUME QuestionInv, OnlyReads, call' = call
    PROVE  QuestionInv'
<1>1. QuestionType'
  BY DEF QuestionInv, QuestionType, OnlyReads
<1>2. \A p \in Procs : QuestionHolds(call[p])'
  BY DEF QuestionInv, QuestionHolds, PairShown, PageShown, OnlyReads
<1>3. RowsArePublished' /\ QuestionDrafts' /\ QuestionPages!PublishedIsLive'
  BY DEF QuestionInv, RowsArePublished, QuestionDrafts, QuestionPages!PublishedIsLive, PairShown,
     PageShown, OnlyReads
<1>4. \A q \in Ids : QuestionCached(q)'
  BY DEF QuestionInv, QuestionCached, QuestionFits, QuestionBusy, QuestionPages!Pair, OnlyReads
<1>5. \A b \in Bizs : ListCached(b)' /\ TotalCached(b)'
  <2> SUFFICES ASSUME NEW b \in Bizs PROVE ListCached(b)' /\ TotalCached(b)'
    OBVIOUS
  <2>1. /\ QuestionPages!PubList(b)' = QuestionPages!PubList(b)
        /\ QuestionPages!PubCount(b)' = QuestionPages!PubCount(b)
    BY SamePages DEF OnlyReads
  <2> QED
    BY <2>1 DEF QuestionInv, ListCached, ListFits, ListBusy, TotalCached, TotalFits, TotalBusy, OnlyReads
<1> QED
  BY <1>1, <1>2, <1>3, <1>4, <1>5 DEF QuestionInv

LEMMA QuestionNext ==
    ASSUME QuestionInv, QuestionPages!Next
    PROVE  QuestionInv'
<1>1. CASE \E p \in Procs, q \in Ids :
              \/ QuestionPages!Delete(p, q) \/ QuestionPages!GetPubByID(p, q)
              \/ \E b \in Bizs : QuestionPages!Save(p, q, b) \/ QuestionPages!Publish(p, q, b)
  BY <1>1, DeleteKeeps, GetPubByIDKeeps, SaveKeeps, PublishKeeps
<1>2. CASE \E p \in Procs, b \in Bizs : QuestionPages!GetList(p, b) \/ QuestionPages!GetCount(p, b)
  BY <1>2, GetListKeeps, GetCountKeeps
<1>3. CASE \E p \in Procs : QuestionPages!Step(p) \/ QuestionPages!Fails(p)
  <2>1. PICK p \in Procs : QuestionPages!Step(p) \/ QuestionPages!Fails(p)
    BY <1>3
  <2>2. CASE QuestionPages!Step(p)
    BY <2>2, DeleteTxKeeps, DelQuestionKeeps, RowKeeps, ElesKeeps, SetQuestionKeeps, ReadListKeeps,
       SetQuestionsKeeps, ReadTotalKeeps, SetTotalKeeps, ReadDraftKeeps, ReadDraftElesKeeps, SyncKeeps
       DEF QuestionPages!Step
  <2> QED
    BY <2>1, <2>2, FailsKeeps
<1>4. CASE QuestionPages!Consume \/ QuestionPages!ConsumeFails
  <2>1. OnlyReads /\ call' = call
    BY <1>4 DEF QuestionPages!Consume, QuestionPages!ConsumeFails, OnlyReads
  <2> QED
    BY <2>1, QuestionIdles
<1> QED
  BY <1>1, <1>2, <1>3, <1>4 DEF QuestionPages!Next

LEMMA QuestionIsRight ==
    ASSUME QuestionInv
    PROVE  /\ QuestionPages!CachesShowTheTable
           /\ QuestionPages!DraftsStayPrivate
           /\ QuestionPages!PublishedIsLive
<1>1. ASSUME NEW q \in Ids, <<"question", q>> \notin spoiled, ~QuestionPages!Refreshing(q)
      PROVE  qCache[q] \in {QuestionPages!NoPair, QuestionPages!Pair(pub[q])}
  <2>1. \A p \in Procs : ~QuestionBusy(call[p], q)
    BY <1>1 DEF QuestionPages!Refreshing, QuestionPages!At, QuestionBusy
  <2> QED
    BY <1>1, <2>1 DEF QuestionInv, QuestionCached
<1>2. ASSUME NEW b \in Bizs, <<"list", b>> \notin spoiled,
             ~QuestionPages!RefreshingBiz(b, {"row", "eles", "set", "del", "list", "setList"})
      PROVE  lCache[b] \in {QuestionPages!NoList, QuestionPages!PubList(b)}
  <2>1. \A p \in Procs : ~ListBusy(call[p], b)
    BY <1>2 DEF QuestionPages!RefreshingBiz, ListBusy
  <2> QED
    BY <1>2, <2>1 DEF QuestionInv, ListCached
<1>3. ASSUME NEW b \in Bizs, <<"total", b>> \notin spoiled,
             ~QuestionPages!RefreshingBiz(b, {"row", "eles", "set", "list", "setList", "total", "setTotal"})
      PROVE  tCache[b] \in {QuestionPages!Miss, QuestionPages!PubCount(b)}
  <2>1. \A p \in Procs : ~TotalBusy(call[p], b)
    BY <1>3 DEF QuestionPages!RefreshingBiz, TotalBusy
  <2> QED
    BY <1>3, <2>1 DEF QuestionInv, TotalCached
<1>4. QuestionPages!CachesShowTheTable
  BY <1>1, <1>2, <1>3 DEF QuestionPages!CachesShowTheTable
<1>5. QuestionPages!DraftsStayPrivate
  BY DEF QuestionInv, QuestionDrafts, PairShown, PageShown, QuestionPages!DraftsStayPrivate
<1> QED
  BY <1>4, <1>5 DEF QuestionInv

-----------------------------------------------------------------------------
(***************************************************************************)
(* Cases.                                                                  *)
(***************************************************************************)
CaseOps == {"idle", "save", "publish", "detail", "page", "count"}

CasePcs == {"idle", "get", "setOwn", "list", "setList", "row", "set", "produce", "upload", "total",
            "setTotal"}

\* A call on the page has no id, and one that is over no biz.
CaseIds == Ids \cup {0}
CaseBizs == Bizs \cup {"", DefaultBiz}

CaseRow == [ver : Nat, biz : CaseBizs]

CaseCall == [op : CaseOps, pc : CasePcs, id : CaseIds, biz : CaseBizs, ver : Nat,
             list : SUBSET (Ids \X Nat), num : Nat]

CaseType ==
    /\ pub \in [Ids -> CaseRow]
    /\ cCache \in [Ids -> Nat]
    /\ call \in [Procs -> CaseCall]
    /\ published \in [Ids -> SUBSET Nat]
    /\ version \in Nat

\* What a call is about, and the version or the page it has in hand.
CaseHolds(d) ==
    /\ d.op = "idle" => d.pc = "idle"
    /\ d.pc = "setOwn" => d.op = "publish"
    /\ d.pc \in {"list", "setList"} => d.op \in {"publish", "page"}
    /\ d.pc \in {"setOwn", "get", "row", "set", "produce", "upload"} => d.id \in Ids
    /\ d.op = "publish" => d.id \in Ids
    /\ d.pc \in {"setOwn", "set", "produce", "upload"} => d.ver \in published[d.id]
    /\ d.pc = "setList" => PageShown(d.list)

CaseRowsArePublished ==
    \A c \in Ids : pub[c] = CaseStudies!NoRow \/ pub[c].ver \in published[c]

CasesShown ==
    /\ \A c \in Ids : cCache[c] \in published[c] \cup {0}
    /\ lCache = CaseStudies!NoList \/ PageShown(lCache)

\* A publication that will still cache its row, or read the page again, ...
CaseBusy(d, c) == d.id = c /\ d.op = "publish" /\ d.pc = "setOwn"
CasesBusy(d) == d.op = "publish" /\ d.biz = DefaultBiz /\ d.pc \in {"setOwn", "list", "setList"}

\* ... and what a call has in hand is what the table holds.
CaseFits(d, c) == (d.id = c /\ d.pc \in {"setOwn", "set"}) => d.ver = pub[c].ver
CasesFit(d) == d.pc = "setList" => d.list = CaseStudies!PublishCaseList
CountFits(d) == d.pc = "setTotal" => d.num = CaseStudies!PublishCaseCount

CaseCached(c) ==
    <<"case", c>> \notin spoiled =>
        /\ \A p \in Procs : CaseFits(call[p], c)
        /\ (\A p \in Procs : ~CaseBusy(call[p], c)) => cCache[c] \in {CaseStudies!NoVer, pub[c].ver}
CasesCached ==
    <<"list", 0>> \notin spoiled =>
        /\ \A p \in Procs : CasesFit(call[p])
        /\ (\A p \in Procs : ~CasesBusy(call[p])) =>
               lCache \in {CaseStudies!NoList, CaseStudies!PublishCaseList}
CountCached ==
    <<"total", 0>> \notin spoiled =>
        /\ \A p \in Procs : CountFits(call[p])
        /\ tCache \in {CaseStudies!Miss, CaseStudies!PublishCaseCount}

CaseInv ==
    /\ CaseType
    /\ \A p \in Procs : CaseHolds(call[p])
    /\ CaseRowsArePublished
    /\ CasesShown
    /\ \A c \in Ids : CaseCached(c)
    /\ CasesCached
    /\ CountCached

LEMMA NoCaseIsEmpty ==
    CaseStudies!NoRow \in CaseRow /\ CaseStudies!NoRow.ver = 0
BY DEF CaseStudies!NoRow, CaseRow, CaseBizs

LEMMA CaseIdleIsFree ==
    /\ CaseStudies!Idle \in CaseCall
    /\ CaseHolds(CaseStudies!Idle)
    /\ \A c \in Ids : CaseFits(CaseStudies!Idle, c)
    /\ CasesFit(CaseStudies!Idle) /\ CountFits(CaseStudies!Idle)
    /\ CaseStudies!Idle.pc = "idle"
BY DEF CaseStudies!Idle, CaseStudies!NoVer, CaseCall, CaseOps, CasePcs, CaseIds, CaseBizs,
       CaseHolds, CaseFits, CasesFit, CountFits

LEMMA CaseInit == CaseStudies!Init => CaseInv
<1> SUFFICES ASSUME CaseStudies!Init PROVE CaseInv
  OBVIOUS
<1>1. CaseType
  BY NoCaseIsEmpty, CaseIdleIsFree DEF CaseStudies!Init, CaseStudies!NoVer, CaseType
<1>2. \A p \in Procs : call[p] = CaseStudies!Idle
  BY DEF CaseStudies!Init
<1>3. \A p \in Procs : CaseHolds(call[p]) /\ CasesFit(call[p]) /\ CountFits(call[p])
  BY <1>2, CaseIdleIsFree
<1>4. CaseRowsArePublished /\ CasesShown
  BY DEF CaseStudies!Init, CaseStudies!NoVer, CaseRowsArePublished, CasesShown
<1>5. \A c \in Ids : CaseCached(c)
  BY <1>2, CaseIdleIsFree DEF CaseStudies!Init, CaseCached
<1>6. CasesCached /\ CountCached
  BY <1>3 DEF CaseStudies!Init, CasesCached, CountCached
<1> QED
  BY <1>1, <1>3, <1>4, <1>5, <1>6 DEF CaseInv

-----------------------------------------------------------------------------
(* The steps that write no row. *)

CaseKept(p, d, c) ==
    \/ <<"case", c>> \in spoiled'
    \/ /\ <<"case", c>> \notin spoiled /\ CaseFits(d, c)
       /\ \/ cCache'[c] \in {CaseStudies!NoVer, pub[c].ver}
          \/ cCache'[c] = cCache[c] /\ (CaseBusy(call[p], c) => CaseBusy(d, c))

CasesKept(p, d) ==
    \/ <<"list", 0>> \in spoiled'
    \/ /\ CasesFit(d)
       /\ <<"list", 0>> \notin spoiled \/ \A r \in Procs \ {p} : call[r].pc # "setList"
       /\ \/ lCache' \in {CaseStudies!NoList, CaseStudies!PublishCaseList}
          \/ <<"list", 0>> \notin spoiled /\ lCache' = lCache /\ (CasesBusy(call[p]) => CasesBusy(d))

CountKept(p, d) ==
    \/ <<"total", 0>> \in spoiled'
    \/ /\ CountFits(d)
       /\ <<"total", 0>> \notin spoiled \/ \A r \in Procs \ {p} : call[r].pc # "setTotal"
       /\ \/ tCache' \in {CaseStudies!Miss, CaseStudies!PublishCaseCount}
          \/ <<"total", 0>> \notin spoiled /\ tCache' = tCache

\* Call p goes on as d.
CaseGoes(p, d) ==
    /\ d \in CaseCall /\ CaseHolds(d) /\ call' = [call EXCEPT ![p] = d]
    /\ pub' = pub /\ published' = published /\ version' \in Nat
    /\ cCache' \in [Ids -> Nat] /\ CasesShown'
    /\ \A c \in Ids : CaseKept(p, d, c)
    /\ CasesKept(p, d) /\ CountKept(p, d)

LEMMA SameCases ==
    ASSUME pub' = pub
    PROVE  /\ CaseStudies!PublishCaseList' = CaseStudies!PublishCaseList
           /\ CaseStudies!PublishCaseCount' = CaseStudies!PublishCaseCount
BY DEF CaseStudies!PublishCaseList, CaseStudies!PublishCaseCount, CaseStudies!Listed,
       CaseStudies!Counted

LEMMA CaseGone ==
    ASSUME CaseInv, NEW p \in Procs, NEW d, CaseGoes(p, d)
    PROVE  CaseInv'
<1>0. /\ call \in [Procs -> CaseCall] /\ pub' = pub /\ published' = published
      /\ call' = [call EXCEPT ![p] = d] /\ d \in CaseCall
  BY DEF CaseInv, CaseType, CaseGoes
<1>1. call'[p] = d /\ \A r \in Procs \ {p} : call'[r] = call[r]
  BY <1>0
<1>2. CaseType'
  BY <1>0 DEF CaseInv, CaseType, CaseGoes
<1>3. \A r \in Procs : CaseHolds(call[r])'
  <2>1. \A r \in Procs : CaseHolds(call'[r])
    BY <1>1 DEF CaseInv, CaseGoes
  <2> QED
    BY <1>0, <2>1 DEF CaseHolds, PageShown
<1>4. CaseRowsArePublished' /\ CasesShown'
  BY <1>0 DEF CaseInv, CaseRowsArePublished, CaseGoes
<1>5. \A c \in Ids : CaseCached(c)'
  <2> SUFFICES ASSUME NEW c \in Ids PROVE CaseCached(c)'
    OBVIOUS
  <2>1. CaseCached(c) /\ CaseKept(p, d, c)
    BY DEF CaseInv, CaseGoes
  <2> QED
    BY <1>0, <1>1, <2>1 DEF CaseCached, CaseKept, CaseFits, CaseBusy
<1>6. CasesCached'
  <2>1. CasesCached /\ CasesKept(p, d)
    BY DEF CaseInv, CaseGoes
  <2> QED
    BY <1>0, <1>1, <2>1, SameCases DEF CasesCached, CasesKept, CasesFit, CasesBusy
<1>7. CountCached'
  <2>1. CountCached /\ CountKept(p, d)
    BY DEF CaseInv, CaseGoes
  <2> QED
    BY <1>0, <1>1, <2>1, SameCases DEF CountCached, CountKept, CountFits
<1> QED
  BY <1>2, <1>3, <1>4, <1>5, <1>6, <1>7 DEF CaseInv

\* Call p goes on as d and leaves the caches alone.
CaseOn(p, d) ==
    /\ d \in CaseCall /\ CaseHolds(d) /\ call' = [call EXCEPT ![p] = d]
    /\ pub' = pub /\ published' = published /\ version' \in Nat
    /\ cCache' = cCache /\ lCache' = lCache /\ tCache' = tCache
    /\ spoiled \subseteq spoiled'
    /\ \A c \in Ids : \/ <<"case", c>> \in spoiled'
                      \/ CaseFits(d, c) /\ (CaseBusy(call[p], c) => CaseBusy(d, c))
    /\ <<"list", 0>> \in spoiled' \/ (CasesFit(d) /\ (CasesBusy(call[p]) => CasesBusy(d)))
    /\ <<"total", 0>> \in spoiled' \/ CountFits(d)

LEMMA CaseLooks ==
    ASSUME CaseInv, NEW p \in Procs, NEW d, CaseOn(p, d)
    PROVE  CaseInv'
<1>1. \A c \in Ids : CaseKept(p, d, c)
  BY DEF CaseOn, CaseKept
<1>2. CasesKept(p, d) /\ CountKept(p, d)
  BY DEF CaseOn, CasesKept, CountKept
<1>3. cCache' \in [Ids -> Nat] /\ CasesShown'
  BY DEF CaseInv, CaseType, CasesShown, PageShown, CaseOn
<1>4. CaseGoes(p, d)
  BY <1>1, <1>2, <1>3 DEF CaseOn, CaseGoes
<1> QED
  BY <1>4, CaseGone

\* A call that begins, and one that goes on with what it has.
CaseBegun(op, pc, c, b, v) ==
    [CaseStudies!Idle EXCEPT !.op = op, !.pc = pc, !.id = c, !.biz = b, !.ver = v]

LEMMA CaseBegins ==
    ASSUME NEW p \in Procs, NEW op \in CaseOps, NEW pc \in CasePcs,
           NEW c \in CaseIds, NEW b \in CaseBizs, NEW v \in Nat,
           CaseStudies!Begin(p, op, pc, c, b, v)
    PROVE  LET d == CaseBegun(op, pc, c, b, v)
           IN  /\ d \in CaseCall
               /\ call[p].op = "idle"
               /\ call' = [call EXCEPT ![p] = d]
               /\ d.op = op /\ d.pc = pc /\ d.id = c /\ d.biz = b /\ d.ver = v
<1> DEFINE d == CaseBegun(op, pc, c, b, v)
<1>1. d \in CaseCall /\ d.op = op /\ d.pc = pc /\ d.id = c /\ d.biz = b /\ d.ver = v
  BY CaseIdleIsFree DEF CaseBegun, CaseCall
<1>2. call[p].op = "idle" /\ call' = [call EXCEPT ![p] = d]
  BY DEF CaseStudies!Begin, CaseBegun
<1> HIDE DEF d
<1> QED
  BY <1>1, <1>2 DEF d

LEMMA CaseIdlesFree ==
    ASSUME NEW p \in Procs, call[p].op = "idle", CaseHolds(call[p])
    PROVE  (\A c \in Ids : ~CaseBusy(call[p], c)) /\ ~CasesBusy(call[p])
BY DEF CaseBusy, CasesBusy

CaseAt(p, pc) == [call[p] EXCEPT !.pc = pc]

LEMMA CaseGoto ==
    ASSUME CaseInv, NEW p \in Procs, NEW pc \in CasePcs, CaseStudies!Goto(p, pc)
    PROVE  LET d == CaseAt(p, pc)
           IN  /\ d \in CaseCall
               /\ call' = [call EXCEPT ![p] = d]
               /\ d.pc = pc /\ d.op = call[p].op /\ d.id = call[p].id /\ d.biz = call[p].biz
               /\ d.ver = call[p].ver /\ d.list = call[p].list /\ d.num = call[p].num
<1> DEFINE d == CaseAt(p, pc)
<1>1. call[p] \in CaseCall
  BY DEF CaseInv, CaseType
<1>2. /\ d \in CaseCall
      /\ d.pc = pc /\ d.op = call[p].op /\ d.id = call[p].id /\ d.biz = call[p].biz
      /\ d.ver = call[p].ver /\ d.list = call[p].list /\ d.num = call[p].num
  BY <1>1 DEF CaseCall, CaseAt
<1>3. call' = [call EXCEPT ![p] = d]
  BY DEF CaseStudies!Goto, CaseAt
<1> HIDE DEF d
<1> QED
  BY <1>2, <1>3 DEF d

LEMMA SaveCaseKeeps ==
    ASSUME CaseInv, NEW p \in Procs, NEW c \in Ids, NEW b \in Bizs, CaseStudies!Save(p, c, b)
    PROVE  CaseInv'
<1>0. /\ CaseStudies!Begin(p, "save", "get", c, b, CaseStudies!NoVer)
      /\ "save" \in CaseOps /\ "get" \in CasePcs /\ c \in CaseIds /\ b \in CaseBizs
      /\ CaseStudies!NoVer \in Nat
  BY DEF CaseIds, CaseBizs, CaseStudies!Save, CaseOps, CasePcs, CaseStudies!NoVer
<1>c. PICK d : d = CaseBegun("save", "get", c, b, CaseStudies!NoVer)
  OBVIOUS
<1>1. /\ d \in CaseCall /\ call[p].op = "idle" /\ call' = [call EXCEPT ![p] = d]
      /\ d.op = "save" /\ d.pc = "get" /\ d.id = c /\ d.biz = b
  BY <1>0, <1>c, CaseBegins
<1>2. /\ pub' = pub /\ published' = published /\ version' \in Nat
      /\ cCache' = cCache /\ lCache' = lCache /\ tCache' = tCache /\ spoiled' = spoiled
  BY DEF CaseStudies!Save, CaseInv, CaseType, CaseStudies!caches
<1>3. CaseHolds(d)
  BY <1>1 DEF CaseHolds
<1>4. (\A e \in Ids : CaseFits(d, e)) /\ CasesFit(d) /\ CountFits(d)
  BY <1>1 DEF CaseFits, CasesFit, CountFits
<1>5. (\A e \in Ids : ~CaseBusy(call[p], e)) /\ ~CasesBusy(call[p])
  BY <1>1, CaseIdlesFree DEF CaseInv
<1>6. CaseOn(p, d)
  BY <1>1, <1>2, <1>3, <1>4, <1>5 DEF CaseOn
<1> QED
  BY <1>6, CaseLooks

LEMMA PublishCaseKeeps ==
    ASSUME CaseInv, NEW p \in Procs, NEW c \in Ids, NEW b \in Bizs, CaseStudies!Publish(p, c, b)
    PROVE  CaseInv'
<1>v. version \in Nat /\ version' = version + 1 /\ version' \in Nat
  BY DEF CaseStudies!Publish, CaseInv, CaseType
<1>0. /\ CaseStudies!Begin(p, "publish", "setOwn", c, b, version')
      /\ "publish" \in CaseOps /\ "setOwn" \in CasePcs /\ c \in CaseIds /\ b \in CaseBizs
  BY DEF CaseIds, CaseBizs, CaseStudies!Publish, CaseOps, CasePcs
<1>c. PICK d : d = CaseBegun("publish", "setOwn", c, b, version')
  OBVIOUS
<1>1. /\ d \in CaseCall /\ call[p].op = "idle" /\ call' = [call EXCEPT ![p] = d]
      /\ d.op = "publish" /\ d.pc = "setOwn" /\ d.id = c /\ d.biz = b /\ d.ver = version'
  BY <1>v, <1>0, <1>c, CaseBegins
<1>r. PICK row : row = CaseStudies!Row(version', b)
  OBVIOUS
<1>2. row \in CaseRow /\ row.ver = version' /\ row.biz = b
  BY <1>v, <1>0, <1>r DEF CaseStudies!Row, CaseRow
<1>3. /\ pub' = [pub EXCEPT ![c] = row]
      /\ published' = [published EXCEPT ![c] = @ \cup {version'}]
      /\ cCache' = cCache /\ lCache' = lCache /\ tCache' = tCache
      /\ spoiled' = (spoiled \ CaseStudies!Cured(c)) \cup CaseStudies!Left(p, c, pub')
  BY <1>r DEF CaseStudies!Publish, CaseStudies!caches
<1>4. /\ call \in [Procs -> CaseCall] /\ pub \in [Ids -> CaseRow] /\ cCache \in [Ids -> Nat]
      /\ published \in [Ids -> SUBSET Nat]
  BY DEF CaseInv, CaseType
<1>5. call'[p] = d /\ \A r \in Procs \ {p} : call'[r] = call[r]
  BY <1>1, <1>4
<1>6. CaseType'
  BY <1>v, <1>1, <1>2, <1>3, <1>4 DEF CaseType
<1>7. \A e \in Ids : published[e] \subseteq published'[e]
  BY <1>3, <1>4
<1>8. \A r \in Procs : CaseHolds(call[r])'
  <2>1. CaseHolds(d)'
    BY <1>1, <1>3, <1>4 DEF CaseHolds
  <2>2. \A r \in Procs \ {p} : CaseHolds(call[r])
    BY DEF CaseInv
  <2>3. \A x : CaseHolds(x) => CaseHolds(x)'
    BY <1>7 DEF CaseHolds, PageShown
  <2> QED
    BY <1>1, <1>3, <1>5, <2>2, <2>3, <1>4 DEF CaseHolds, PageShown
<1>9. CaseRowsArePublished' /\ CasesShown'
  <2>1. CaseRowsArePublished'
    BY <1>2, <1>3, <1>4 DEF CaseInv, CaseRowsArePublished
  <2>2. CasesShown'
    BY <1>3, <1>7 DEF CaseInv, CasesShown, PageShown
  <2> QED
    BY <2>1, <2>2
<1>10. ASSUME NEW e \in Ids PROVE CaseCached(e)'
  <2>1. CASE e = c
    <3>1. CASE CaseStudies!Others(p, c) # {}
      BY <1>3, <2>1, <3>1 DEF CaseCached, CaseStudies!Left, CaseStudies!Copies
    <3>2. CASE CaseStudies!Others(p, c) = {}
      <4>1. \A r \in Procs \ {p} : call[r].id # c
        BY <3>2 DEF CaseStudies!Others
      <4>2. \A r \in Procs : CaseFits(call[r], c)'
        BY <1>1, <1>2, <1>3, <1>4, <1>5, <4>1 DEF CaseFits
      <4>3. CaseBusy(call[p], c)'
        BY <1>1, <1>5 DEF CaseBusy
      <4> QED
        BY <2>1, <4>2, <4>3 DEF CaseCached
    <3> QED
      BY <3>1, <3>2
  <2>2. CASE e # c
    <3>1. <<"case", e>> \in spoiled => <<"case", e>> \in spoiled'
      BY <1>3, <2>2 DEF CaseStudies!Cured
    <3>2. pub'[e] = pub[e] /\ CaseCached(e) /\ cCache'[e] = cCache[e]
      BY <1>3, <1>4, <2>2 DEF CaseInv
    <3>3. ~CaseBusy(call[p], e) /\ ~CaseBusy(d, e) /\ CaseFits(d, e)
      BY <1>1, <2>2, CaseIdlesFree DEF CaseInv, CaseBusy, CaseFits
    <3> QED
      BY <1>5, <3>1, <3>2, <3>3 DEF CaseCached, CaseFits, CaseBusy
  <2> QED
    BY <2>1, <2>2
<1>11. CasesCached'
  <2> SUFFICES ASSUME <<"list", 0>> \notin spoiled' PROVE CasesCached'
    BY DEF CasesCached
  <2>1. pub'[c].biz = DefaultBiz /\ CaseStudies!OthersAt(p, "setList") = {}
    BY <1>3 DEF CaseStudies!Left
  <2>2. b = DefaultBiz
    BY <1>2, <1>3, <1>4, <2>1
  <2>3. \A r \in Procs \ {p} : call[r].pc # "setList"
    BY <2>1 DEF CaseStudies!OthersAt
  <2>4. \A r \in Procs : CasesFit(call[r])'
    BY <1>1, <1>5, <2>3 DEF CasesFit
  <2>5. CasesBusy(call[p])'
    BY <1>1, <1>5, <2>2 DEF CasesBusy
  <2> QED
    BY <2>4, <2>5 DEF CasesCached
<1>12. CountCached'
  <2> SUFFICES ASSUME <<"total", 0>> \notin spoiled' PROVE CountCached'
    BY DEF CountCached
  <2>1. /\ CaseStudies!Counted(pub') = CaseStudies!PublishCaseCount
        /\ CaseStudies!OthersAt(p, "setTotal") = {}
        /\ <<"total", 0>> \notin spoiled
    BY <1>3 DEF CaseStudies!Left, CaseStudies!Cured
  <2>2. CaseStudies!PublishCaseCount' = CaseStudies!PublishCaseCount
    BY <2>1 DEF CaseStudies!PublishCaseCount, CaseStudies!Counted
  <2>3. \A r \in Procs \ {p} : call[r].pc # "setTotal"
    BY <2>1 DEF CaseStudies!OthersAt
  <2>4. \A r \in Procs : CountFits(call[r])'
    BY <1>1, <1>5, <2>3 DEF CountFits
  <2> QED
    BY <1>3, <2>1, <2>2, <2>4 DEF CountCached, CaseInv
<1> QED
  BY <1>6, <1>8, <1>9, <1>10, <1>11, <1>12 DEF CaseInv

\* What is left alone by the steps that write no table, and by those that
\* write no cache either.
CaseReads == pub' = pub /\ published' = published /\ version' = version
CaseCaches == cCache' = cCache /\ lCache' = lCache /\ tCache' = tCache

LEMMA CaseCallsAre ==
    ASSUME CaseInv, NEW p \in Procs
    PROVE  /\ call[p] \in CaseCall /\ CaseHolds(call[p])
           /\ version \in Nat /\ DOMAIN call = Procs
           /\ pub \in [Ids -> CaseRow] /\ cCache \in [Ids -> Nat]
           /\ (call[p].op = "idle" => call[p].pc = "idle")
BY DEF CaseInv, CaseType, CaseHolds

\* SetOwn, or its failure.
LEMMA SetOwnKeeps ==
    ASSUME CaseInv, NEW p \in Procs, CaseReads, call[p].pc = "setOwn",
           CaseStudies!Goto(p, IF call[p].biz = DefaultBiz THEN "list" ELSE "get"),
           lCache' = lCache, tCache' = tCache, spoiled \subseteq spoiled',
           \/ cCache' = [cCache EXCEPT ![call[p].id] = call[p].ver]
           \/ cCache' = cCache /\ <<"case", call[p].id>> \in spoiled'
    PROVE  CaseInv'
<1>1. PICK pc \in {"list", "get"} : CaseStudies!Goto(p, pc) /\ (call[p].biz = DefaultBiz => pc = "list")
  OBVIOUS
<1>2. pc \in CasePcs
  BY DEF CasePcs
<1>c. PICK d : d = CaseAt(p, pc)
  OBVIOUS
<1>3. /\ d \in CaseCall /\ call' = [call EXCEPT ![p] = d]
      /\ d.pc = pc /\ d.op = call[p].op /\ d.id = call[p].id /\ d.biz = call[p].biz
  BY <1>1, <1>2, <1>c, CaseGoto
<1>4. CaseHolds(call[p]) /\ cCache \in [Ids -> Nat] /\ version \in Nat
  BY CaseCallsAre
<1>5. call[p].op = "publish" /\ call[p].id \in Ids /\ call[p].ver \in published[call[p].id]
  BY <1>4 DEF CaseHolds
<1>6. CaseHolds(d)
  BY <1>3, <1>5 DEF CaseHolds
<1>7. (\A c \in Ids : CaseFits(d, c)) /\ CasesFit(d) /\ CountFits(d)
  BY <1>3 DEF CaseFits, CasesFit, CountFits
<1>8. CasesBusy(call[p]) => CasesBusy(d)
  BY <1>1, <1>3 DEF CasesBusy
<1>9. call[p].ver \in Nat
  BY <1>5 DEF CaseInv, CaseType
<1>10. cCache' \in [Ids -> Nat] /\ CasesShown'
  BY <1>4, <1>5, <1>9 DEF CaseInv, CasesShown, PageShown, CaseReads
<1>11. ASSUME NEW c \in Ids PROVE CaseKept(p, d, c)
  <2>1. CASE c = call[p].id
    <3>1. <<"case", c>> \notin spoiled => call[p].ver = pub[c].ver
      BY <2>1 DEF CaseInv, CaseCached, CaseFits
    <3> QED
      BY <1>4, <1>7, <2>1, <3>1 DEF CaseKept
  <2>2. CASE c # call[p].id
    BY <1>4, <1>7, <2>2 DEF CaseKept, CaseBusy
  <2> QED
    BY <2>1, <2>2
<1>12. CasesKept(p, d) /\ CountKept(p, d)
  BY <1>7, <1>8 DEF CasesKept, CountKept
<1>13. CaseGoes(p, d)
  BY <1>3, <1>4, <1>6, <1>10, <1>11, <1>12 DEF CaseGoes, CaseReads
<1> QED
  BY <1>13, CaseGone

LEMMA CasePagesAreShown ==
    ASSUME CaseInv
    PROVE  PageShown(CaseStudies!PublishCaseList) /\ CaseStudies!PublishCaseList \subseteq Ids \X Nat
<1>1. ASSUME NEW e \in CaseStudies!PublishCaseList
      PROVE  e[1] \in Ids /\ e[2] \in published[e[1]] /\ e \in Ids \X Nat
  <2>1. PICK c \in Ids : pub[c] # CaseStudies!NoRow /\ e = <<c, pub[c].ver>>
    BY DEF CaseStudies!PublishCaseList, CaseStudies!Listed
  <2>2. pub[c].ver \in published[c] /\ pub[c].ver \in Nat
    BY <2>1 DEF CaseInv, CaseRowsArePublished, CaseType
  <2> QED
    BY <2>1, <2>2
<1> QED
  BY <1>1 DEF PageShown

LEMMA ReadCasesKeeps ==
    ASSUME CaseInv, NEW p \in Procs, CaseStudies!ReadList(p)
    PROVE  CaseInv'
<1>c. PICK d : d = [call[p] EXCEPT !.list = CaseStudies!PublishCaseList, !.pc = "setList"]
  OBVIOUS
<1>1. call[p] \in CaseCall /\ CaseHolds(call[p]) /\ version \in Nat
  BY CaseCallsAre
<1>2. /\ d \in CaseCall
      /\ d.list = CaseStudies!PublishCaseList /\ d.pc = "setList"
      /\ d.op = call[p].op /\ d.id = call[p].id /\ d.biz = call[p].biz
  BY <1>c, <1>1, CasePagesAreShown DEF CaseCall, CasePcs
<1>3. /\ call' = [call EXCEPT ![p] = d] /\ call[p].pc = "list"
      /\ CaseReads /\ CaseCaches /\ spoiled' = spoiled
  BY <1>c DEF CaseStudies!ReadList, CaseStudies!tables, CaseStudies!caches, CaseReads, CaseCaches
<1>4. CaseHolds(d)
  BY <1>1, <1>2, <1>3, CasePagesAreShown DEF CaseHolds
<1>5. (\A c \in Ids : CaseFits(d, c) /\ ~CaseBusy(call[p], c)) /\ CasesFit(d) /\ CountFits(d)
  BY <1>2, <1>3 DEF CaseFits, CasesFit, CountFits, CaseBusy
<1>6. CasesBusy(call[p]) => CasesBusy(d)
  BY <1>2 DEF CasesBusy
<1>7. CaseOn(p, d)
  BY <1>1, <1>2, <1>3, <1>4, <1>5, <1>6 DEF CaseOn, CaseReads, CaseCaches
<1> QED
  BY <1>7, CaseLooks

\* Where a call goes that has nothing in hand afterwards.
LEMMA CaseMoves ==
    ASSUME CaseInv, NEW p \in Procs, NEW pc \in {"get", "row", "produce", "upload"},
           call[p].pc # "idle",
           CaseStudies!Goto(p, pc) \/ CaseStudies!Done(p),
           pc \in {"get", "row"} => call[p].id \in Ids,
           pc \in {"produce", "upload"} => call[p].id \in Ids /\ call[p].ver \in published[call[p].id]
    PROVE  \E d \in CaseCall :
              /\ call' = [call EXCEPT ![p] = d] /\ CaseHolds(d)
              /\ (\A c \in Ids : CaseFits(d, c)) /\ CasesFit(d) /\ CountFits(d)
<1>1. CaseHolds(call[p])
  BY CaseCallsAre
<1>2. CASE CaseStudies!Goto(p, pc)
  <2>1. pc \in CasePcs
    BY DEF CasePcs
  <2>c. PICK d : d = CaseAt(p, pc)
    OBVIOUS
  <2>2. /\ d \in CaseCall /\ call' = [call EXCEPT ![p] = d]
        /\ d.pc = pc /\ d.op = call[p].op /\ d.id = call[p].id /\ d.ver = call[p].ver
    BY <1>2, <2>1, <2>c, CaseGoto
  <2>3. CaseHolds(d)
    BY <1>1, <2>2 DEF CaseHolds
  <2>4. (\A c \in Ids : CaseFits(d, c)) /\ CasesFit(d) /\ CountFits(d)
    BY <2>2 DEF CaseFits, CasesFit, CountFits
  <2> QED
    BY <2>2, <2>3, <2>4
<1>3. CASE CaseStudies!Done(p)
  <2>1. call' = [call EXCEPT ![p] = CaseStudies!Idle]
    BY <1>3 DEF CaseStudies!Done
  <2> QED
    BY <2>1, CaseIdleIsFree
<1> QED
  BY <1>2, <1>3

\* SetCases, or its failure.
LEMMA SetCasesKeeps ==
    ASSUME CaseInv, NEW p \in Procs, CaseReads, call[p].pc = "setList", CaseStudies!After(p),
           cCache' = cCache, tCache' = tCache,
           \A c \in Ids : <<"case", c>> \in spoiled => <<"case", c>> \in spoiled',
           <<"total", 0>> \in spoiled => <<"total", 0>> \in spoiled',
           \/ <<"list", 0>> \in spoiled' /\ lCache' = lCache
           \/ /\ lCache' = call[p].list
              /\ \/ <<"list", 0>> \in spoiled'
                 \/ <<"list", 0>> \notin spoiled
                 \/ call[p].list = CaseStudies!PublishCaseList /\ CaseStudies!OthersAt(p, "setList") = {}
    PROVE  CaseInv'
<1>1. CaseHolds(call[p]) /\ version \in Nat /\ cCache \in [Ids -> Nat]
  BY CaseCallsAre
<1>2. call[p].op = "publish" => call[p].id \in Ids
  BY <1>1 DEF CaseHolds
<1>3. (call[p].op = "publish" /\ CaseStudies!Goto(p, "get")) \/ CaseStudies!Done(p)
  BY DEF CaseStudies!After
<1>4. PICK d \in CaseCall :
          /\ call' = [call EXCEPT ![p] = d] /\ CaseHolds(d)
          /\ (\A c \in Ids : CaseFits(d, c)) /\ CasesFit(d) /\ CountFits(d)
  <2>1. CASE call[p].op = "publish" /\ CaseStudies!Goto(p, "get")
    BY <1>2, <2>1, CaseMoves
  <2>2. CASE CaseStudies!Done(p)
    <3>1. call' = [call EXCEPT ![p] = CaseStudies!Idle]
      BY <2>2 DEF CaseStudies!Done
    <3> QED
      BY <3>1, CaseIdleIsFree
  <2> QED
    BY <1>3, <2>1, <2>2
<1>5. CasesShown'
  BY <1>1 DEF CaseInv, CasesShown, PageShown, CaseHolds, CaseReads
<1>6. \A c \in Ids : CaseKept(p, d, c)
  BY <1>4 DEF CaseKept, CaseBusy
<1>7. CountKept(p, d)
  BY <1>4 DEF CountKept
<1>8. CasesKept(p, d)
  <2>1. <<"list", 0>> \notin spoiled => call[p].list = CaseStudies!PublishCaseList
    BY DEF CaseInv, CasesCached, CasesFit
  <2> QED
    BY <1>4, <2>1 DEF CasesKept, CaseStudies!OthersAt
<1>9. CaseGoes(p, d)
  BY <1>1, <1>4, <1>5, <1>6, <1>7, <1>8 DEF CaseGoes, CaseReads
<1> QED
  BY <1>9, CaseGone

LEMMA GetCaseKeeps ==
    ASSUME CaseInv, NEW p \in Procs, CaseStudies!getCase(p)
    PROVE  CaseInv'
<1>c. PICK c : c = call[p].id
  OBVIOUS
<1>1. call[p] \in CaseCall /\ CaseHolds(call[p]) /\ version \in Nat /\ cCache \in [Ids -> Nat]
  BY CaseCallsAre
<1>2. c \in Ids /\ call[p].pc = "get" /\ CaseReads /\ CaseCaches /\ spoiled' = spoiled
  BY <1>c, <1>1 DEF CaseStudies!getCase, CaseHolds, CaseReads, CaseCaches, CaseStudies!tables,
                    CaseStudies!caches
<1>3. PICK d \in CaseCall :
          /\ call' = [call EXCEPT ![p] = d] /\ CaseHolds(d)
          /\ (\A e \in Ids : CaseFits(d, e)) /\ CasesFit(d) /\ CountFits(d)
  <2>1. CASE cCache[c] # CaseStudies!NoVer
    <3>c. PICK d : d = [call[p] EXCEPT !.ver = cCache[c], !.pc = "produce"]
      OBVIOUS
    <3>1. d \in CaseCall /\ d.pc = "produce" /\ d.op = call[p].op /\ d.id = c /\ d.ver = cCache[c]
      BY <1>c, <1>1, <1>2, <3>c DEF CaseCall, CasePcs
    <3>2. cCache[c] \in published[c]
      BY <1>2, <2>1 DEF CaseInv, CasesShown, CaseStudies!NoVer
    <3>3. call' = [call EXCEPT ![p] = d]
      BY <1>c, <2>1, <3>c DEF CaseStudies!getCase
    <3>4. CaseHolds(d)
      BY <1>1, <1>2, <3>1, <3>2 DEF CaseHolds
    <3>5. (\A e \in Ids : CaseFits(d, e)) /\ CasesFit(d) /\ CountFits(d)
      BY <3>1 DEF CaseFits, CasesFit, CountFits
    <3> QED
      BY <3>1, <3>3, <3>4, <3>5
  <2>2. CASE cCache[c] = CaseStudies!NoVer
    <3>1. CaseStudies!Goto(p, "row")
      BY <1>c, <2>2 DEF CaseStudies!getCase
    <3> QED
      BY <1>c, <1>2, <3>1, CaseMoves
  <2> QED
    BY <2>1, <2>2
<1>4. (\A e \in Ids : ~CaseBusy(call[p], e)) /\ ~CasesBusy(call[p])
  BY <1>2 DEF CaseBusy, CasesBusy
<1>5. CaseOn(p, d)
  BY <1>1, <1>2, <1>3, <1>4 DEF CaseOn, CaseReads, CaseCaches
<1> QED
  BY <1>5, CaseLooks

LEMMA ReadRowKeeps ==
    ASSUME CaseInv, NEW p \in Procs, CaseStudies!ReadRow(p)
    PROVE  CaseInv'
<1>c. PICK c : c = call[p].id
  OBVIOUS
<1>1. call[p] \in CaseCall /\ CaseHolds(call[p]) /\ version \in Nat /\ pub \in [Ids -> CaseRow]
  BY CaseCallsAre
<1>2. c \in Ids /\ call[p].pc = "row" /\ CaseReads /\ CaseCaches /\ spoiled' = spoiled
  BY <1>c, <1>1 DEF CaseStudies!ReadRow, CaseHolds, CaseReads, CaseCaches, CaseStudies!tables,
                    CaseStudies!caches
<1>3. PICK d \in CaseCall :
          /\ call' = [call EXCEPT ![p] = d] /\ CaseHolds(d)
          /\ (\A e \in Ids : CaseFits(d, e)) /\ CasesFit(d) /\ CountFits(d)
  <2>1. CASE pub[c] # CaseStudies!NoRow
    <3>c. PICK d : d = [call[p] EXCEPT !.ver = pub[c].ver, !.pc = "set"]
      OBVIOUS
    <3>0. pub[c].ver \in Nat
      BY <1>1, <1>2 DEF CaseRow
    <3>1. d \in CaseCall /\ d.pc = "set" /\ d.op = call[p].op /\ d.id = c /\ d.ver = pub[c].ver
      BY <1>c, <1>1, <3>c, <3>0 DEF CaseCall, CasePcs
    <3>2. pub[c].ver \in published[c]
      BY <1>2, <2>1 DEF CaseInv, CaseRowsArePublished
    <3>3. call' = [call EXCEPT ![p] = d]
      BY <1>c, <2>1, <3>c DEF CaseStudies!ReadRow
    <3>4. CaseHolds(d)
      BY <1>1, <1>2, <3>1, <3>2 DEF CaseHolds
    <3>5. (\A e \in Ids : CaseFits(d, e)) /\ CasesFit(d) /\ CountFits(d)
      BY <3>1 DEF CaseFits, CasesFit, CountFits
    <3> QED
      BY <3>1, <3>3, <3>4, <3>5
  <2>2. CASE pub[c] = CaseStudies!NoRow
    <3>1. call' = [call EXCEPT ![p] = CaseStudies!Idle]
      BY <1>c, <2>2 DEF CaseStudies!ReadRow, CaseStudies!Done
    <3> QED
      BY <3>1, CaseIdleIsFree
  <2> QED
    BY <2>1, <2>2
<1>4. (\A e \in Ids : ~CaseBusy(call[p], e)) /\ ~CasesBusy(call[p])
  BY <1>2 DEF CaseBusy, CasesBusy
<1>5. CaseOn(p, d)
  BY <1>1, <1>2, <1>3, <1>4 DEF CaseOn, CaseReads, CaseCaches
<1> QED
  BY <1>5, CaseLooks

\* SetCase, or its failure.
LEMMA SetCaseKeeps ==
    ASSUME CaseInv, NEW p \in Procs, CaseReads, call[p].pc = "set", CaseStudies!AfterSet(p),
           lCache' = lCache, tCache' = tCache, spoiled \subseteq spoiled',
           cCache' \in {cCache, [cCache EXCEPT ![call[p].id] = call[p].ver]}
    PROVE  CaseInv'
<1>1. CaseHolds(call[p]) /\ version \in Nat /\ cCache \in [Ids -> Nat]
  BY CaseCallsAre
<1>2. call[p].id \in Ids /\ call[p].ver \in published[call[p].id]
  BY <1>1 DEF CaseHolds
<1>3. CaseStudies!Goto(p, "produce") \/ CaseStudies!Done(p)
  BY DEF CaseStudies!AfterSet
<1>4. PICK d \in CaseCall :
          /\ call' = [call EXCEPT ![p] = d] /\ CaseHolds(d)
          /\ (\A c \in Ids : CaseFits(d, c)) /\ CasesFit(d) /\ CountFits(d)
  BY <1>2, <1>3, CaseMoves
<1>5. call[p].ver \in Nat
  BY <1>2 DEF CaseInv, CaseType
<1>6. cCache' \in [Ids -> Nat] /\ CasesShown'
  BY <1>1, <1>2, <1>5 DEF CaseInv, CasesShown, PageShown, CaseReads
<1>7. ASSUME NEW c \in Ids PROVE CaseKept(p, d, c)
  <2>1. <<"case", c>> \notin spoiled /\ call[p].id = c => call[p].ver = pub[c].ver
    BY DEF CaseInv, CaseCached, CaseFits
  <2>2. ~CaseBusy(call[p], c)
    BY DEF CaseBusy
  <2> QED
    BY <1>1, <1>4, <2>1, <2>2 DEF CaseKept
<1>8. CasesKept(p, d) /\ CountKept(p, d)
  BY <1>4 DEF CasesKept, CountKept, CasesBusy
<1>9. CaseGoes(p, d)
  BY <1>1, <1>4, <1>6, <1>7, <1>8 DEF CaseGoes, CaseReads
<1> QED
  BY <1>9, CaseGone

\* syncCase and uploadCase, or their failures.
LEMMA CaseSentKeeps ==
    ASSUME CaseInv, NEW p \in Procs, CaseReads, CaseCaches, call[p].pc \in {"produce", "upload"},
           CaseStudies!AfterEvent(p) \/ CaseStudies!Done(p), spoiled \subseteq spoiled'
    PROVE  CaseInv'
<1>1. CaseHolds(call[p]) /\ version \in Nat
  BY CaseCallsAre
<1>2. call[p].id \in Ids /\ call[p].ver \in published[call[p].id]
  BY <1>1 DEF CaseHolds
<1>3. CaseStudies!Goto(p, "upload") \/ CaseStudies!Done(p)
  BY DEF CaseStudies!AfterEvent
<1>4. PICK d \in CaseCall :
          /\ call' = [call EXCEPT ![p] = d] /\ CaseHolds(d)
          /\ (\A c \in Ids : CaseFits(d, c)) /\ CasesFit(d) /\ CountFits(d)
  BY <1>2, <1>3, CaseMoves
<1>5. (\A e \in Ids : ~CaseBusy(call[p], e)) /\ ~CasesBusy(call[p])
  BY DEF CaseBusy, CasesBusy
<1>6. CaseOn(p, d)
  BY <1>1, <1>4, <1>5 DEF CaseOn, CaseReads, CaseCaches
<1> QED
  BY <1>6, CaseLooks

LEMMA CountIsANumber == CaseStudies!PublishCaseCount \in Nat
<1>1. {c \in Ids : pub[c].biz = DefaultBiz} \subseteq Ids
  OBVIOUS
<1>2. IsFiniteSet({c \in Ids : pub[c].biz = DefaultBiz})
  BY <1>1, ContentAssumption, FS_Subset
<1> QED
  BY <1>2, FS_CardinalityType
     DEF CaseStudies!PublishCaseCount, CaseStudies!Counted, CaseStudies!Cardinality, Cardinality

LEMMA ReadCountKeeps ==
    ASSUME CaseInv, NEW p \in Procs, CaseStudies!ReadTotal(p)
    PROVE  CaseInv'
<1>c. PICK d : d = [call[p] EXCEPT !.num = CaseStudies!PublishCaseCount, !.pc = "setTotal"]
  OBVIOUS
<1>1. call[p] \in CaseCall /\ CaseHolds(call[p]) /\ version \in Nat
  BY CaseCallsAre
<1>2. /\ d \in CaseCall
      /\ d.num = CaseStudies!PublishCaseCount /\ d.pc = "setTotal"
      /\ d.op = call[p].op /\ d.id = call[p].id /\ d.biz = call[p].biz
  BY <1>c, <1>1, CountIsANumber DEF CaseCall, CasePcs
<1>3. /\ call' = [call EXCEPT ![p] = d] /\ call[p].pc = "total"
      /\ CaseReads /\ CaseCaches /\ spoiled' = spoiled
  BY <1>c DEF CaseStudies!ReadTotal, CaseStudies!tables, CaseStudies!caches, CaseReads, CaseCaches
<1>4. CaseHolds(d)
  BY <1>1, <1>2, <1>3 DEF CaseHolds
<1>5. (\A c \in Ids : CaseFits(d, c) /\ ~CaseBusy(call[p], c)) /\ CasesFit(d) /\ CountFits(d)
  BY <1>2, <1>3 DEF CaseFits, CasesFit, CountFits, CaseBusy
<1>6. ~CasesBusy(call[p])
  BY <1>3 DEF CasesBusy
<1>7. CaseOn(p, d)
  BY <1>1, <1>2, <1>3, <1>4, <1>5, <1>6 DEF CaseOn, CaseReads, CaseCaches
<1> QED
  BY <1>7, CaseLooks

\* SetTotal, or its failure.
LEMMA SetCountKeeps ==
    ASSUME CaseInv, NEW p \in Procs, CaseReads, call[p].pc = "setTotal", CaseStudies!Done(p),
           cCache' = cCache, lCache' = lCache,
           \A c \in Ids : <<"case", c>> \in spoiled => <<"case", c>> \in spoiled',
           <<"list", 0>> \in spoiled => <<"list", 0>> \in spoiled',
           \/ <<"total", 0>> \in spoiled' /\ tCache' = tCache
           \/ /\ tCache' = call[p].num
              /\ \/ <<"total", 0>> \in spoiled'
                 \/ <<"total", 0>> \notin spoiled
                 \/ /\ call[p].num = CaseStudies!PublishCaseCount
                    /\ CaseStudies!OthersAt(p, "setTotal") = {}
    PROVE  CaseInv'
<1>1. CaseHolds(call[p]) /\ version \in Nat /\ cCache \in [Ids -> Nat]
  BY CaseCallsAre
<1>c. PICK d : d = CaseStudies!Idle
  OBVIOUS
<1>2. /\ d \in CaseCall /\ call' = [call EXCEPT ![p] = d] /\ CaseHolds(d)
      /\ (\A c \in Ids : CaseFits(d, c)) /\ CasesFit(d) /\ CountFits(d)
  BY <1>c, CaseIdleIsFree DEF CaseStudies!Done
<1>3. CasesShown'
  BY DEF CaseInv, CasesShown, PageShown, CaseReads
<1>4. (\A c \in Ids : CaseKept(p, d, c)) /\ CasesKept(p, d)
  BY <1>2 DEF CaseKept, CasesKept, CaseBusy, CasesBusy
<1>5. CountKept(p, d)
  <2>1. <<"total", 0>> \notin spoiled => call[p].num = CaseStudies!PublishCaseCount
    BY DEF CaseInv, CountCached, CountFits
  <2> QED
    BY <1>2, <2>1 DEF CountKept, CaseStudies!OthersAt
<1>6. CaseGoes(p, d)
  BY <1>1, <1>2, <1>3, <1>4, <1>5 DEF CaseGoes, CaseReads
<1> QED
  BY <1>6, CaseGone

\* A reader that misses: its entry is gone.
LEMMA CaseAsks ==
    ASSUME CaseInv, NEW p \in Procs, NEW op \in {"detail", "page", "count"},
           NEW pc \in {"row", "list", "total"}, NEW c \in CaseIds,
           pc = "row" => c \in Ids, pc = "list" => op = "page",
           CaseStudies!Ask(p, op, pc, c),
           \/ cCache' = cCache
           \/ c \in Ids /\ cCache' = [cCache EXCEPT ![c] = CaseStudies!NoVer],
           lCache' \in {lCache, CaseStudies!NoList}, tCache' \in {tCache, CaseStudies!Miss}
    PROVE  CaseInv'
<1>0. /\ CaseStudies!Begin(p, op, pc, c, DefaultBiz, CaseStudies!NoVer)
      /\ op \in CaseOps /\ pc \in CasePcs /\ DefaultBiz \in CaseBizs /\ CaseStudies!NoVer \in Nat
  BY DEF CaseBizs, CaseStudies!Ask, CaseOps, CasePcs, CaseStudies!NoVer
<1>c. PICK d : d = CaseBegun(op, pc, c, DefaultBiz, CaseStudies!NoVer)
  OBVIOUS
<1>1. /\ d \in CaseCall /\ call[p].op = "idle" /\ call' = [call EXCEPT ![p] = d]
      /\ d.op = op /\ d.pc = pc /\ d.id = c
  BY <1>0, <1>c, CaseBegins
<1>2. CaseReads /\ spoiled' = spoiled /\ version \in Nat /\ cCache \in [Ids -> Nat]
  BY CaseCallsAre DEF CaseStudies!Ask, CaseReads, CaseStudies!tables
<1>3. CaseHolds(d)
  BY <1>1 DEF CaseHolds
<1>4. (\A e \in Ids : CaseFits(d, e)) /\ CasesFit(d) /\ CountFits(d)
  BY <1>1 DEF CaseFits, CasesFit, CountFits
<1>5. (\A e \in Ids : ~CaseBusy(call[p], e)) /\ ~CasesBusy(call[p])
  BY <1>1, CaseIdlesFree DEF CaseInv
<1>6. cCache' \in [Ids -> Nat] /\ CasesShown'
  BY <1>0, <1>2 DEF CaseInv, CasesShown, PageShown, CaseReads, CaseStudies!NoVer
<1>7. \A e \in Ids : CaseKept(p, d, e)
  BY <1>2, <1>4, <1>5 DEF CaseKept
<1>8. CasesKept(p, d) /\ CountKept(p, d)
  BY <1>2, <1>4, <1>5 DEF CasesKept, CountKept
<1>9. CaseGoes(p, d)
  BY <1>1, <1>2, <1>3, <1>6, <1>7, <1>8 DEF CaseGoes, CaseReads
<1> QED
  BY <1>9, CaseGone

LEMMA CaseReadersKeep ==
    ASSUME CaseInv, NEW p \in Procs,
           \/ \E c \in Ids : CaseStudies!GetPubByID(p, c)
           \/ CaseStudies!PubList(p) \/ CaseStudies!PubCount(p)
    PROVE  CaseInv'
<1>0. 0 \in CaseIds /\ Ids \subseteq CaseIds
  BY DEF CaseIds
<1>1. ASSUME NEW c \in Ids, CaseStudies!GetPubByID(p, c) PROVE CaseInv'
  BY <1>0, <1>1, CaseAsks DEF CaseStudies!GetPubByID
<1>2. CASE CaseStudies!PubList(p)
  BY <1>0, <1>2, CaseAsks DEF CaseStudies!PubList
<1>3. CASE CaseStudies!PubCount(p)
  BY <1>0, <1>3, CaseAsks DEF CaseStudies!PubCount
<1> QED
  BY <1>1, <1>2, <1>3

LEMMA CaseFailsKeeps ==
    ASSUME CaseInv, NEW p \in Procs, CaseStudies!Fails(p)
    PROVE  CaseInv'
<1>1. /\ CaseReads /\ CaseCaches /\ spoiled \subseteq spoiled'
      /\ call[p].pc \in {"setOwn", "set", "setList", "setTotal", "produce", "upload"}
      /\ call[p].pc = "setOwn" => CaseStudies!Goto(p, IF call[p].biz = DefaultBiz THEN "list" ELSE "get")
      /\ call[p].pc = "set" => CaseStudies!AfterSet(p)
      /\ call[p].pc = "setList" => CaseStudies!After(p)
      /\ call[p].pc = "produce" => CaseStudies!AfterEvent(p)
      /\ call[p].pc \in {"setTotal", "upload"} => CaseStudies!Done(p)
  BY DEF CaseStudies!Fails, CaseReads, CaseCaches, CaseStudies!tables, CaseStudies!caches
<1>2. /\ call[p].pc = "setOwn" => <<"case", call[p].id>> \in spoiled'
      /\ call[p].pc = "setList" => <<"list", 0>> \in spoiled'
      /\ call[p].pc = "setTotal" => <<"total", 0>> \in spoiled'
  BY DEF CaseStudies!Fails, CaseStudies!Copies
<1>3. CASE call[p].pc = "setOwn"
  BY <1>1, <1>2, <1>3, SetOwnKeeps DEF CaseCaches
<1>4. CASE call[p].pc = "set"
  BY <1>1, <1>4, SetCaseKeeps DEF CaseCaches
<1>5. CASE call[p].pc = "setList"
  BY <1>1, <1>2, <1>5, SetCasesKeeps DEF CaseCaches
<1>6. CASE call[p].pc = "setTotal"
  BY <1>1, <1>2, <1>6, SetCountKeeps DEF CaseCaches
<1>7. CASE call[p].pc \in {"produce", "upload"}
  BY <1>1, <1>7, CaseSentKeeps
<1> QED
  BY <1>1, <1>3, <1>4, <1>5, <1>6, <1>7

LEMMA CaseStepKeeps ==
    ASSUME CaseInv, NEW p \in Procs,
           \/ CaseStudies!SetOwn(p) \/ CaseStudies!SetCases(p) \/ CaseStudies!SetCase(p)
           \/ CaseStudies!syncCase(p) \/ CaseStudies!uploadCase(p) \/ CaseStudies!SetTotal(p)
    PROVE  CaseInv'
<1> USE DEF CaseReads, CaseStudies!tables
<1>1. CASE CaseStudies!SetOwn(p)
  <2>1. /\ CaseReads /\ call[p].pc = "setOwn" /\ lCache' = lCache /\ tCache' = tCache
        /\ CaseStudies!Goto(p, IF call[p].biz = DefaultBiz THEN "list" ELSE "get")
        /\ spoiled' = spoiled /\ cCache' = [cCache EXCEPT ![call[p].id] = call[p].ver]
    BY <1>1 DEF CaseStudies!SetOwn
  <2> QED
    BY <2>1, SetOwnKeeps
<1>2. CASE CaseStudies!SetCases(p)
  <2>1. /\ CaseReads /\ call[p].pc = "setList" /\ CaseStudies!After(p)
        /\ cCache' = cCache /\ tCache' = tCache /\ lCache' = call[p].list
        /\ \A x : x # <<"list", 0>> => (x \in spoiled <=> x \in spoiled')
        /\ \/ <<"list", 0>> \in spoiled' \/ <<"list", 0>> \notin spoiled
           \/ /\ call[p].list = CaseStudies!PublishCaseList
              /\ CaseStudies!OthersAt(p, "setList") = {}
    BY <1>2 DEF CaseStudies!SetCases
  <2> QED
    BY <2>1, SetCasesKeeps
<1>3. CASE CaseStudies!SetCase(p)
  BY <1>3, SetCaseKeeps DEF CaseStudies!SetCase
<1>4. CASE CaseStudies!syncCase(p) \/ CaseStudies!uploadCase(p)
  <2>1. /\ CaseReads /\ CaseCaches /\ call[p].pc \in {"produce", "upload"} /\ spoiled' = spoiled
        /\ CaseStudies!AfterEvent(p) \/ CaseStudies!Done(p)
    BY <1>4 DEF CaseStudies!syncCase, CaseStudies!uploadCase, CaseStudies!caches, CaseCaches
  <2> QED
    BY <2>1, CaseSentKeeps
<1>5. CASE CaseStudies!SetTotal(p)
  <2>1. /\ CaseReads /\ call[p].pc = "setTotal" /\ CaseStudies!Done(p)
        /\ cCache' = cCache /\ lCache' = lCache /\ tCache' = call[p].num
        /\ \A x : x # <<"total", 0>> => (x \in spoiled <=> x \in spoiled')
        /\ \/ <<"total", 0>> \in spoiled' \/ <<"total", 0>> \notin spoiled
           \/ /\ call[p].num = CaseStudies!PublishCaseCount
              /\ CaseStudies!OthersAt(p, "setTotal") = {}
    BY <1>5 DEF CaseStudies!SetTotal
  <2> QED
    BY <2>1, SetCountKeeps
<1> QED
  BY <1>1, <1>2, <1>3, <1>4, <1>5

LEMMA CaseIdles ==
    ASSUME CaseInv, CaseReads, CaseCaches, call' = call, spoiled' = spoiled
    PROVE  CaseInv'
<1> USE DEF CaseReads, CaseCaches
<1>1. CaseType' /\ CaseRowsArePublished' /\ CasesShown'
  BY DEF CaseInv, CaseType, CaseRowsArePublished, CasesShown, PageShown
<1>2. \A p \in Procs : CaseHolds(call[p])'
  BY DEF CaseInv, CaseHolds, PageShown
<1>3. \A c \in Ids : CaseCached(c)'
  BY DEF CaseInv, CaseCached, CaseFits, CaseBusy
<1>4. CasesCached'
  BY SameCases DEF CaseInv, CasesCached, CasesFit, CasesBusy
<1>5. CountCached'
  BY SameCases DEF CaseInv, CountCached, CountFits
<1> QED
  BY <1>1, <1>2, <1>3, <1>4, <1>5 DEF CaseInv

LEMMA CaseNext ==
    ASSUME CaseInv, CaseStudies!Next
    PROVE  CaseInv'
<1>1. CASE \E p \in Procs, c \in Ids :
              \/ CaseStudies!GetPubByID(p, c)
              \/ \E b \in Bizs : CaseStudies!Save(p, c, b) \/ CaseStudies!Publish(p, c, b)
  BY <1>1, CaseReadersKeep, SaveCaseKeeps, PublishCaseKeeps
<1>2. CASE \E p \in Procs :
              \/ CaseStudies!PubList(p) \/ CaseStudies!PubCount(p) \/ CaseStudies!SetOwn(p)
              \/ CaseStudies!ReadList(p) \/ CaseStudies!SetCases(p) \/ CaseStudies!getCase(p)
              \/ CaseStudies!ReadRow(p) \/ CaseStudies!SetCase(p) \/ CaseStudies!syncCase(p)
              \/ CaseStudies!uploadCase(p) \/ CaseStudies!ReadTotal(p)
              \/ CaseStudies!SetTotal(p) \/ CaseStudies!Fails(p)
  BY <1>2, CaseReadersKeep, CaseStepKeeps, ReadCasesKeeps, GetCaseKeeps, ReadRowKeeps,
     ReadCountKeeps, CaseFailsKeeps
<1>3. CASE CaseStudies!Consume \/ CaseStudies!ConsumeUpload \/ CaseStudies!UploadFails
  <2>1. CaseReads /\ CaseCaches /\ call' = call /\ spoiled' = spoiled
    BY <1>3 DEF CaseStudies!Consume, CaseStudies!ConsumeUpload, CaseStudies!UploadFails,
                CaseReads, CaseCaches, CaseStudies!tables, CaseStudies!caches
  <2> QED
    BY <2>1, CaseIdles
<1> QED
  BY <1>1, <1>2, <1>3 DEF CaseStudies!Next

LEMMA CaseIsRight == CaseInv => CaseStudies!CachesShowTheTable
<1> SUFFICES ASSUME CaseInv PROVE CaseStudies!CachesShowTheTable
  OBVIOUS
<1>1. ASSUME NEW c \in Ids, <<"case", c>> \notin spoiled,
             \A p \in CaseStudies!Publishing({"setOwn"}) : call[p].id # c
      PROVE  cCache[c] \in {CaseStudies!NoVer, pub[c].ver}
  <2>1. \A p \in Procs : ~CaseBusy(call[p], c)
    BY <1>1 DEF CaseStudies!Publishing, CaseBusy
  <2> QED
    BY <1>1, <2>1 DEF CaseInv, CaseCached
<1>2. ASSUME <<"list", 0>> \notin spoiled,
             \A p \in CaseStudies!Publishing({"setOwn", "list", "setList"}) : call[p].biz # DefaultBiz
      PROVE  lCache \in {CaseStudies!NoList, CaseStudies!PublishCaseList}
  <2>1. \A p \in Procs : ~CasesBusy(call[p])
    BY <1>2 DEF CaseStudies!Publishing, CasesBusy
  <2> QED
    BY <1>2, <2>1 DEF CaseInv, CasesCached
<1>3. <<"total", 0>> \notin spoiled => tCache \in {CaseStudies!Miss, CaseStudies!PublishCaseCount}
  BY DEF CaseInv, CountCached
<1> QED
  BY <1>1, <1>2, <1>3 DEF CaseStudies!CachesShowTheTable

-----------------------------------------------------------------------------
(***************************************************************************)
(* Question sets.                                                          *)
(***************************************************************************)
\* What a reader has read, and could have missed: the rows, the questions of
\* the rows that were read, those that are shown.
SetHolds(p) ==
    /\ call[p].op = "rows" => s6[p] \subseteq s2 \cap s4
    /\ call[p].op = "questions" => s6[p] \subseteq call[p].qids \cap s4
    /\ call[p].op = "shown" => call[p].qids \cap s3 \subseteq s4 /\ s6[p] \subseteq call[p].qids

SetInv ==
    /\ DOMAIN call = Procs
    /\ s4 \subseteq s3
    /\ \A p \in Procs : SetHolds(p)

LEMMA SetInit == QuestionSets!Init => SetInv
<1> SUFFICES ASSUME QuestionSets!Init PROVE SetInv
  OBVIOUS
<1>1. DOMAIN call = Procs /\ \A p \in Procs : call[p].op = "idle"
  BY DEF QuestionSets!Init, QuestionSets!Idle
<1>2. s4 \subseteq s3
  BY ContentAssumption DEF QuestionSets!Init
<1> QED
  BY <1>1, <1>2 DEF SetInv, SetHolds

\* One of the calls goes on, as c, or none.
SetGoes(p, c) ==
    /\ call' = [call EXCEPT ![p] = c]
    /\ c.op = "rows" => call[p] = QuestionSets!Idle
    /\ c.op = "questions" => call[p].op = "rows" /\ c.qids = s2
    /\ c.op = "shown" => call[p].op = "questions" /\ c.qids = call[p].qids \cap s4

LEMMA SetGone ==
    ASSUME SetInv, NEW p \in Procs, NEW c, SetGoes(p, c), QuestionSets!Keep,
           s3' = s3, s4' = s4,
           c.op \in {"rows", "questions", "shown"} => s2' = s2
    PROVE  SetInv'
<1>1. call'[p] = c /\ \A r \in Procs \ {p} : call'[r] = call[r]
  BY DEF SetInv, SetGoes
<1>2. \A r \in Procs :
          s6'[r] = IF call'[r].op \notin {"rows", "questions", "shown"} THEN {}
                   ELSE IF call[r] = QuestionSets!Idle THEN s2' \cap s4'
                   ELSE s6[r] \cap s2' \cap s4'
  BY DEF QuestionSets!Keep
<1>3. QuestionSets!Idle.op = "idle"
  BY DEF QuestionSets!Idle
<1>4. ASSUME NEW r \in Procs \ {p} PROVE SetHolds(r)'
  <2>1. SetHolds(r) /\ call'[r] = call[r]
    BY <1>1, <1>4 DEF SetInv
  <2> QED
    BY <1>2, <1>3, <2>1 DEF SetHolds
<1>5. SetHolds(p)'
  <2>1. c.op \in {"rows", "questions", "shown"} => s6'[p] \subseteq s2' \cap s4'
    BY <1>1, <1>2
  <2>2. c.op \in {"questions", "shown"} => s6'[p] \subseteq s6[p]
    <3>1. c.op \in {"questions", "shown"} => call[p] # QuestionSets!Idle
      BY <1>3 DEF SetGoes
    <3> QED
      BY <1>1, <1>2, <3>1
  <2>3. c.op = "questions" => s6'[p] \subseteq c.qids \cap s4'
    BY <2>1 DEF SetGoes
  <2>4. c.op = "shown" => s6[p] \subseteq c.qids /\ c.qids \subseteq s4'
    BY DEF SetInv, SetHolds, SetGoes
  <2> QED
    BY <1>1, <2>1, <2>2, <2>3, <2>4 DEF SetHolds
<1> QED
  BY <1>4, <1>5 DEF SetInv, SetGoes

LEMMA SetNext ==
    ASSUME SetInv, QuestionSets!Next
    PROVE  SetInv'
<1>0. QuestionSets!Idle.op = "idle"
  BY DEF QuestionSets!Idle
<1>1. CASE QuestionSets!PublishQuestion \/ QuestionSets!DeleteQuestion \/ QuestionSets!Consume
  <2>1. /\ call' = call /\ s4' \subseteq s3' /\ s3' \cap s4 \subseteq s4' /\ s3' \subseteq s3
    BY <1>1 DEF SetInv, QuestionSets!PublishQuestion, QuestionSets!DeleteQuestion,
                QuestionSets!Consume, QuestionSets!library
  <2>2. \A p \in Procs :
            s6'[p] = IF call'[p].op \notin {"rows", "questions", "shown"} THEN {}
                     ELSE IF call[p] = QuestionSets!Idle THEN s2' \cap s4'
                     ELSE s6[p] \cap s2' \cap s4'
    BY DEF QuestionSets!Next, QuestionSets!Keep
  <2>3. ASSUME NEW p \in Procs PROVE SetHolds(p)'
    <3>1. SetHolds(p) /\ call'[p] = call[p]
      BY <2>1 DEF SetInv
    <3>2. call[p].op \in {"rows", "questions", "shown"} => s6'[p] = s6[p] \cap s2' \cap s4'
      BY <1>0, <2>2, <3>1
    <3>3. call'[p].op = "shown" => call'[p].qids \cap s3' \subseteq s4'
      BY <2>1, <3>1 DEF SetHolds
    <3> QED
      BY <3>1, <3>2, <3>3 DEF SetHolds
  <2> QED
    BY <2>1, <2>3 DEF SetInv
<1>2. ASSUME NEW p \in Procs, QuestionSets!Step(p) PROVE SetInv'
  <2> USE DEF QuestionSets!Goto, QuestionSets!Return, QuestionSets!Idle, QuestionSets!library,
              QuestionSets!syncQuestionSet
  <2>1. \E c : /\ SetGoes(p, c) /\ s3' = s3 /\ s4' = s4
               /\ c.op \in {"rows", "questions", "shown"} => s2' = s2
    <3>1. CASE QuestionSets!SaveQuestionSet(p)
      BY <3>1 DEF QuestionSets!SaveQuestionSet, SetGoes
    <3>2. CASE QuestionSets!GetCandidates(p)
      BY <3>2 DEF QuestionSets!GetCandidates, SetGoes
    <3>3. CASE QuestionSets!UpdateQuestions(p)
      <4>1. /\ s3' = s3 /\ s4' = s4 /\ call' = [call EXCEPT ![p] = [op |-> "sync"]]
        BY <3>3 DEF QuestionSets!UpdateQuestions
      <4> WITNESS [op |-> "sync"]
      <4> QED
        BY <4>1 DEF SetGoes
    <3>4. CASE QuestionSets!SyncSet(p)
      BY <3>4 DEF QuestionSets!SyncSet, SetGoes
    <3>5. CASE QuestionSets!SyncRows(p)
      BY <3>5 DEF QuestionSets!SyncRows, SetGoes
    <3>6. CASE QuestionSets!Produce(p)
      BY <3>6 DEF QuestionSets!Produce, SetGoes
    <3>7. CASE QuestionSets!PubDetail(p)
      BY <3>7 DEF QuestionSets!PubDetail, QuestionSets!Begin, SetGoes
    <3>8. CASE QuestionSets!ReadRows(p)
      BY <3>8 DEF QuestionSets!ReadRows, SetGoes
    <3>9. CASE QuestionSets!ReadQuestions(p)
      BY <3>9 DEF QuestionSets!ReadQuestions, QuestionSets!GetPubQuestions, SetGoes
    <3>10. CASE QuestionSets!Shown(p)
      BY <3>10 DEF QuestionSets!Shown, SetGoes
    <3> QED
      BY <1>2, <3>1, <3>2, <3>3, <3>4, <3>5, <3>6, <3>7, <3>8, <3>9, <3>10 DEF QuestionSets!Step
  <2> QED
    BY <2>1, SetGone DEF QuestionSets!Next
<1> QED
  BY <1>1, <1>2 DEF QuestionSets!Next

LEMMA SetIdles ==
    ASSUME SetInv, call' = call, s2' = s2, s3' = s3, s4' = s4, s6' = s6
    PROVE  SetInv'
BY DEF SetInv, SetHolds

LEMMA SetIsRight == SetInv => QuestionSets!DraftsStayPrivate
BY DEF SetInv, SetHolds, QuestionSets!DraftsStayPrivate

-----------------------------------------------------------------------------
(***************************************************************************)
(* What is in a topic stays there until it is taken.                       *)
(***************************************************************************)
IsSeq(s) == \E S : s \in Seq(S)
ElementsOf(s) == {s[i] : i \in DOMAIN s}

LEMMA NoElements == IsSeq(<<>>) /\ ElementsOf(<<>>) = {}
<1>1. <<>> \in Seq({})
  OBVIOUS
<1>2. DOMAIN <<>> = {}
  OBVIOUS
<1> QED
  BY <1>1, <1>2 DEF IsSeq, ElementsOf

LEMMA Appended ==
    ASSUME NEW s, IsSeq(s), NEW e
    PROVE  IsSeq(Append(s, e)) /\ ElementsOf(Append(s, e)) \subseteq ElementsOf(s) \cup {e}
<1>1. PICK S : s \in Seq(S)
  BY DEF IsSeq
<1>2. PICK T : T = S \cup {e}
  OBVIOUS
<1>3. s \in Seq(T) /\ e \in T
  BY <1>1, <1>2
<1>4. Append(s, e) \in Seq(T)
  BY <1>3
<1>5. ASSUME NEW i \in DOMAIN Append(s, e)
      PROVE  Append(s, e)[i] = e \/ (i \in DOMAIN s /\ Append(s, e)[i] = s[i])
  BY <1>3
<1> QED
  BY <1>4, <1>5 DEF IsSeq, ElementsOf

LEMMA Taken ==
    ASSUME NEW s, IsSeq(s), s # <<>>
    PROVE  /\ IsSeq(Tail(s)) /\ ElementsOf(Tail(s)) \subseteq ElementsOf(s)
           /\ Head(s) \in ElementsOf(s)
<1>1. PICK S : s \in Seq(S)
  BY DEF IsSeq
<1>2. Tail(s) \in Seq(S) /\ Head(s) = s[1] /\ 1 \in DOMAIN s
  BY <1>1
<1>3. ASSUME NEW i \in DOMAIN Tail(s) PROVE i + 1 \in DOMAIN s /\ Tail(s)[i] = s[i + 1]
  BY <1>1
<1> QED
  BY <1>2, <1>3 DEF IsSeq, ElementsOf

-----------------------------------------------------------------------------
(***************************************************************************)
(* Projects.                                                               *)
(***************************************************************************)
\* A document of published columns.
Told(doc) ==
    /\ DOMAIN doc = Projects!Rows
    /\ \A r \in Projects!Rows : \A c \in DOMAIN doc[r] : doc[r][c] \in published

ProjectInv ==
    /\ DOMAIN call = Procs /\ DOMAIN pub = Projects!Rows
    /\ DOMAIN index = {"pub", "draft"} /\ DOMAIN index["draft"] = {Projects!Main}
    /\ Told(index["draft"][Projects!Main])
    /\ \A p \in Procs : Told(call[p].doc)
    /\ \A p \in Procs : call[p].left \subseteq Projects!Rows
    /\ IsSeq(topic)
    /\ \A e \in ElementsOf(topic) : Told(e.data) /\ ~ e.live /\ e.id = Projects!Main
    /\ \A r \in Projects!Rows : pub[r] # Projects!NoRow =>
           \A c \in Projects!Columns[r] : c \in DOMAIN pub[r] /\ pub[r][c] \in published

LEMMA ProjectKinds ==
    /\ \A r \in Projects!Rows : "status" \notin Projects!Columns[r] /\ "utime" \notin Projects!Columns[r]
    /\ {"title", "desc", "labels"} \subseteq Projects!Columns[Projects!Main]
    /\ Projects!Main \in Projects!Rows
<1>1. \A r \in Projects!Rows :
          r \in {"project", "resume", "introduction", "difficulty", "question", "combo"}
  BY ContentAssumption DEF Projects!Rows, Projects!Main
<1> QED
  BY <1>1 DEF Projects!Columns, Projects!Main, Projects!Rows

LEMMA NothingTold == Told(Projects!NoDocument)
<1>1. DOMAIN Projects!NoRow = {}
  BY DEF Projects!NoRow
<1> QED
  BY <1>1 DEF Told, Projects!NoDocument

LEMMA ProjectInit == Projects!Init => ProjectInv
<1> SUFFICES ASSUME Projects!Init PROVE ProjectInv
  OBVIOUS
<1>1. /\ DOMAIN call = Procs /\ DOMAIN pub = Projects!Rows
      /\ \A r \in Projects!Rows : pub[r] = Projects!NoRow
  BY DEF Projects!Init
<1>2. \A p \in Procs : call[p].doc = Projects!NoDocument /\ call[p].left = {}
  BY DEF Projects!Init, Projects!Idle
<1>3. topic = <<>> /\ DOMAIN index = {"pub", "draft"}
  BY DEF Projects!Init, Projects!Elastic!SearchInit
<1>4. /\ DOMAIN index["draft"] = {Projects!Main}
      /\ index["draft"][Projects!Main] = Projects!NoDocument
  BY DEF Projects!Init, Projects!Elastic!SearchInit
<1> QED
  BY <1>1, <1>2, <1>3, <1>4, NothingTold, NoElements DEF ProjectInv

\* What was published stays so.
LEMMA StillTold ==
    ASSUME published \subseteq published', NEW doc, Told(doc)
    PROVE  /\ DOMAIN doc = Projects!Rows
           /\ \A r \in Projects!Rows : \A c \in DOMAIN doc[r] : doc[r][c] \in published'
BY DEF Told

LEMMA ProjectPublishKeeps ==
    ASSUME ProjectInv, NEW p \in Procs, NEW r \in Projects!Rows, Projects!Publish(p, r)
    PROVE  ProjectInv'
<1>1. /\ pub' = [pub EXCEPT ![r] = Projects!sync(r)]
      /\ published' = published \cup {version'}
      /\ topic' = topic /\ index' = index
      /\ call' = [call EXCEPT ![p] = Projects!Reading]
  BY DEF Projects!Publish, Projects!Sync
<1>2. /\ DOMAIN call = Procs /\ DOMAIN pub = Projects!Rows
      /\ \A s \in Projects!Rows : pub[s] # Projects!NoRow =>
             \A c \in Projects!Columns[s] : c \in DOMAIN pub[s] /\ pub[s][c] \in published
  BY DEF ProjectInv
<1>3. \A c \in Projects!Columns[r] : c \in DOMAIN pub'[r] /\ pub'[r][c] \in published'
  <2>d. PICK d : d = Projects!toEntity(Projects!toDomain(r, version'), Projects!StatusPublished, version')
    OBVIOUS
  <2>1. \A c \in Projects!Columns[r] : c \in DOMAIN d /\ d[c] = version'
    BY <2>d, ProjectKinds DEF Projects!toEntity, Projects!toDomain
  <2>2. pub'[r] = Projects!Upserted(pub[r], d, Projects!pubUpdateColumns[r])
    BY <1>1, <1>2, <2>d DEF Projects!sync
  <2>3. CASE pub[r] = Projects!NoRow
    BY <1>1, <2>1, <2>2, <2>3 DEF Projects!Upserted
  <2>4. CASE pub[r] # Projects!NoRow
    <3>1. PICK cs : cs = Projects!pubUpdateColumns[r]
      OBVIOUS
    <3>2. pub'[r] = [c \in DOMAIN pub[r] |-> IF c \in cs THEN d[c] ELSE pub[r][c]]
      BY <2>2, <2>4, <3>1 DEF Projects!Upserted
    <3> QED
      BY <1>1, <1>2, <2>1, <2>4, <3>2
  <2> QED
    BY <2>3, <2>4
<1>4. \A s \in Projects!Rows : pub'[s] # Projects!NoRow =>
          \A c \in Projects!Columns[s] : c \in DOMAIN pub'[s] /\ pub'[s][c] \in published'
  BY <1>1, <1>2, <1>3
<1>5. \A q \in Procs : Told(call[q].doc)' /\ call'[q].left \subseteq Projects!Rows
  <2>1. Projects!Reading.doc = Projects!NoDocument /\ Projects!Reading.left = Projects!Rows
    BY DEF Projects!Reading
  <2>2. \A q \in Procs : Told(call'[q].doc) /\ call'[q].left \subseteq Projects!Rows
    BY <1>1, <1>2, <2>1, NothingTold DEF ProjectInv
  <2> QED
    BY <1>1, <2>2, StillTold DEF Told
<1>6. Told(index["draft"][Projects!Main])'
  BY <1>1, StillTold DEF Told, ProjectInv
<1>7. \A e \in ElementsOf(topic') : Told(e.data)' /\ ~ e.live /\ e.id = Projects!Main
  BY <1>1, StillTold DEF Told, ProjectInv
<1> QED
  BY <1>1, <1>2, <1>4, <1>5, <1>6, <1>7 DEF ProjectInv

\* The steps that publish nothing.
LEMMA ProjectLooks ==
    ASSUME ProjectInv, pub' = pub, published' = published,
           DOMAIN call' = Procs,
           \A p \in Procs : call'[p] = call[p] \/ (Told(call'[p].doc) /\ call'[p].left \subseteq Projects!Rows),
           DOMAIN index' = {"pub", "draft"}, DOMAIN index'["draft"] = {Projects!Main},
           Told(index'["draft"][Projects!Main]),
           IsSeq(topic'),
           \A e \in ElementsOf(topic') : Told(e.data) /\ ~ e.live /\ e.id = Projects!Main
    PROVE  ProjectInv'
<1>1. \A doc : Told(doc) => (Told(doc))'
  BY DEF Told
<1>2. \A p \in Procs : Told(call'[p].doc) /\ call'[p].left \subseteq Projects!Rows
  BY DEF ProjectInv
<1> QED
  BY <1>1, <1>2 DEF ProjectInv, Told

LEMMA ProjectQueryKeeps ==
    ASSUME ProjectInv, NEW p \in Procs, Projects!Query(p)
    PROVE  ProjectInv'
<1>1. /\ pub' = pub /\ published' = published /\ topic' = topic /\ index' = index
      /\ DOMAIN call = Procs /\ Told(call[p].doc) /\ call[p].left \subseteq Projects!Rows
  BY DEF Projects!Query, Projects!history, ProjectInv
<1>2. PICK r \in call[p].left :
          LET left == call[p].left \ {r} IN
          IF r = Projects!Main /\ Projects!Published(r) = Projects!NoRow
          THEN call' = [call EXCEPT ![p] = Projects!Idle]
          ELSE call' = [call EXCEPT ![p] =
                   [pc |-> IF left = {} THEN "produce" ELSE "read", left |-> left,
                    doc |-> [@.doc EXCEPT ![r] = Projects!newDocument(r, Projects!Published(r))]]]
  BY DEF Projects!Query
<1>3. r \in Projects!Rows
  BY <1>1
<1>w. PICK row : row = Projects!newDocument(r, Projects!Published(r))
  OBVIOUS
<1>4. \A c \in DOMAIN row : row[c] \in published
  <2>1. CASE row = Projects!NoRow
    <3>1. DOMAIN Projects!NoRow = {}
      BY DEF Projects!NoRow
    <3> QED
      BY <2>1, <3>1
  <2>2. CASE row # Projects!NoRow
    <3>1. Projects!Published(r) # Projects!NoRow /\ Projects!Published(r) = pub[r]
      BY <1>w, <2>2 DEF Projects!newDocument, Projects!Published
    <3>2. \A c \in Projects!Columns[r] : pub[r][c] \in published
      BY <1>3, <3>1 DEF ProjectInv
    <3>p. PICK page : page = Projects!pubToDomain(r, pub[r])
      OBVIOUS
    <3>3. DOMAIN page = Projects!Columns[r] /\ \A c \in Projects!Columns[r] : page[c] \in published
      BY <3>2, <3>p DEF Projects!pubToDomain
    <3>4. \/ row = page
          \/ r = Projects!Main /\ row = [c \in {"title", "desc", "labels"} |-> page[c]]
      BY <1>w, <2>2, <3>1, <3>p DEF Projects!newDocument
    <3>5. CASE row = page
      BY <3>3, <3>5
    <3>6. CASE r = Projects!Main /\ row = [c \in {"title", "desc", "labels"} |-> page[c]]
      BY <3>3, <3>6, ProjectKinds
    <3> QED
      BY <3>4, <3>5, <3>6
  <2> QED
    BY <2>1, <2>2
<1>d. PICK doc : doc = [call[p].doc EXCEPT ![r] = row]
  OBVIOUS
<1>5. Told(doc)
  BY <1>1, <1>3, <1>4, <1>d DEF Told
<1>6. /\ DOMAIN call' = Procs
      /\ \A q \in Procs \ {p} : call'[q] = call[q]
      /\ \/ call'[p] = Projects!Idle
         \/ call'[p].doc = doc /\ call'[p].left = call[p].left \ {r}
  BY <1>1, <1>2, <1>w, <1>d
<1>7. Projects!Idle.doc = Projects!NoDocument /\ Projects!Idle.left = {}
  BY DEF Projects!Idle
<1>8. \A q \in Procs : call'[q] = call[q] \/ (Told(call'[q].doc) /\ call'[q].left \subseteq Projects!Rows)
  BY <1>1, <1>5, <1>6, <1>7, NothingTold
<1>9. /\ DOMAIN index' = {"pub", "draft"} /\ DOMAIN index'["draft"] = {Projects!Main}
      /\ Told(index'["draft"][Projects!Main]) /\ IsSeq(topic')
      /\ \A e \in ElementsOf(topic') : Told(e.data) /\ ~ e.live /\ e.id = Projects!Main
  BY <1>1 DEF ProjectInv
<1> QED
  BY <1>1, <1>6, <1>8, <1>9, ProjectLooks

LEMMA ProjectProduceKeeps ==
    ASSUME ProjectInv, NEW p \in Procs, Projects!Produce(p)
    PROVE  ProjectInv'
<1>e. PICK e : e = Projects!Elastic!SyncEvent(FALSE, Projects!Main, call[p].doc)
  OBVIOUS
<1>1. /\ pub' = pub /\ published' = published /\ index' = index
      /\ topic' = Append(topic, e) /\ call' = [call EXCEPT ![p] = Projects!Idle]
  BY <1>e DEF Projects!Produce, Projects!history, Projects!Elastic!Produce
<1>2. Told(e.data) /\ ~ e.live /\ e.id = Projects!Main
  BY <1>e DEF Projects!Elastic!SyncEvent, ProjectInv
<1>3. IsSeq(topic') /\ ElementsOf(topic') \subseteq ElementsOf(topic) \cup {e}
  BY <1>1, Appended DEF ProjectInv
<1>4. Projects!Idle.doc = Projects!NoDocument /\ Projects!Idle.left = {}
  BY DEF Projects!Idle
<1>5. /\ DOMAIN call' = Procs
      /\ \A q \in Procs : call'[q] = call[q] \/ (Told(call'[q].doc) /\ call'[q].left \subseteq Projects!Rows)
  BY <1>1, <1>4, NothingTold DEF ProjectInv
<1>6. /\ DOMAIN index' = {"pub", "draft"} /\ DOMAIN index'["draft"] = {Projects!Main}
      /\ Told(index'["draft"][Projects!Main])
  BY <1>1 DEF ProjectInv
<1>7. \A x \in ElementsOf(topic') : Told(x.data) /\ ~ x.live /\ x.id = Projects!Main
  BY <1>2, <1>3 DEF ProjectInv
<1> QED
  BY <1>1, <1>3, <1>5, <1>6, <1>7, ProjectLooks

LEMMA ProjectConsumeKeeps ==
    ASSUME ProjectInv, Projects!Consume
    PROVE  ProjectInv'
<1>1. /\ pub' = pub /\ published' = published /\ call' = call
      /\ topic # <<>> /\ topic' = Tail(topic)
      /\ index' = index \/ Projects!Elastic!Input(Head(topic))
  BY DEF Projects!Consume, Projects!Elastic!Consume, Projects!Elastic!ConsumeFails
<1>2. IsSeq(topic') /\ ElementsOf(topic') \subseteq ElementsOf(topic) /\ Head(topic) \in ElementsOf(topic)
  BY <1>1, Taken DEF ProjectInv
<1>e. PICK e : e = Head(topic)
  OBVIOUS
<1>3. Told(e.data) /\ ~ e.live /\ e.id = Projects!Main
  BY <1>2, <1>e DEF ProjectInv
<1>4. /\ DOMAIN index = {"pub", "draft"} /\ DOMAIN index["draft"] = {Projects!Main}
      /\ Told(index["draft"][Projects!Main])
  BY DEF ProjectInv
<1>5. /\ DOMAIN index' = {"pub", "draft"} /\ DOMAIN index'["draft"] = {Projects!Main}
      /\ Told(index'["draft"][Projects!Main])
  <2>1. CASE Projects!Elastic!Input(Head(topic))
    <3>1. index' = [index EXCEPT !["draft"][Projects!Main] = e.data]
      BY <1>3, <1>e, <2>1 DEF Projects!Elastic!Input, Projects!Elastic!getIndexName
    <3>2. index'["draft"] = [index["draft"] EXCEPT ![Projects!Main] = e.data] /\ DOMAIN index' = DOMAIN index
      BY <1>4, <3>1
    <3> QED
      BY <1>3, <1>4, <3>2
  <2> QED
    BY <1>1, <1>4, <2>1
<1>6. \A x \in ElementsOf(topic') : Told(x.data) /\ ~ x.live /\ x.id = Projects!Main
  BY <1>2 DEF ProjectInv
<1>7. DOMAIN call' = Procs
  BY <1>1 DEF ProjectInv
<1> QED
  BY <1>1, <1>2, <1>5, <1>6, <1>7, ProjectLooks

LEMMA ProjectIdles ==
    ASSUME ProjectInv, pub' = pub, published' = published, topic' = topic, index' = index,
           call' = call \/ \E p \in Procs : call' = [call EXCEPT ![p] = Projects!Idle]
    PROVE  ProjectInv'
<1>1. Projects!Idle.doc = Projects!NoDocument /\ Projects!Idle.left = {}
  BY DEF Projects!Idle
<1>2. /\ DOMAIN call' = Procs
      /\ \A q \in Procs : call'[q] = call[q] \/ (Told(call'[q].doc) /\ call'[q].left \subseteq Projects!Rows)
  BY <1>1, NothingTold DEF ProjectInv
<1>3. /\ DOMAIN index' = {"pub", "draft"} /\ DOMAIN index'["draft"] = {Projects!Main}
      /\ Told(index'["draft"][Projects!Main]) /\ IsSeq(topic')
      /\ \A e \in ElementsOf(topic') : Told(e.data) /\ ~ e.live /\ e.id = Projects!Main
  BY DEF ProjectInv
<1> QED
  BY <1>2, <1>3, ProjectLooks

LEMMA ProjectNext ==
    ASSUME ProjectInv, Projects!Next
    PROVE  ProjectInv'
<1>1. CASE Projects!Delete \/ \E r \in Projects!Rows : Projects!Save(r)
  <2>1. pub' = pub /\ published' = published /\ topic' = topic /\ index' = index /\ call' = call
    BY <1>1 DEF Projects!Delete, Projects!Save
  <2> QED
    BY <2>1, ProjectIdles
<1>2. ASSUME NEW p \in Procs, Projects!SyncFails(p) PROVE ProjectInv'
  <2>1. /\ pub' = pub /\ published' = published /\ topic' = topic /\ index' = index
        /\ call' = [call EXCEPT ![p] = Projects!Idle]
    BY <1>2 DEF Projects!SyncFails
  <2> QED
    BY <2>1, ProjectIdles
<1> QED
  BY <1>1, <1>2, ProjectPublishKeeps, ProjectQueryKeeps, ProjectProduceKeeps, ProjectConsumeKeeps
     DEF Projects!Next

LEMMA ProjectIsRight == ProjectInv => Projects!DraftsStayPrivate
<1> SUFFICES ASSUME ProjectInv PROVE Projects!DraftsStayPrivate
  OBVIOUS
<1>1. \A i \in DOMAIN topic : Told(topic[i].data)
  BY DEF ProjectInv, ElementsOf
<1>2. Told(Projects!Document) /\ \A p \in Procs : Told(call[p].doc)
  BY DEF ProjectInv, Projects!Document
<1> QED
  BY <1>1, <1>2 DEF Told, Projects!DraftsStayPrivate

-----------------------------------------------------------------------------
(***************************************************************************)
(* What leaves the tables of the cases.                                    *)
(***************************************************************************)
CaseTold(e) == e.id \in Ids /\ e.data \in published[e.id]

CaseDocs ==
    /\ DOMAIN index = {"pub", "draft"}
    /\ \A n \in {"pub", "draft"} :
           /\ DOMAIN index[n] = Ids
           /\ \A c \in Ids : index[n][c] = CaseStudies!NoVer \/ index[n][c] \in published[c]
    /\ IsSeq(topic) /\ \A e \in ElementsOf(topic) : CaseTold(e)
    /\ IsSeq(uploads) /\ \A e \in ElementsOf(uploads) : CaseTold(e)
    /\ DOMAIN upload = {"pc", "id", "data", "file"}
    /\ upload.pc # "idle" => CaseTold(upload)
    /\ DOMAIN files = Ids
    /\ \A c \in Ids : \A f \in files[c] : f[1] \in published[c]

LEMMA CaseDocsInit == CaseStudies!Init => CaseDocs
<1> SUFFICES ASSUME CaseStudies!Init PROVE CaseDocs
  OBVIOUS
<1>1. /\ topic = <<>> /\ uploads = <<>>
      /\ index = [n \in {"pub", "draft"} |-> [c \in Ids |-> CaseStudies!NoVer]]
      /\ files = [c \in Ids |-> {}]
      /\ upload = CaseStudies!Kb!NoUpload
  BY DEF CaseStudies!Init, CaseStudies!Elastic!SearchInit, CaseStudies!Kb!KbInit
<1>2. DOMAIN upload = {"pc", "id", "data", "file"} /\ upload.pc = "idle"
  BY <1>1 DEF CaseStudies!Kb!NoUpload
<1> QED
  BY <1>1, <1>2, NoElements DEF CaseDocs

LEMMA CaseDocsStay ==
    ASSUME CaseDocs, \A c \in Ids : published[c] \subseteq published'[c],
           index' = index, topic' = topic, uploads' = uploads, upload' = upload, files' = files
    PROVE  CaseDocs'
<1>1. \A e : CaseTold(e) => CaseTold(e)'
  BY DEF CaseTold
<1> QED
  BY <1>1 DEF CaseDocs, CaseTold

LEMMA CaseSendsDocs ==
    ASSUME CaseInv, CaseDocs, NEW p \in Procs, CaseStudies!syncCase(p) \/ CaseStudies!uploadCase(p)
    PROVE  CaseDocs'
<1>1. /\ published' = published /\ index' = index /\ upload' = upload /\ files' = files
      /\ call[p].pc \in {"produce", "upload"}
  BY DEF CaseStudies!syncCase, CaseStudies!uploadCase, CaseStudies!tables, CaseStudies!kbVars
<1>2. call[p].id \in Ids /\ call[p].ver \in published[call[p].id]
  BY <1>1, CaseCallsAre DEF CaseHolds
<1>3. \E e : /\ CaseTold(e)
             /\ \/ topic' = Append(topic, e) /\ uploads' = uploads
                \/ topic' = topic /\ uploads' = Append(uploads, e)
  <2>1. CASE CaseStudies!syncCase(p)
    <3>e. PICK e : e = CaseStudies!Elastic!SyncEvent(call[p].op = "publish", call[p].id, call[p].ver)
      OBVIOUS
    <3>1. topic' = Append(topic, e) /\ uploads' = uploads
      BY <2>1, <3>e DEF CaseStudies!syncCase, CaseStudies!Elastic!Produce, CaseStudies!kbVars
    <3>2. CaseTold(e)
      BY <1>2, <3>e DEF CaseTold, CaseStudies!Elastic!SyncEvent
    <3> QED
      BY <3>1, <3>2
  <2>2. CASE CaseStudies!uploadCase(p)
    <3>e. PICK e : e = [id |-> call[p].id, data |-> call[p].ver]
      OBVIOUS
    <3>1. topic' = topic /\ uploads' = Append(uploads, e)
      BY <2>2, <3>e DEF CaseStudies!uploadCase, CaseStudies!Kb!Upload
    <3>2. CaseTold(e)
      BY <1>2, <3>e DEF CaseTold
    <3> QED
      BY <3>1, <3>2
  <2> QED
    BY <2>1, <2>2
<1>4. PICK e : /\ CaseTold(e)
               /\ \/ topic' = Append(topic, e) /\ uploads' = uploads
                  \/ topic' = topic /\ uploads' = Append(uploads, e)
  BY <1>3
<1>5. /\ IsSeq(topic') /\ ElementsOf(topic') \subseteq ElementsOf(topic) \cup {e}
      /\ IsSeq(uploads') /\ ElementsOf(uploads') \subseteq ElementsOf(uploads) \cup {e}
  <2>1. IsSeq(topic) /\ IsSeq(uploads)
    BY DEF CaseDocs
  <2>2. IsSeq(Append(topic, e)) /\ ElementsOf(Append(topic, e)) \subseteq ElementsOf(topic) \cup {e}
    BY <2>1, Appended
  <2>3. IsSeq(Append(uploads, e)) /\ ElementsOf(Append(uploads, e)) \subseteq ElementsOf(uploads) \cup {e}
    BY <2>1, Appended
  <2> QED
    BY <1>4, <2>1, <2>2, <2>3
<1>6. \A x \in ElementsOf(topic') \cup ElementsOf(uploads') : CaseTold(x)
  BY <1>4, <1>5 DEF CaseDocs
<1> QED
  BY <1>1, <1>5, <1>6 DEF CaseDocs, CaseTold

LEMMA CaseConsumes ==
    ASSUME CaseDocs, CaseStudies!Consume
    PROVE  CaseDocs'
<1>1. /\ published' = published /\ uploads' = uploads /\ upload' = upload /\ files' = files
      /\ topic # <<>> /\ topic' = Tail(topic) /\ CaseStudies!Elastic!Input(Head(topic))
  BY DEF CaseStudies!Consume, CaseStudies!Elastic!Consume, CaseStudies!tables, CaseStudies!kbVars
<1>2. IsSeq(topic') /\ ElementsOf(topic') \subseteq ElementsOf(topic) /\ Head(topic) \in ElementsOf(topic)
  BY <1>1, Taken DEF CaseDocs
<1>e. PICK e : e = Head(topic)
  OBVIOUS
<1>3. CaseTold(e) /\ \A x \in ElementsOf(topic') : CaseTold(x)
  BY <1>2, <1>e DEF CaseDocs
<1>4. PICK n \in {"pub", "draft"} : index' = [index EXCEPT ![n][e.id] = e.data]
  BY <1>1, <1>e DEF CaseStudies!Elastic!Input, CaseStudies!Elastic!getIndexName
<1>5. /\ DOMAIN index' = {"pub", "draft"}
      /\ \A m \in {"pub", "draft"} :
             /\ DOMAIN index'[m] = Ids
             /\ \A c \in Ids : index'[m][c] = CaseStudies!NoVer \/ index'[m][c] \in published[c]
  <2>1. DOMAIN index = {"pub", "draft"} /\ DOMAIN index' = {"pub", "draft"}
    BY <1>4 DEF CaseDocs
  <2>2. ASSUME NEW m \in {"pub", "draft"} \ {n} PROVE index'[m] = index[m]
    BY <1>4, <2>1, <2>2
  <2>3. index'[n] = [index[n] EXCEPT ![e.id] = e.data]
    BY <1>4, <2>1
  <2>4. ASSUME NEW m \in {"pub", "draft"}
        PROVE  /\ DOMAIN index[m] = Ids
               /\ \A c \in Ids : index[m][c] = CaseStudies!NoVer \/ index[m][c] \in published[c]
    BY DEF CaseDocs
  <2>5. /\ DOMAIN index'[n] = Ids
        /\ \A c \in Ids : index'[n][c] = CaseStudies!NoVer \/ index'[n][c] \in published[c]
    BY <1>3, <2>3, <2>4 DEF CaseTold
  <2> QED
    BY <2>1, <2>2, <2>4, <2>5
<1> QED
  BY <1>1, <1>2, <1>3, <1>5 DEF CaseDocs, CaseTold

LEMMA CaseUploads ==
    ASSUME CaseDocs, CaseStudies!ConsumeUpload \/ CaseStudies!UploadFails
    PROVE  CaseDocs'
<1>1. /\ published' = published /\ index' = index /\ topic' = topic
      /\ CaseStudies!Kb!UploadFile \/ CaseStudies!Kb!UploadFails
  BY DEF CaseStudies!ConsumeUpload, CaseStudies!UploadFails, CaseStudies!tables
<1>2. /\ IsSeq(uploads) /\ \A e \in ElementsOf(uploads) : CaseTold(e)
      /\ DOMAIN upload = {"pc", "id", "data", "file"}
      /\ upload.pc # "idle" => CaseTold(upload)
      /\ DOMAIN files = Ids
      /\ \A c \in Ids : \A f \in files[c] : f[1] \in published[c]
  BY DEF CaseDocs
<1>n. /\ DOMAIN CaseStudies!Kb!NoUpload = {"pc", "id", "data", "file"}
      /\ CaseStudies!Kb!NoUpload.pc = "idle"
  BY DEF CaseStudies!Kb!NoUpload
<1>3. /\ IsSeq(uploads') /\ \A e \in ElementsOf(uploads') : CaseTold(e)
      /\ DOMAIN upload' = {"pc", "id", "data", "file"}
      /\ upload'.pc # "idle" => CaseTold(upload')
      /\ DOMAIN files' = Ids
      /\ \A c \in Ids : \A f \in files'[c] : f[1] \in published[c]
  <2>1. CASE CaseStudies!Kb!GetInfo
    <3>1. /\ uploads # <<>> /\ uploads' = Tail(uploads) /\ files' = files
          /\ DOMAIN upload' = {"pc", "id", "data", "file"}
          /\ upload'.id = Head(uploads).id /\ upload'.data = Head(uploads).data
      BY <2>1 DEF CaseStudies!Kb!GetInfo
    <3>2. /\ IsSeq(uploads') /\ ElementsOf(uploads') \subseteq ElementsOf(uploads)
          /\ Head(uploads) \in ElementsOf(uploads)
      BY <1>2, <3>1, Taken
    <3>3. CaseTold(upload')
      BY <1>2, <3>1, <3>2 DEF CaseTold
    <3> QED
      BY <1>2, <3>1, <3>2, <3>3
  <2>2. CASE CaseStudies!Kb!removeFile
    <3>1. /\ uploads' = uploads /\ upload.pc # "idle" /\ upload.id \in Ids
      BY <1>2, <2>2 DEF CaseStudies!Kb!removeFile, CaseTold
    <3>2. \/ upload' = CaseStudies!Kb!NoUpload /\ files' = files
          \/ /\ upload' = [upload EXCEPT !.pc = "create"]
             /\ files' = [files EXCEPT ![upload.id] = @ \ {upload.file}]
      BY <2>2 DEF CaseStudies!Kb!removeFile, CaseStudies!Kb!Give
    <3>3. /\ DOMAIN upload' = {"pc", "id", "data", "file"}
          /\ upload'.pc # "idle" => CaseTold(upload')
      BY <1>2, <1>n, <3>1, <3>2 DEF CaseTold
    <3>4. DOMAIN files' = Ids /\ \A c \in Ids : files'[c] \subseteq files[c]
      BY <1>2, <3>1, <3>2
    <3> QED
      BY <1>2, <3>1, <3>3, <3>4
  <2>3. CASE CaseStudies!Kb!createFile
    <3>f. PICK file : file = <<upload.data, fileId + 1>>
      OBVIOUS
    <3>1. /\ uploads' = uploads /\ CaseTold(upload)
          /\ files' = [files EXCEPT ![upload.id] = @ \cup {file}]
          /\ upload' = [upload EXCEPT !.pc = "save", !.file = file]
      BY <1>2, <2>3, <3>f DEF CaseStudies!Kb!createFile
    <3>2. file[1] = upload.data
      BY <3>f
    <3>3. /\ DOMAIN upload' = {"pc", "id", "data", "file"}
          /\ upload'.id = upload.id /\ upload'.data = upload.data
      BY <1>2, <3>1
    <3>4. DOMAIN files' = Ids /\ \A c \in Ids : \A f \in files'[c] : f[1] \in published[c]
      BY <1>2, <3>1, <3>2 DEF CaseTold
    <3> QED
      BY <1>2, <3>1, <3>3, <3>4 DEF CaseTold
  <2>4. CASE CaseStudies!Kb!SaveFile \/ CaseStudies!Kb!UploadFails
    <3>1. uploads' = uploads /\ files' = files /\ upload' = CaseStudies!Kb!NoUpload
      BY <2>4 DEF CaseStudies!Kb!SaveFile, CaseStudies!Kb!UploadFails, CaseStudies!Kb!Give
    <3> QED
      BY <1>2, <1>n, <3>1
  <2> QED
    BY <1>1, <2>1, <2>2, <2>3, <2>4 DEF CaseStudies!Kb!UploadFile
<1> QED
  BY <1>1, <1>3 DEF CaseDocs, CaseTold

\* No other step touches them.
LEMMA CaseDocsNext ==
    ASSUME CaseInv, CaseDocs, CaseStudies!Next
    PROVE  CaseDocs'
<1>1. CASE \/ \E p \in Procs, c \in Ids :
                \/ CaseStudies!GetPubByID(p, c)
                \/ \E b \in Bizs : CaseStudies!Save(p, c, b) \/ CaseStudies!Publish(p, c, b)
           \/ \E p \in Procs :
                \/ CaseStudies!PubList(p) \/ CaseStudies!PubCount(p) \/ CaseStudies!SetOwn(p)
                \/ CaseStudies!ReadList(p) \/ CaseStudies!SetCases(p) \/ CaseStudies!getCase(p)
                \/ CaseStudies!ReadRow(p) \/ CaseStudies!SetCase(p)
                \/ CaseStudies!ReadTotal(p) \/ CaseStudies!SetTotal(p) \/ CaseStudies!Fails(p)
  <2> USE DEF CaseStudies!outside, CaseStudies!kbVars, CaseStudies!tables
  <2>1. /\ index' = index /\ topic' = topic /\ uploads' = uploads /\ upload' = upload /\ files' = files
        /\ \/ published' = published
           \/ \E c \in Ids : \E v : published' = [published EXCEPT ![c] = @ \cup {v}]
    <3>1. CASE \E p \in Procs, c \in Ids, b \in Bizs : CaseStudies!Save(p, c, b) \/ CaseStudies!Publish(p, c, b)
      BY <3>1 DEF CaseStudies!Save, CaseStudies!Publish
    <3>2. CASE \E p \in Procs : \/ \E c \in Ids : CaseStudies!GetPubByID(p, c)
                                \/ CaseStudies!PubList(p) \/ CaseStudies!PubCount(p)
      BY <3>2 DEF CaseStudies!GetPubByID, CaseStudies!PubList, CaseStudies!PubCount, CaseStudies!Ask
    <3>3. ASSUME NEW p \in Procs,
                 \/ CaseStudies!SetOwn(p) \/ CaseStudies!ReadList(p) \/ CaseStudies!SetCases(p)
                 \/ CaseStudies!getCase(p)
          PROVE  /\ index' = index /\ topic' = topic /\ uploads' = uploads /\ upload' = upload
                 /\ files' = files /\ published' = published
      BY <3>3 DEF CaseStudies!SetOwn, CaseStudies!ReadList, CaseStudies!SetCases, CaseStudies!getCase
    <3>4. ASSUME NEW p \in Procs,
                 \/ CaseStudies!ReadRow(p) \/ CaseStudies!SetCase(p) \/ CaseStudies!ReadTotal(p)
                 \/ CaseStudies!SetTotal(p) \/ CaseStudies!Fails(p)
          PROVE  /\ index' = index /\ topic' = topic /\ uploads' = uploads /\ upload' = upload
                 /\ files' = files /\ published' = published
      BY <3>4 DEF CaseStudies!ReadRow, CaseStudies!SetCase, CaseStudies!ReadTotal,
                  CaseStudies!SetTotal, CaseStudies!Fails
    <3> QED
      BY <1>1, <3>1, <3>2, <3>3, <3>4
  <2>2. published \in [Ids -> SUBSET Nat]
    BY DEF CaseInv, CaseType
  <2>3. \A c \in Ids : published[c] \subseteq published'[c]
    BY <2>1, <2>2
  <2> QED
    BY <2>1, <2>3, CaseDocsStay
<1> QED
  BY <1>1, CaseSendsDocs, CaseConsumes, CaseUploads DEF CaseStudies!Next

LEMMA CasesStayPrivate == CaseInv /\ CaseDocs => CaseStudies!DraftsStayPrivate
BY DEF CaseInv, CasesShown, PageShown, CaseDocs, CaseStudies!DraftsStayPrivate, CaseStudies!NoVer

-----------------------------------------------------------------------------
(***************************************************************************)
(* The full syncs, of either kind of rows.                                 *)
(***************************************************************************)
SyncRows(k) == OfKind(k, QuestionRows, CaseRows)

\* A version of q that was published, unless q was saved in between.
SyncSees(q, ver) == q \in s4 \/ ver \in published[q]

\* The same of the two halves of a document.
SyncTells(q, doc) ==
    q \in s4 \/ (doc[1] \in published[q] /\ (doc[2] \in published[q] \/ doc[2] = 0))

SyncMoves(k, e) == e.id \in SyncRows(k) /\ SyncSees(e.id, e.data)

SyncShows(k, e) == e.id \in SyncRows(k) /\ SyncTells(e.id, e.doc)

\* What the tables and the calls that have committed hold.
SyncDue(k, e) ==
    /\ e.id \in SyncRows(k)
    /\ e.op = "publish" =>
           IF Syncs(k)!OfQuestions
           THEN draft[e.id] = Syncs(k)!NoRow \/ SyncSees(e.id, draft[e.id].ver)
           ELSE pub[e.id].ver \in published[e.id]

SyncKept(k) ==
    /\ DOMAIN draft = SyncRows(k) /\ DOMAIN pub = SyncRows(k) /\ DOMAIN published = SyncRows(k)
    /\ \A q \in SyncRows(k) :
           /\ pub[q] = Syncs(k)!NoRow \/ pub[q].ver \in published[q]
           /\ draft[q].live => draft[q].ver \in published[q]
    /\ \A e \in s1 : SyncDue(k, e)

\* Search.
SyncTopic(k) ==
    /\ IsSeq(topic)
    /\ \A e \in ElementsOf(topic) : e.live => e.id \in SyncRows(k) /\ SyncTells(e.id, e.data)

SyncIndex(k) ==
    /\ DOMAIN index = {"pub", "draft"} /\ DOMAIN index["pub"] = SyncRows(k)
    /\ \A q \in SyncRows(k) : index["pub"][q] = Syncs(k)!NoDoc \/ SyncTells(q, index["pub"][q])

\* The two that upload.
SyncUploads(k, topics, uploading) ==
    /\ IsSeq(topics) /\ \A e \in ElementsOf(topics) : SyncMoves(k, e)
    /\ DOMAIN uploading = {"pc", "id", "data", "file"}
    /\ uploading.pc # "idle" => SyncMoves(k, uploading)

SyncFiles(k) ==
    /\ DOMAIN files = SyncRows(k)
    /\ \A q \in SyncRows(k) : \A f \in files[q] : SyncSees(q, f[1])

\* What a sync has in hand.
SyncHolds(k, t, r) ==
    /\ DOMAIN r = {"pc", "offset", "page", "whole"} /\ IsSeq(r.page) /\ r.offset \in Nat
    /\ t # "kbase" /\ r.pc \in {"eles", "index"} => r.page # <<>>
    /\ t = "pub" => \A e \in ElementsOf(r.page) : SyncShows(k, e)
    /\ t = "kbase" =>
           /\ r.pc = "next" => r.page # <<>>
           /\ \A c \in ElementsOf(r.page) :
                  ~Syncs(k)!OfQuestions /\ c \in SyncRows(k) /\ SyncSees(c, draft[c].ver)

SyncHand(k) ==
    /\ DOMAIN s2 = {"draft", "pub", "kbase"}
    /\ \A t \in {"draft", "pub", "kbase"} : SyncHolds(k, t, s2[t])

SyncInv(k) ==
    /\ SyncKept(k) /\ SyncTopic(k) /\ SyncIndex(k) /\ SyncHand(k) /\ SyncFiles(k)
    /\ SyncUploads(k, uploads, upload) /\ SyncUploads(k, own, ownUpload)

LEMMA Mapped ==
    ASSUME NEW s, IsSeq(s), NEW f, f = [i \in DOMAIN s |-> f[i]]
    PROVE  IsSeq(f) /\ (s # <<>> => f # <<>>)
<1>1. PICK S : s \in Seq(S)
  BY DEF IsSeq
<1>2. PICK T : T = {f[i] : i \in DOMAIN s}
  OBVIOUS
<1>3. DOMAIN s = 1..Len(s) /\ Len(s) \in Nat
  BY <1>1
<1>4. f \in [1..Len(s) -> T]
  BY <1>2, <1>3
<1>5. f \in Seq(T)
  BY <1>3, <1>4
<1>6. s # <<>> => 1 \in DOMAIN s
  BY <1>1
<1>7. DOMAIN f = DOMAIN s /\ DOMAIN <<>> = {}
  OBVIOUS
<1> QED
  BY <1>5, <1>6, <1>7 DEF IsSeq

LEMMA Joined ==
    ASSUME NEW s, IsSeq(s), NEW t, IsSeq(t)
    PROVE  IsSeq(s \o t) /\ ElementsOf(s \o t) \subseteq ElementsOf(s) \cup ElementsOf(t)
<1>1. PICK S : s \in Seq(S)
  BY DEF IsSeq
<1>2. PICK T : t \in Seq(T)
  BY DEF IsSeq
<1>3. PICK U : U = S \cup T
  OBVIOUS
<1>4. s \in Seq(U) /\ t \in Seq(U)
  BY <1>1, <1>2, <1>3
<1>5. s \o t \in Seq(U)
  BY <1>4
<1>6. ASSUME NEW i \in DOMAIN (s \o t)
      PROVE  (s \o t)[i] \in ElementsOf(s) \cup ElementsOf(t)
  <2>1. /\ i \in 1..(Len(s) + Len(t)) /\ Len(s) \in Nat /\ Len(t) \in Nat
        /\ DOMAIN s = 1..Len(s) /\ DOMAIN t = 1..Len(t)
    BY <1>4
  <2>2. CASE i <= Len(s)
    <3>1. (s \o t)[i] = s[i] /\ i \in DOMAIN s
      BY <1>4, <2>1, <2>2
    <3> QED
      BY <3>1 DEF ElementsOf
  <2>3. CASE i > Len(s)
    <3>1. (s \o t)[i] = t[i - Len(s)] /\ i - Len(s) \in DOMAIN t
      BY <1>4, <2>1, <2>3
    <3> QED
      BY <3>1 DEF ElementsOf
  <2> QED
    BY <2>1, <2>2, <2>3
<1> QED
  BY <1>5, <1>6 DEF IsSeq, ElementsOf

\* One and two.
LEMMA Pairs ==
    ASSUME NEW a, NEW b
    PROVE  /\ IsSeq(<<a>>) /\ ElementsOf(<<a>>) = {a}
           /\ IsSeq(<<a, b>>) /\ ElementsOf(<<a, b>>) = {a, b}
<1>1. PICK S : S = {a, b}
  OBVIOUS
<1>2. <<a>> \in Seq(S) /\ <<a, b>> \in Seq(S)
  BY <1>1
<1>3. DOMAIN <<a>> = {1} /\ DOMAIN <<a, b>> = {1, 2}
  OBVIOUS
<1> QED
  BY <1>2, <1>3 DEF IsSeq, ElementsOf

-----------------------------------------------------------------------------
\* What was published, and saved since, stays so.
SyncGrows(k) ==
    s4 \subseteq s4' /\ \A q \in SyncRows(k) : published[q] \subseteq published'[q]

LEMMA SyncStillSees ==
    ASSUME NEW k, SyncGrows(k)
    PROVE  /\ \A q \in SyncRows(k) : \A v : SyncSees(q, v) => (SyncSees(q, v))'
           /\ \A q \in SyncRows(k) : \A d : SyncTells(q, d) => (SyncTells(q, d))'
           /\ \A e : SyncMoves(k, e) => (SyncMoves(k, e))'
           /\ \A e : SyncShows(k, e) => (SyncShows(k, e))'
BY DEF SyncGrows, SyncSees, SyncTells, SyncMoves, SyncShows, SyncRows

LEMMA SyncSearchStays ==
    ASSUME NEW k, SyncGrows(k), SyncTopic(k), SyncIndex(k), topic' = topic, index' = index
    PROVE  SyncTopic(k)' /\ SyncIndex(k)'
<1>1. SyncTopic(k)'
  BY SyncStillSees DEF SyncTopic, SyncRows
<1>2. SyncIndex(k)'
  BY SyncStillSees DEF SyncIndex, SyncRows
<1> QED
  BY <1>1, <1>2

LEMMA SyncFilesStay ==
    ASSUME NEW k, SyncGrows(k)
    PROVE  /\ SyncFiles(k) /\ files' = files => SyncFiles(k)'
           /\ SyncUploads(k, uploads, upload) /\ uploads' = uploads /\ upload' = upload
              => SyncUploads(k, uploads, upload)'
           /\ SyncUploads(k, own, ownUpload) /\ own' = own /\ ownUpload' = ownUpload
              => SyncUploads(k, own, ownUpload)'
<1>1. SyncFiles(k) /\ files' = files => SyncFiles(k)'
  BY SyncStillSees DEF SyncFiles, SyncRows
<1>2. SyncUploads(k, uploads, upload) /\ uploads' = uploads /\ upload' = upload
      => SyncUploads(k, uploads, upload)'
  BY SyncStillSees DEF SyncUploads
<1>3. SyncUploads(k, own, ownUpload) /\ own' = own /\ ownUpload' = ownUpload
      => SyncUploads(k, own, ownUpload)'
  BY SyncStillSees DEF SyncUploads
<1> QED
  BY <1>1, <1>2, <1>3

\* The rows, but for those that FullSync is about to upload.
LEMMA SyncHandStays ==
    ASSUME NEW k, SyncGrows(k), SyncHand(k), s2' = s2,
           \A c \in ElementsOf(s2["kbase"].page) :
               c \in SyncRows(k) /\ SyncSees(c, draft[c].ver) => (SyncSees(c, draft[c].ver))'
    PROVE  SyncHand(k)'
<1>1. ASSUME NEW t \in {"draft", "pub", "kbase"} PROVE SyncHolds(k, t, s2[t])'
  <2>1. SyncHolds(k, t, s2[t])
    BY DEF SyncHand
  <2> QED
    BY <2>1, SyncStillSees DEF SyncHolds, SyncRows
<1> QED
  BY <1>1 DEF SyncHand

LEMMA SyncInit == ASSUME NEW k, Syncs(k)!Init PROVE SyncInv(k)
<1>1. /\ draft = [q \in SyncRows(k) |-> IF q \in OfKind(k, OldQuestions, OldCases)
                                        THEN [ver |-> q, live |-> TRUE] ELSE Syncs(k)!NoRow]
      /\ pub = draft /\ s1 = {}
      /\ published = [q \in SyncRows(k) |-> IF q \in OfKind(k, OldQuestions, OldCases) THEN {q} ELSE {}]
      /\ own = <<>> /\ ownUpload = Syncs(k)!Kb!NoUpload
      /\ s2 = [s \in Syncs(k)!Tables \cup {"kbase"} |-> Syncs(k)!Idle]
  BY DEF Syncs!Init, SyncRows
<1>2. /\ topic = <<>>
      /\ index = [n \in {"pub", "draft"} |-> [q \in SyncRows(k) |-> Syncs(k)!NoDoc]]
  BY DEF Syncs!Init, Syncs!Elastic!SearchInit, SyncRows
<1>3. /\ uploads = <<>> /\ upload = Syncs(k)!Kb!NoUpload
      /\ files = [q \in SyncRows(k) |-> {}]
  BY DEF Syncs!Init, Syncs!Kb!KbInit, SyncRows
<1>4. SyncKept(k)
  <2>1. Syncs(k)!NoRow.live = FALSE
    BY DEF Syncs!NoRow
  <2>2. ASSUME NEW q \in SyncRows(k)
        PROVE  /\ pub[q] = Syncs(k)!NoRow \/ pub[q].ver \in published[q]
               /\ draft[q].live => draft[q].ver \in published[q]
    BY <1>1, <2>1
  <2> QED
    BY <1>1, <2>2 DEF SyncKept
<1>5. SyncTopic(k) /\ SyncIndex(k)
  BY <1>2, NoElements DEF SyncTopic, SyncIndex
<1>6. SyncFiles(k)
  BY <1>3 DEF SyncFiles
<1>7. SyncUploads(k, uploads, upload) /\ SyncUploads(k, own, ownUpload)
  <2>1. DOMAIN Syncs(k)!Kb!NoUpload = {"pc", "id", "data", "file"} /\ Syncs(k)!Kb!NoUpload.pc = "idle"
    BY DEF Syncs!Kb!NoUpload
  <2> QED
    BY <1>1, <1>3, <2>1, NoElements DEF SyncUploads
<1>8. SyncHand(k)
  <2>1. /\ DOMAIN Syncs(k)!Idle = {"pc", "offset", "page", "whole"}
        /\ Syncs(k)!Idle.pc = "idle" /\ Syncs(k)!Idle.page = <<>> /\ Syncs(k)!Idle.offset = 0
    BY DEF Syncs!Idle
  <2>2. \A t : SyncHolds(k, t, Syncs(k)!Idle)
    BY <2>1, NoElements DEF SyncHolds
  <2>3. Syncs(k)!Tables \cup {"kbase"} = {"draft", "pub", "kbase"}
    BY DEF Syncs!Tables
  <2> QED
    BY <1>1, <2>2, <2>3 DEF SyncHand
<1> QED
  BY <1>4, <1>5, <1>6, <1>7, <1>8 DEF SyncInv

-----------------------------------------------------------------------------
\* Editors: what a commit does to the tables.
LEMMA SyncSavesRow ==
    ASSUME NEW k, NEW q, NEW row, Syncs(k)!SaveDraft(q, row)
    PROVE  \/ Syncs(k)!OfQuestions /\ draft[q] = Syncs(k)!NoRow /\ draft' = draft
           \/ draft' = [draft EXCEPT ![q] = row]
BY DEF Syncs!SaveDraft

\* What FullSync will read is saved again: from then on it may be anything.
LEMMA SyncSaveRaces ==
    ASSUME NEW k, SyncHand(k), NEW q \in SyncRows(k), Syncs(k)!Save(q)
    PROVE  /\ s4 \subseteq s4'
           /\ (~Syncs(k)!OfQuestions /\ q \in ElementsOf(s2["kbase"].page)) => q \in s4'
           /\ Syncs(k)!OfQuestions => \A e \in s1 : e.id = q /\ e.op = "publish" => q \in s4'
<1>1. s4' = IF Syncs(k)!Unpublished(q) THEN s4 \cup {q} ELSE s4
  BY DEF Syncs!Save, Syncs!Commit
<1> QED
  BY <1>1 DEF Syncs!Unpublished, ElementsOf

LEMMA SyncSaveKeeps ==
    ASSUME NEW k, SyncInv(k), NEW q \in SyncRows(k), Syncs(k)!Save(q)
    PROVE  SyncInv(k)'
<1>1. /\ pub' = pub /\ published' = published /\ s2' = s2
      /\ topic' = topic /\ index' = index /\ uploads' = uploads /\ upload' = upload
      /\ files' = files /\ own' = own /\ ownUpload' = ownUpload
      /\ Syncs(k)!SaveDraft(q, [ver |-> version', live |-> FALSE])
      /\ s1' = s1 \cup {[ver |-> version', id |-> q, op |-> "save"]}
  BY DEF Syncs!Save, Syncs!Commit, Syncs!kbVars
<1>2. SyncGrows(k)
  BY <1>1, SyncSaveRaces DEF SyncGrows, SyncInv
<1>r. PICK row : row = [ver |-> version', live |-> FALSE]
  OBVIOUS
<1>3. draft' = draft \/ draft' = [draft EXCEPT ![q] = row]
  BY <1>1, <1>r, SyncSavesRow
<1>4. SyncKept(k)'
  <2>1. SyncKept(k)
    BY DEF SyncInv
  <2>2. DOMAIN draft' = SyncRows(k) /\ \A r \in SyncRows(k) \ {q} : draft'[r] = draft[r]
    BY <1>3, <2>1 DEF SyncKept
  <2>3. draft'[q] = draft[q] \/ draft'[q] = row
    BY <1>3, <2>1 DEF SyncKept
  <2>4. \A r \in SyncRows(k) : draft'[r].live => draft'[r].ver \in published'[r]
    BY <1>1, <1>r, <2>1, <2>2, <2>3 DEF SyncKept
  <2>5. ASSUME NEW e \in s1 PROVE SyncDue(k, e)'
    <3>1. SyncDue(k, e)
      BY <2>1 DEF SyncKept
    <3>2. CASE Syncs(k)!OfQuestions /\ e.op = "publish" /\ e.id = q
      <4>1. q \in s4'
        BY <3>2, SyncSaveRaces DEF SyncInv
      <4> QED
        BY <3>2, <4>1 DEF SyncDue, SyncSees, SyncRows, Syncs!OfQuestions
    <3>3. CASE Syncs(k)!OfQuestions /\ e.op = "publish" /\ e.id # q
      BY <1>2, <2>2, <3>1, <3>3, SyncStillSees DEF SyncDue, SyncRows, Syncs!OfQuestions, Syncs!NoRow
    <3>4. CASE ~(Syncs(k)!OfQuestions /\ e.op = "publish")
      BY <1>1, <3>1, <3>4 DEF SyncDue, SyncRows, Syncs!OfQuestions
    <3> QED
      BY <3>2, <3>3, <3>4
  <2>6. \A e : e = [ver |-> version', id |-> q, op |-> "save"] => SyncDue(k, e)'
    BY DEF SyncDue, SyncRows
  <2> QED
    BY <1>1, <2>1, <2>2, <2>4, <2>5, <2>6 DEF SyncKept, SyncRows, Syncs!NoRow
<1>5. SyncHand(k)'
  <2>1. SyncHand(k)
    BY DEF SyncInv
  <2>2. ASSUME NEW c \in ElementsOf(s2["kbase"].page),
               c \in SyncRows(k), SyncSees(c, draft[c].ver)
        PROVE  (SyncSees(c, draft[c].ver))'
    <3>1. ~Syncs(k)!OfQuestions
      BY <2>1 DEF SyncHand, SyncHolds
    <3>2. CASE c = q
      BY <2>1, <3>1, <3>2, SyncSaveRaces DEF SyncSees
    <3>3. CASE c # q
      <4>1. draft'[c] = draft[c]
        BY <1>3, <2>2, <3>3 DEF SyncInv, SyncKept
      <4> QED
        BY <1>2, <2>2, <4>1, SyncStillSees DEF SyncSees
    <3> QED
      BY <3>2, <3>3
  <2> QED
    BY <1>1, <1>2, <2>1, <2>2, SyncHandStays
<1> QED
  BY <1>1, <1>2, <1>4, <1>5, SyncSearchStays, SyncFilesStay DEF SyncInv

LEMMA SyncPublishKeeps ==
    ASSUME NEW k, SyncInv(k), NEW q \in SyncRows(k), Syncs(k)!Publish(q)
    PROVE  SyncInv(k)'
<1>1. /\ s2' = s2 /\ s4' = s4
      /\ topic' = topic /\ index' = index /\ uploads' = uploads /\ upload' = upload
      /\ files' = files /\ own' = own /\ ownUpload' = ownUpload
      /\ Syncs(k)!SaveDraft(q, [ver |-> version', live |-> TRUE])
      /\ pub' = [pub EXCEPT ![q] = [ver |-> version', live |-> TRUE]]
      /\ published' = [published EXCEPT ![q] = @ \cup {version'}]
      /\ s1' = s1 \cup {[ver |-> version', id |-> q, op |-> "publish"]}
  BY DEF Syncs!Publish, Syncs!Commit, Syncs!kbVars
<1>k. /\ DOMAIN draft = SyncRows(k) /\ DOMAIN pub = SyncRows(k) /\ DOMAIN published = SyncRows(k)
      /\ \A r \in SyncRows(k) :
           /\ pub[r] = Syncs(k)!NoRow \/ pub[r].ver \in published[r]
           /\ draft[r].live => draft[r].ver \in published[r]
      /\ \A e \in s1 : SyncDue(k, e)
  BY DEF SyncInv, SyncKept
<1>r. PICK row : row = [ver |-> version', live |-> TRUE]
  OBVIOUS
<1>2. /\ DOMAIN published' = SyncRows(k)
      /\ \A r \in SyncRows(k) \ {q} : published'[r] = published[r]
      /\ published'[q] = published[q] \cup {version'}
      /\ DOMAIN pub' = SyncRows(k)
      /\ \A r \in SyncRows(k) \ {q} : pub'[r] = pub[r]
      /\ pub'[q] = row /\ row.ver = version'
  BY <1>1, <1>k, <1>r
<1>3. SyncGrows(k)
  BY <1>1, <1>2 DEF SyncGrows
<1>4. /\ \/ Syncs(k)!OfQuestions /\ draft[q] = Syncs(k)!NoRow /\ draft' = draft
         \/ draft' = [draft EXCEPT ![q] = row]
      /\ DOMAIN draft' = SyncRows(k)
      /\ \A r \in SyncRows(k) \ {q} : draft'[r] = draft[r]
  BY <1>1, <1>k, <1>r, SyncSavesRow
<1>5. /\ draft'[q] = Syncs(k)!NoRow \/ draft'[q].ver = version'
      /\ ~Syncs(k)!OfQuestions => draft'[q].ver = version'
      /\ draft'[q].live => draft'[q].ver \in published'[q]
  <2>1. CASE draft' = draft /\ Syncs(k)!OfQuestions /\ draft[q] = Syncs(k)!NoRow
    BY <1>2, <1>k, <2>1
  <2>2. CASE draft' = [draft EXCEPT ![q] = row]
    BY <1>2, <1>k, <2>2
  <2> QED
    BY <1>4, <2>1, <2>2
<1>6. SyncKept(k)'
  <2>1. \A r \in SyncRows(k) :
           /\ pub'[r] = Syncs(k)!NoRow \/ pub'[r].ver \in published'[r]
           /\ draft'[r].live => draft'[r].ver \in published'[r]
    BY <1>2, <1>4, <1>5, <1>k
  <2>2. ASSUME NEW e, e.id = q PROVE SyncDue(k, e)'
    <3>1. version' \in published'[q]
      BY <1>2
    <3> QED
      BY <1>2, <1>5, <2>2, <3>1 DEF SyncDue, SyncSees, SyncRows, Syncs!OfQuestions, Syncs!NoRow
  <2>3. ASSUME NEW e \in s1, e.id # q PROVE SyncDue(k, e)'
    <3>1. SyncDue(k, e)
      BY <1>k
    <3> QED
      BY <1>2, <1>3, <1>4, <2>3, <3>1, SyncStillSees
         DEF SyncDue, SyncRows, Syncs!OfQuestions, Syncs!NoRow
  <2> QED
    BY <1>1, <1>2, <1>4, <2>1, <2>2, <2>3 DEF SyncKept, SyncRows, Syncs!NoRow
<1>7. SyncHand(k)'
  <2>1. SyncHand(k)
    BY DEF SyncInv
  <2>2. ASSUME NEW c \in ElementsOf(s2["kbase"].page),
               c \in SyncRows(k), SyncSees(c, draft[c].ver)
        PROVE  (SyncSees(c, draft[c].ver))'
    <3>1. ~Syncs(k)!OfQuestions
      BY <2>1 DEF SyncHand, SyncHolds
    <3>2. CASE c = q
      BY <1>2, <1>5, <3>1, <3>2 DEF SyncSees
    <3>3. CASE c # q
      <4>1. draft'[c] = draft[c]
        BY <1>4, <2>2, <3>3
      <4> QED
        BY <1>3, <2>2, <4>1, SyncStillSees DEF SyncSees
    <3> QED
      BY <3>2, <3>3
  <2> QED
    BY <1>1, <1>3, <2>1, <2>2, SyncHandStays
<1> QED
  BY <1>1, <1>3, <1>6, <1>7, SyncSearchStays, SyncFilesStay DEF SyncInv

LEMMA SyncDeleteKeeps ==
    ASSUME NEW k, SyncInv(k), NEW q \in SyncRows(k), Syncs(k)!Delete(q)
    PROVE  SyncInv(k)'
<1>1. /\ Syncs(k)!OfQuestions
      /\ s1' = s1 /\ s4' = s4 /\ published' = published
      /\ topic' = topic /\ index' = index /\ uploads' = uploads /\ upload' = upload
      /\ files' = files /\ own' = own /\ ownUpload' = ownUpload
      /\ draft' = [draft EXCEPT ![q] = Syncs(k)!NoRow]
      /\ pub' = [pub EXCEPT ![q] = Syncs(k)!NoRow]
      /\ s2' = [t \in DOMAIN s2 |-> [s2[t] EXCEPT !.whole = @ /\ s2[t].pc \in {"idle", "done"}]]
  BY DEF Syncs!Delete, Syncs!kbVars
<1>2. SyncGrows(k)
  BY <1>1 DEF SyncGrows
<1>3. SyncKept(k)'
  <2>1. SyncKept(k) /\ Syncs(k)!NoRow.live = FALSE
    BY DEF SyncInv, Syncs!NoRow
  <2>2. /\ DOMAIN draft' = SyncRows(k) /\ DOMAIN pub' = SyncRows(k)
        /\ draft'[q] = Syncs(k)!NoRow /\ pub'[q] = Syncs(k)!NoRow
        /\ \A r \in SyncRows(k) \ {q} : draft'[r] = draft[r] /\ pub'[r] = pub[r]
    BY <1>1, <2>1 DEF SyncKept
  <2>3. ASSUME NEW e \in s1 PROVE SyncDue(k, e)'
    <3>1. SyncDue(k, e)
      BY <2>1 DEF SyncKept
    <3> QED
      BY <1>1, <1>2, <2>2, <3>1, SyncStillSees
         DEF SyncDue, SyncRows, Syncs!OfQuestions, Syncs!NoRow
  <2> QED
    BY <1>1, <2>1, <2>2, <2>3 DEF SyncKept, SyncRows, Syncs!NoRow
<1>4. SyncHand(k)'
  <2>1. SyncHand(k)
    BY DEF SyncInv
  <2>2. ASSUME NEW t \in {"draft", "pub", "kbase"} PROVE (SyncHolds(k, t, s2[t]))'
    <3>1. SyncHolds(k, t, s2[t])
      BY <2>1 DEF SyncHand
    <3>2. /\ DOMAIN s2'[t] = DOMAIN s2[t] /\ s2'[t].pc = s2[t].pc
          /\ s2'[t].page = s2[t].page /\ s2'[t].offset = s2[t].offset
      BY <1>1, <2>1, <3>1 DEF SyncHand, SyncHolds
    <3> QED
      BY <1>1, <1>2, <3>1, <3>2, SyncStillSees DEF SyncHolds, SyncRows, Syncs!OfQuestions
  <2> QED
    BY <1>1, <2>1, <2>2 DEF SyncHand
<1> QED
  BY <1>1, <1>2, <1>3, <1>4, SyncSearchStays, SyncFilesStay DEF SyncInv

\* Of a row as it was published, both halves are.
LEMMA SyncWhole ==
    ASSUME NEW k, NEW q, NEW row, SyncSees(q, row.ver)
    PROVE  SyncTells(q, Syncs(k)!Whole(row))
BY DEF SyncSees, SyncTells, Syncs!Whole, Syncs!Doc

LEMMA SyncSent ==
    ASSUME NEW k, SyncKept(k), NEW e \in s1
    PROVE  /\ IsSeq(Syncs(k)!Sent(e))
           /\ \A x \in ElementsOf(Syncs(k)!Sent(e)) :
                  x.live => x.id \in SyncRows(k) /\ SyncTells(x.id, x.data)
<1>r. PICK row : row = IF Syncs(k)!OfQuestions THEN draft[e.id] ELSE pub[e.id]
  OBVIOUS
<1>f. PICK f : f = Syncs(k)!Elastic!SyncEvent(FALSE, e.id, Syncs(k)!Whole(row))
  OBVIOUS
<1>t. PICK t : t = Syncs(k)!Elastic!SyncEvent(TRUE, e.id, Syncs(k)!Whole(row))
  OBVIOUS
<1>1. /\ ~f.live
      /\ t.id = e.id /\ t.data = Syncs(k)!Whole(row)
  BY <1>f, <1>t DEF Syncs!Elastic!SyncEvent
<1>2. SyncDue(k, e)
  BY DEF SyncKept
<1>3. e.op = "publish" /\ row # Syncs(k)!NoRow => t.id \in SyncRows(k) /\ SyncTells(t.id, t.data)
  <2>1. SUFFICES ASSUME e.op = "publish", row # Syncs(k)!NoRow
                 PROVE  t.id \in SyncRows(k) /\ SyncTells(t.id, t.data)
    OBVIOUS
  <2>2. SyncSees(e.id, row.ver)
    BY <1>2, <1>r, <2>1 DEF SyncDue, SyncSees
  <2> QED
    BY <1>1, <1>2, <2>2, SyncWhole DEF SyncDue
<1>4. \/ Syncs(k)!Sent(e) = <<>>
      \/ Syncs(k)!Sent(e) = <<f>>
      \/ row # Syncs(k)!NoRow /\ e.op = "publish" /\ Syncs(k)!Sent(e) = <<t>>
      \/ row # Syncs(k)!NoRow /\ e.op = "publish" /\ Syncs(k)!Sent(e) = <<f, t>>
  <2>1. Syncs(k)!Sent(e) =
            IF row = Syncs(k)!NoRow THEN <<>>
            ELSE IF ~Syncs(k)!OfQuestions
            THEN <<Syncs(k)!Elastic!SyncEvent(e.op = "publish", e.id, Syncs(k)!Whole(row))>>
            ELSE IF e.op = "publish" THEN <<f, t>> ELSE <<f>>
    BY <1>r, <1>f, <1>t DEF Syncs!Sent
  <2>2. CASE e.op = "publish"
    <3>1. Syncs(k)!Elastic!SyncEvent(e.op = "publish", e.id, Syncs(k)!Whole(row)) = t
      BY <1>t, <2>2 DEF Syncs!Elastic!SyncEvent
    <3> QED
      BY <2>1, <2>2, <3>1
  <2>3. CASE e.op # "publish"
    <3>1. Syncs(k)!Elastic!SyncEvent(e.op = "publish", e.id, Syncs(k)!Whole(row)) = f
      BY <1>f, <2>3 DEF Syncs!Elastic!SyncEvent
    <3> QED
      BY <2>1, <2>3, <3>1
  <2> QED
    BY <2>2, <2>3
<1>p. PICK s : s = Syncs(k)!Sent(e)
  OBVIOUS
<1>5. IsSeq(s) /\ \A x \in ElementsOf(s) : x = f \/ (x = t /\ e.op = "publish" /\ row # Syncs(k)!NoRow)
  <2>1. CASE s = <<>>
    BY <2>1, NoElements
  <2>2. CASE s = <<f>>
    BY <2>2, Pairs
  <2>3. CASE row # Syncs(k)!NoRow /\ e.op = "publish" /\ s = <<t>>
    BY <2>3, Pairs
  <2>4. CASE row # Syncs(k)!NoRow /\ e.op = "publish" /\ s = <<f, t>>
    <3>1. IsSeq(s) /\ ElementsOf(s) = {f, t}
      BY <2>4, Pairs
    <3> QED
      BY <2>4, <3>1
  <2>5. \/ s = <<>> \/ s = <<f>>
        \/ row # Syncs(k)!NoRow /\ e.op = "publish" /\ s = <<t>>
        \/ row # Syncs(k)!NoRow /\ e.op = "publish" /\ s = <<f, t>>
    BY <1>4, <1>p
  <2> QED
    BY <2>1, <2>2, <2>3, <2>4, <2>5
<1> QED
  BY <1>1, <1>3, <1>5, <1>p

LEMMA SyncSendKeeps ==
    ASSUME NEW k, SyncInv(k), NEW e \in s1, Syncs(k)!SendEvents(e)
    PROVE  SyncInv(k)'
<1>1. /\ s1' = s1 \ {e} /\ s2' = s2 /\ s4' = s4
      /\ draft' = draft /\ pub' = pub /\ published' = published
      /\ topic' = topic \o Syncs(k)!Sent(e) /\ index' = index
      /\ upload' = upload /\ files' = files /\ own' = own /\ ownUpload' = ownUpload
      /\ uploads' = IF ~Syncs(k)!OfQuestions /\ e.op = "publish"
                    THEN Append(uploads, Syncs(k)!UploadOf(e.id, pub[e.id])) ELSE uploads
  BY DEF Syncs!SendEvents, Syncs!tables
<1>2. SyncGrows(k)
  BY <1>1 DEF SyncGrows
<1>3. SyncKept(k)'
  BY <1>1 DEF SyncInv, SyncKept, SyncDue, SyncRows, SyncSees, Syncs!OfQuestions, Syncs!NoRow
<1>4. SyncTopic(k)'
  <2>1. /\ IsSeq(topic')
        /\ ElementsOf(topic') \subseteq ElementsOf(topic) \cup ElementsOf(Syncs(k)!Sent(e))
    BY <1>1, SyncSent, Joined DEF SyncInv, SyncTopic
  <2>2. \A x \in ElementsOf(topic') : x.live => x.id \in SyncRows(k) /\ SyncTells(x.id, x.data)
    BY <2>1, SyncSent DEF SyncInv, SyncTopic
  <2> QED
    BY <1>1, <1>2, <2>1, <2>2, SyncStillSees DEF SyncTopic, SyncRows
<1>5. SyncUploads(k, uploads, upload)'
  <2>1. SyncUploads(k, uploads, upload)
    BY DEF SyncInv
  <2>2. CASE ~Syncs(k)!OfQuestions /\ e.op = "publish"
    <3>u. PICK u : u = Syncs(k)!UploadOf(e.id, pub[e.id])
      OBVIOUS
    <3>1. SyncDue(k, e)
      BY DEF SyncInv, SyncKept
    <3>2. SyncMoves(k, u)
      BY <2>2, <3>u, <3>1 DEF SyncDue, SyncMoves, SyncSees, Syncs!UploadOf
    <3>3. /\ IsSeq(uploads') /\ ElementsOf(uploads') \subseteq ElementsOf(uploads) \cup {u}
      BY <1>1, <2>1, <2>2, <3>u, Appended DEF SyncUploads
    <3> QED
      BY <1>1, <1>2, <2>1, <3>2, <3>3, SyncStillSees DEF SyncUploads
  <2>3. CASE ~(~Syncs(k)!OfQuestions /\ e.op = "publish")
    BY <1>1, <1>2, <2>1, <2>3, SyncFilesStay
  <2> QED
    BY <2>2, <2>3
<1>6. SyncHand(k)'
  BY <1>1, <1>2, SyncHandStays DEF SyncInv, SyncSees
<1>7. SyncIndex(k)'
  BY <1>1, <1>2, SyncStillSees DEF SyncInv, SyncIndex, SyncRows, Syncs!NoDoc
<1> QED
  BY <1>1, <1>2, <1>3, <1>4, <1>5, <1>6, <1>7, SyncFilesStay DEF SyncInv

\* A document comes into the index.
LEMMA SyncIndexed ==
    ASSUME NEW k, SyncIndex(k), NEW n \in {"pub", "draft"}, NEW q, NEW doc,
           n = "pub" => q \in SyncRows(k) /\ SyncTells(q, doc),
           index' = [index EXCEPT ![n][q] = doc],
           published' = published, s4' = s4
    PROVE  SyncIndex(k)'
<1>1. /\ DOMAIN index = {"pub", "draft"} /\ DOMAIN index["pub"] = SyncRows(k)
      /\ \A r \in SyncRows(k) : index["pub"][r] = Syncs(k)!NoDoc \/ SyncTells(r, index["pub"][r])
  BY DEF SyncIndex
<1>2. DOMAIN index' = {"pub", "draft"}
  BY <1>1
<1>3. CASE n = "draft"
  <2>1. index'["pub"] = index["pub"]
    BY <1>1, <1>3
  <2> QED
    BY <1>1, <1>2, <2>1 DEF SyncIndex, SyncRows, SyncTells, Syncs!NoDoc
<1>4. CASE n = "pub"
  <2>1. index'["pub"] = [index["pub"] EXCEPT ![q] = doc]
    BY <1>1, <1>4
  <2>2. DOMAIN index'["pub"] = SyncRows(k)
    BY <1>1, <2>1
  <2>3. \A r \in SyncRows(k) : index'["pub"][r] = Syncs(k)!NoDoc \/ SyncTells(r, index'["pub"][r])
    BY <1>1, <1>4, <2>1
  <2> QED
    BY <1>2, <2>2, <2>3 DEF SyncIndex, SyncRows, SyncTells, Syncs!NoDoc
<1> QED
  BY <1>3, <1>4

LEMMA SyncConsumeKeeps ==
    ASSUME NEW k, SyncInv(k), Syncs(k)!Consume
    PROVE  SyncInv(k)'
<1>1. /\ s1' = s1 /\ s2' = s2 /\ s4' = s4
      /\ draft' = draft /\ pub' = pub /\ published' = published
      /\ uploads' = uploads /\ upload' = upload /\ files' = files
      /\ own' = own /\ ownUpload' = ownUpload
      /\ topic # <<>> /\ topic' = Tail(topic)
      /\ Syncs(k)!Elastic!Input(Head(topic))
  BY DEF Syncs!Consume, Syncs!Elastic!Consume, Syncs!tables, Syncs!kbVars
<1>2. SyncGrows(k)
  BY <1>1 DEF SyncGrows
<1>3. /\ IsSeq(topic') /\ ElementsOf(topic') \subseteq ElementsOf(topic)
      /\ Head(topic) \in ElementsOf(topic)
  BY <1>1, Taken DEF SyncInv, SyncTopic
<1>4. SyncTopic(k)'
  BY <1>2, <1>3, SyncStillSees DEF SyncInv, SyncTopic, SyncRows
<1>e. PICK e : e = Head(topic)
  OBVIOUS
<1>5. e.live => e.id \in SyncRows(k) /\ SyncTells(e.id, e.data)
  BY <1>3, <1>e DEF SyncInv, SyncTopic
<1>6. SyncIndex(k)'
  <2>1. CASE e.live
    <3>1. index' = [index EXCEPT !["pub"][e.id] = e.data]
      BY <1>1, <1>e, <2>1 DEF Syncs!Elastic!Input, Syncs!Elastic!getIndexName
    <3> QED
      BY <1>1, <1>5, <2>1, <3>1, SyncIndexed DEF SyncInv
  <2>2. CASE ~e.live
    <3>1. index' = [index EXCEPT !["draft"][e.id] = e.data]
      BY <1>1, <1>e, <2>2 DEF Syncs!Elastic!Input, Syncs!Elastic!getIndexName
    <3> QED
      BY <1>1, <3>1, SyncIndexed DEF SyncInv
  <2> QED
    BY <2>1, <2>2
<1>7. SyncKept(k)'
  BY <1>1 DEF SyncInv, SyncKept, SyncDue, SyncRows, SyncSees, Syncs!OfQuestions, Syncs!NoRow
<1>8. SyncHand(k)'
  BY <1>1, <1>2, SyncHandStays DEF SyncInv, SyncSees
<1> QED
  BY <1>1, <1>2, <1>4, <1>6, <1>7, <1>8, SyncFilesStay DEF SyncInv

-----------------------------------------------------------------------------
\* A sync goes on with what it has in hand.
LEMMA SyncHandTakes ==
    ASSUME NEW k, SyncHand(k), NEW t \in {"draft", "pub", "kbase"}, NEW r, SyncHolds(k, t, r),
           s2' = [s2 EXCEPT ![t] = r], draft' = draft, published' = published, s4' = s4
    PROVE  SyncHand(k)'
<1>1. \A u, v : SyncHolds(k, u, v) => (SyncHolds(k, u, v))'
  BY DEF SyncHolds, SyncShows, SyncTells, SyncSees, SyncRows, Syncs!OfQuestions
<1>2. DOMAIN s2' = {"draft", "pub", "kbase"}
  BY DEF SyncHand
<1>3. ASSUME NEW u \in {"draft", "pub", "kbase"} PROVE (SyncHolds(k, u, s2[u]))'
  <2>1. CASE u = t
    <3>1. s2'[u] = r
      BY <2>1 DEF SyncHand
    <3> QED
      BY <1>1, <2>1, <3>1
  <2>2. CASE u # t
    <3>1. s2'[u] = s2[u] /\ SyncHolds(k, u, s2[u])
      BY <2>2 DEF SyncHand
    <3> QED
      BY <1>1, <3>1
  <2> QED
    BY <2>1, <2>2
<1> QED
  BY <1>2, <1>3 DEF SyncHand

\* The syncs to search leave all but the index as it is.
LEMMA SyncOutside ==
    ASSUME NEW k, SyncInv(k), UNCHANGED Syncs(k)!outsideSync
    PROVE  /\ draft' = draft /\ published' = published /\ s4' = s4
           /\ SyncKept(k)' /\ SyncTopic(k)' /\ SyncFiles(k)'
           /\ SyncUploads(k, uploads, upload)' /\ SyncUploads(k, own, ownUpload)'
           /\ index' = index => SyncIndex(k)'
           /\ s2' = s2 => SyncHand(k)'
<1>1. /\ s1' = s1 /\ s4' = s4 /\ draft' = draft /\ pub' = pub /\ published' = published
      /\ topic' = topic /\ uploads' = uploads /\ upload' = upload /\ files' = files
      /\ own' = own /\ ownUpload' = ownUpload
  BY DEF Syncs!outsideSync, Syncs!tables, Syncs!kbVars
<1>2. SyncGrows(k)
  BY <1>1 DEF SyncGrows
<1>3. SyncKept(k)'
  BY <1>1 DEF SyncInv, SyncKept, SyncDue, SyncRows, SyncSees, Syncs!OfQuestions, Syncs!NoRow
<1>4. s2' = s2 => SyncHand(k)'
  BY <1>1, <1>2, SyncHandStays DEF SyncInv, SyncSees
<1>5. SyncTopic(k)'
  BY <1>1, <1>2, SyncStillSees DEF SyncInv, SyncTopic, SyncRows
<1>6. index' = index => SyncIndex(k)'
  BY <1>1, <1>2, SyncSearchStays DEF SyncInv
<1> QED
  BY <1>1, <1>2, <1>3, <1>4, <1>5, <1>6, SyncFilesStay DEF SyncInv

LEMMA SyncRowsAreFinite ==
    ASSUME NEW k, NEW S, S \subseteq SyncRows(k) PROVE Syncs(k)!Cardinality(S) \in Nat
<1>1. IsFiniteSet(SyncRows(k))
  BY ContentAssumption DEF SyncRows, OfKind
<1>2. IsFiniteSet(S)
  BY <1>1, FS_Subset
<1>3. Cardinality(S) \in Nat
  BY <1>2, FS_CardinalityType
<1> QED
  BY <1>3 DEF Syncs!Cardinality, Cardinality

LEMMA SyncListed ==
    ASSUME NEW k, NEW t \in {"draft", "pub"}, NEW ids \in Syncs(k)!Listed(t)
    PROVE  ids \in Seq(Syncs(k)!RowsOf(t))
<1>r. PICK S : S = Syncs(k)!RowsOf(t)
  OBVIOUS
<1>1. S \subseteq SyncRows(k)
  BY <1>r DEF Syncs!RowsOf, SyncRows
<1>2. ids \in [1..Syncs(k)!Cardinality(S) -> S]
  BY <1>r DEF Syncs!Listed, Syncs!ListPubSince, Syncs!ListById, Syncs!InOrder
<1>3. Syncs(k)!Cardinality(S) \in Nat
  BY <1>1, SyncRowsAreFinite
<1>4. PICK n \in Nat : ids \in [1..n -> S]
  BY <1>2, <1>3
<1>5. ids \in Seq(S)
  BY <1>4
<1> QED
  BY <1>5, <1>r

LEMMA SyncPart ==
    ASSUME NEW k, NEW S, NEW ids \in Seq(S), NEW i \in Nat
    PROVE  Syncs(k)!Part(ids, i) \in Seq(S)
<1>0. SyncedPage \in Nat
  BY ContentAssumption
<1>1. SyncedPage \in Nat /\ Len(ids) \in Nat
  BY <1>0
<1>2. PICK m : m = IF i + SyncedPage < Len(ids) THEN i + SyncedPage ELSE Len(ids)
  OBVIOUS
<1>3. m \in Int /\ m <= Len(ids)
  BY <1>1, <1>2
<1>4. Syncs(k)!Part(ids, i) = SubSeq(ids, i + 1, m)
  BY <1>2 DEF Syncs!Part
<1>5. \A j \in (i + 1)..m : ids[j] \in S
  BY <1>1, <1>3
<1>6. SubSeq(ids, i + 1, m) \in Seq(S)
  BY <1>1, <1>3, <1>5
<1> QED
  BY <1>4, <1>6

\* A page is what the tables say.
LEMMA SyncPageRead ==
    ASSUME NEW k, SyncKept(k), NEW t \in {"draft", "pub"}, NEW ids \in Syncs(k)!Listed(t),
           NEW i \in Nat, NEW page, page = Syncs(k)!Rows(t, Syncs(k)!Part(ids, i))
    PROVE  /\ IsSeq(page)
           /\ t = "pub" => \A e \in ElementsOf(page) : SyncShows(k, e)
<1>s. PICK s : s = Syncs(k)!Part(ids, i)
  OBVIOUS
<1>1. s \in Seq(Syncs(k)!RowsOf(t))
  BY <1>s, SyncListed, SyncPart
<1>2. page = [j \in DOMAIN s |-> Syncs(k)!Row(t, s[j])]
  BY <1>s DEF Syncs!Rows
<1>3. IsSeq(page)
  <2>1. IsSeq(s)
    BY <1>1 DEF IsSeq
  <2>2. page = [j \in DOMAIN s |-> page[j]]
    BY <1>2
  <2> QED
    BY <2>1, <2>2, Mapped
<1>4. ASSUME t = "pub", NEW q \in Syncs(k)!RowsOf("pub") PROVE SyncShows(k, Syncs(k)!Row("pub", q))
  <2>1. q \in SyncRows(k) /\ pub[q] # Syncs(k)!NoRow
    BY DEF Syncs!RowsOf, Syncs!table, SyncRows
  <2>2. pub[q].ver \in published[q]
    BY <2>1 DEF SyncKept
  <2>d. PICK doc : doc = Syncs(k)!Row("pub", q).doc
    OBVIOUS
  <2>3. doc = <<pub[q].ver, 0>> \/ doc = <<pub[q].ver, pub[q].ver>>
    BY <2>d DEF Syncs!Row, Syncs!Doc, Syncs!Whole, Syncs!table
  <2>4. SyncTells(q, doc)
    BY <2>2, <2>3 DEF SyncTells
  <2>5. Syncs(k)!Row("pub", q).id = q
    BY DEF Syncs!Row
  <2> QED
    BY <2>1, <2>4, <2>5, <2>d DEF SyncShows
<1>5. ASSUME t = "pub", NEW j \in DOMAIN page PROVE SyncShows(k, page[j])
  <2>1. j \in DOMAIN s /\ page[j] = Syncs(k)!Row("pub", s[j])
    BY <1>2, <1>5
  <2>2. s[j] \in Syncs(k)!RowsOf("pub")
    BY <1>1, <1>5, <2>1
  <2> QED
    BY <1>4, <1>5, <2>1, <2>2
<1> QED
  BY <1>3, <1>5 DEF ElementsOf

LEMMA SyncReadKeeps ==
    ASSUME NEW k, SyncInv(k), NEW t \in {"draft", "pub"}, Syncs(k)!ReadPage(t)
    PROVE  SyncInv(k)'
<1>1. UNCHANGED Syncs(k)!outsideSync /\ index' = index
  BY DEF Syncs!ReadPage
<1>2. SyncHolds(k, t, s2[t])
  BY DEF SyncInv, SyncHand
<1>3. PICK ids \in Syncs(k)!Listed(t) :
          s2' = [s2 EXCEPT ![t] = [@ EXCEPT !.page = Syncs(k)!Rows(t, Syncs(k)!Part(ids, s2[t].offset)),
                     !.pc = IF Syncs(k)!Rows(t, Syncs(k)!Part(ids, s2[t].offset)) = <<>> THEN "done"
                            ELSE IF Syncs(k)!OfQuestions THEN "eles" ELSE "index"]]
  BY DEF Syncs!ReadPage
<1>p. PICK page : page = Syncs(k)!Rows(t, Syncs(k)!Part(ids, s2[t].offset))
  OBVIOUS
<1>r. PICK r : r = [s2[t] EXCEPT !.page = page,
                     !.pc = IF page = <<>> THEN "done"
                            ELSE IF Syncs(k)!OfQuestions THEN "eles" ELSE "index"]
  OBVIOUS
<1>4. s2' = [s2 EXCEPT ![t] = r]
  BY <1>3, <1>p, <1>r DEF SyncInv, SyncHand
<1>5. /\ DOMAIN r = {"pc", "offset", "page", "whole"} /\ r.page = page /\ r.offset = s2[t].offset
      /\ page = <<>> => r.pc = "done"
  BY <1>2, <1>r DEF SyncHolds
<1>6. IsSeq(page) /\ (t = "pub" => \A e \in ElementsOf(page) : SyncShows(k, e))
  BY <1>2, <1>p, SyncPageRead DEF SyncHolds, SyncInv
<1>7. SyncHolds(k, t, r)
  BY <1>2, <1>5, <1>6 DEF SyncHolds
<1>8. SyncHand(k)'
  BY <1>1, <1>4, <1>7, SyncHandTakes, SyncOutside DEF SyncInv
<1> QED
  BY <1>1, <1>8, SyncOutside DEF SyncInv

\* The answers are those of the row as it is by now, if it is there.
LEMMA SyncElesKeep ==
    ASSUME NEW k, SyncInv(k), NEW t \in {"draft", "pub"}, Syncs(k)!ReadEles(t)
    PROVE  SyncInv(k)'
<1>1. UNCHANGED Syncs(k)!outsideSync /\ index' = index /\ s2[t].pc = "eles"
  BY DEF Syncs!ReadEles
<1>2. SyncHolds(k, t, s2[t]) /\ DOMAIN s2 = {"draft", "pub", "kbase"}
  BY DEF SyncInv, SyncHand
<1>o. PICK old : old = s2[t].page
  OBVIOUS
<1>p. PICK page : page = [i \in DOMAIN old |->
          [id |-> old[i].id,
           doc |-> Syncs(k)!Doc(old[i].doc[1], Syncs(k)!table[t][old[i].id].ver)]]
  OBVIOUS
<1>r. PICK r : r = [s2[t] EXCEPT !.page = page, !.pc = "index"]
  OBVIOUS
<1>4. s2' = [s2 EXCEPT ![t] = r]
  BY <1>1, <1>2, <1>o, <1>p, <1>r DEF Syncs!ReadEles
<1>5. DOMAIN r = {"pc", "offset", "page", "whole"} /\ r.page = page /\ r.offset = s2[t].offset
  BY <1>2, <1>r DEF SyncHolds
<1>6. IsSeq(page) /\ page # <<>>
  <2>1. IsSeq(old) /\ old # <<>>
    BY <1>1, <1>2, <1>o DEF SyncHolds
  <2>2. page = [i \in DOMAIN old |-> page[i]]
    BY <1>p
  <2> QED
    BY <2>1, <2>2, Mapped
<1>7. ASSUME t = "pub", NEW i \in DOMAIN page PROVE SyncShows(k, page[i])
  <2>1. i \in DOMAIN old /\ SyncShows(k, old[i])
    BY <1>2, <1>7, <1>o, <1>p DEF SyncHolds, ElementsOf
  <2>q. PICK q : q = old[i].id
    OBVIOUS
  <2>d. PICK doc : doc = <<old[i].doc[1], pub[q].ver>>
    OBVIOUS
  <2>2. page[i].id = q /\ page[i].doc = doc
    BY <1>7, <1>p, <2>1, <2>q, <2>d DEF Syncs!table, Syncs!Doc
  <2>3. pub[q].ver = 0 \/ pub[q].ver \in published[q]
    BY <2>1, <2>q DEF SyncShows, SyncInv, SyncKept, Syncs!NoRow
  <2>4. SyncTells(q, doc)
    BY <2>1, <2>3, <2>d, <2>q DEF SyncShows, SyncTells
  <2> QED
    BY <2>1, <2>2, <2>4, <2>q DEF SyncShows
<1>8. SyncHolds(k, t, r)
  BY <1>2, <1>5, <1>6, <1>7 DEF SyncHolds, ElementsOf
<1>9. SyncHand(k)'
  BY <1>1, <1>4, <1>8, SyncHandTakes, SyncOutside DEF SyncInv
<1> QED
  BY <1>1, <1>9, SyncOutside DEF SyncInv

LEMMA SyncOnward ==
    ASSUME NEW k, NEW t \in {"draft", "pub"}, NEW r, SyncHolds(k, t, r), r.pc = "index",
           NEW o, \/ o = Syncs(k)!Onward(r)
                  \/ o = [Syncs(k)!Onward(r) EXCEPT !.whole = FALSE]
    PROVE  SyncHolds(k, t, o)
<1>1. /\ DOMAIN r = {"pc", "offset", "page", "whole"} /\ IsSeq(r.page) /\ r.offset \in Nat
      /\ r.page # <<>>
  BY DEF SyncHolds
<1>2. IsSeq(Tail(r.page)) /\ ElementsOf(Tail(r.page)) \subseteq ElementsOf(r.page)
  BY <1>1, Taken
<1>3. Len(r.page) > 1 => Tail(r.page) # <<>>
  <2>1. PICK S : r.page \in Seq(S)
    BY <1>1 DEF IsSeq
  <2>2. Len(r.page) > 1 => Len(Tail(r.page)) # 0
    BY <1>1, <2>1
  <2>3. Len(<<>>) = 0
    OBVIOUS
  <2> QED
    BY <2>2, <2>3
<1>4. /\ DOMAIN o = {"pc", "offset", "page", "whole"} /\ o.offset = r.offset + 1
      /\ \/ Len(r.page) > 1 /\ o.page = Tail(r.page) /\ o.pc = r.pc
         \/ o.page = <<>> /\ o.pc = "read"
  BY <1>1 DEF Syncs!Onward
<1>5. o.offset \in Nat
  BY <1>1, <1>4
<1>6. CASE Len(r.page) > 1 /\ o.page = Tail(r.page) /\ o.pc = r.pc
  BY <1>2, <1>3, <1>4, <1>5, <1>6 DEF SyncHolds
<1>7. CASE o.page = <<>> /\ o.pc = "read"
  BY <1>4, <1>5, <1>7, NoElements DEF SyncHolds
<1> QED
  BY <1>4, <1>6, <1>7

LEMMA SyncIndexKeeps ==
    ASSUME NEW k, SyncInv(k), NEW t \in {"draft", "pub"},
           Syncs(k)!Index(t) \/ Syncs(k)!IndexFails(t)
    PROVE  SyncInv(k)'
<1>1. UNCHANGED Syncs(k)!outsideSync /\ s2[t].pc = "index"
  BY DEF Syncs!Index, Syncs!IndexFails
<1>2. SyncHolds(k, t, s2[t]) /\ DOMAIN s2 = {"draft", "pub", "kbase"}
  BY DEF SyncInv, SyncHand
<1>3. SyncHand(k)'
  <2>1. PICK o : /\ s2' = [s2 EXCEPT ![t] = o]
                 /\ \/ o = Syncs(k)!Onward(s2[t])
                    \/ o = [Syncs(k)!Onward(s2[t]) EXCEPT !.whole = FALSE]
    BY <1>2 DEF Syncs!Index, Syncs!IndexFails
  <2>2. SyncHolds(k, t, o)
    BY <1>1, <1>2, <2>1, SyncOnward
  <2> QED
    BY <1>1, <2>1, <2>2, SyncHandTakes, SyncOutside DEF SyncInv
<1>4. SyncIndex(k)'
  <2>1. CASE Syncs(k)!IndexFails(t)
    BY <1>1, <2>1, SyncOutside DEF Syncs!IndexFails
  <2>2. CASE Syncs(k)!Index(t)
    <3>e. PICK e : e = Head(s2[t].page)
      OBVIOUS
    <3>1. t = "pub" => e.id \in SyncRows(k) /\ SyncTells(e.id, e.doc)
      <4>1. e \in ElementsOf(s2[t].page)
        BY <1>1, <1>2, <3>e, Taken DEF SyncHolds
      <4> QED
        BY <1>2, <4>1 DEF SyncHolds, SyncShows
    <3>2. index' = [index EXCEPT ![t][e.id] = e.doc]
      BY <2>2, <3>e DEF Syncs!Index, Syncs!Elastic!Input, Syncs!Elastic!getIndexName,
                        Syncs!Elastic!SyncEvent
    <3>3. published' = published /\ s4' = s4
      BY <1>1, SyncOutside
    <3> QED
      BY <3>1, <3>2, <3>3, SyncIndexed DEF SyncInv
  <2> QED
    BY <2>1, <2>2
<1> QED
  BY <1>1, <1>3, <1>4, SyncOutside DEF SyncInv

LEMMA SyncFailKeeps ==
    ASSUME NEW k, SyncInv(k), NEW t \in {"draft", "pub"}, Syncs(k)!ReadFails(t)
    PROVE  SyncInv(k)'
<1>1. UNCHANGED Syncs(k)!outsideSync /\ index' = index
  BY DEF Syncs!ReadFails
<1>r. PICK r : r = [s2[t] EXCEPT !.pc = "failed", !.page = <<>>, !.whole = FALSE]
  OBVIOUS
<1>2. SyncHolds(k, t, s2[t]) /\ DOMAIN s2 = {"draft", "pub", "kbase"}
  BY DEF SyncInv, SyncHand
<1>3. s2' = [s2 EXCEPT ![t] = r]
  BY <1>2, <1>r DEF Syncs!ReadFails
<1>4. /\ DOMAIN r = {"pc", "offset", "page", "whole"} /\ r.page = <<>> /\ r.offset = s2[t].offset
      /\ r.pc = "failed"
  BY <1>2, <1>r DEF SyncHolds
<1>5. SyncHolds(k, t, r)
  BY <1>2, <1>4, NoElements DEF SyncHolds
<1>6. SyncHand(k)'
  BY <1>1, <1>3, <1>5, SyncHandTakes, SyncOutside DEF SyncInv
<1> QED
  BY <1>1, <1>6, SyncOutside DEF SyncInv

LEMMA SyncAllKeeps ==
    ASSUME NEW k, SyncInv(k), Syncs(k)!SyncAll
    PROVE  SyncInv(k)'
<1>1. UNCHANGED Syncs(k)!outsideSync /\ index' = index
  BY DEF Syncs!SyncAll
<1>2. s2' = [t \in DOMAIN s2 |-> IF t \in Syncs(k)!Tables THEN [s2[t] EXCEPT !.pc = "read"] ELSE s2[t]]
  BY DEF Syncs!SyncAll
<1>3. /\ DOMAIN s2 = {"draft", "pub", "kbase"}
      /\ \A t \in {"draft", "pub", "kbase"} : SyncHolds(k, t, s2[t])
  BY DEF SyncInv, SyncHand
<1>4. DOMAIN s2' = {"draft", "pub", "kbase"} /\ s2'["kbase"] = s2["kbase"]
  BY <1>2, <1>3 DEF Syncs!Tables
<1>5. ASSUME NEW t \in {"draft", "pub"}
      PROVE  /\ s2'[t].pc = "read" /\ s2'[t].page = s2[t].page /\ s2'[t].offset = s2[t].offset
             /\ DOMAIN s2'[t] = {"pc", "offset", "page", "whole"}
  <2>1. s2'[t] = [s2[t] EXCEPT !.pc = "read"]
    BY <1>2, <1>3 DEF Syncs!Tables
  <2>2. DOMAIN s2[t] = {"pc", "offset", "page", "whole"}
    BY <1>3 DEF SyncHolds
  <2> QED
    BY <2>1, <2>2
<1>6. \A t \in {"draft", "pub", "kbase"} : SyncHolds(k, t, s2'[t])
  BY <1>3, <1>4, <1>5 DEF SyncHolds
<1>7. \A u, v : SyncHolds(k, u, v) => (SyncHolds(k, u, v))'
  BY <1>1, SyncOutside DEF SyncHolds, SyncShows, SyncTells, SyncSees, SyncRows, Syncs!OfQuestions
<1>8. SyncHand(k)'
  BY <1>4, <1>6, <1>7 DEF SyncHand
<1> QED
  BY <1>1, <1>8, SyncOutside DEF SyncInv

LEMMA SyncPanicKeeps ==
    ASSUME NEW k, SyncInv(k), Syncs(k)!Panics
    PROVE  SyncInv(k)'
<1>1. /\ s1' = {} /\ s4' = s4 /\ draft' = draft /\ pub' = pub /\ published' = published
      /\ topic' = topic /\ index' = index /\ uploads' = uploads /\ files' = files
      /\ own' = own /\ ownUpload' = ownUpload /\ upload' = Syncs(k)!Kb!NoUpload
      /\ s2' = [t \in DOMAIN s2 |-> [Syncs(k)!Idle EXCEPT !.pc = "stopped", !.whole = FALSE]]
  BY DEF Syncs!Panics, Syncs!tables
<1>2. SyncGrows(k)
  BY <1>1 DEF SyncGrows
<1>3. SyncKept(k)'
  BY <1>1 DEF SyncInv, SyncKept, SyncRows, Syncs!NoRow
<1>4. SyncTopic(k)' /\ SyncIndex(k)'
  BY <1>1, <1>2, SyncSearchStays DEF SyncInv
<1>5. SyncUploads(k, uploads, upload)'
  <2>1. DOMAIN Syncs(k)!Kb!NoUpload = {"pc", "id", "data", "file"} /\ Syncs(k)!Kb!NoUpload.pc = "idle"
    BY DEF Syncs!Kb!NoUpload
  <2> QED
    BY <1>1, <1>2, <2>1, SyncStillSees DEF SyncInv, SyncUploads
<1>6. SyncHand(k)'
  <2>r. PICK r : r = [Syncs(k)!Idle EXCEPT !.pc = "stopped", !.whole = FALSE]
    OBVIOUS
  <2>1. /\ DOMAIN r = {"pc", "offset", "page", "whole"} /\ r.page = <<>> /\ r.offset = 0
        /\ r.pc = "stopped"
    BY <2>r DEF Syncs!Idle
  <2>2. \A t : (SyncHolds(k, t, r))'
    BY <2>1, NoElements DEF SyncHolds
  <2>3. /\ DOMAIN s2' = {"draft", "pub", "kbase"}
        /\ \A t \in {"draft", "pub", "kbase"} : s2'[t] = r
    BY <1>1, <2>r DEF SyncInv, SyncHand
  <2> QED
    BY <2>2, <2>3 DEF SyncHand
<1> QED
  BY <1>1, <1>2, <1>3, <1>4, <1>5, <1>6, SyncFilesStay DEF SyncInv

-----------------------------------------------------------------------------
\* FullSync and the consumer leave the tables and Search alone.
LEMMA SyncOutsideKb ==
    ASSUME NEW k, SyncInv(k), UNCHANGED Syncs(k)!outsideKb, s4' = s4
    PROVE  /\ draft' = draft /\ published' = published
           /\ SyncKept(k)' /\ SyncTopic(k)' /\ SyncIndex(k)'
           /\ files' = files => SyncFiles(k)'
           /\ uploads' = uploads /\ upload' = upload => SyncUploads(k, uploads, upload)'
           /\ own' = own /\ ownUpload' = ownUpload => SyncUploads(k, own, ownUpload)'
           /\ s2' = s2 => SyncHand(k)'
<1>1. /\ s1' = s1 /\ draft' = draft /\ pub' = pub /\ published' = published
      /\ topic' = topic /\ index' = index
  BY DEF Syncs!outsideKb, Syncs!tables
<1>2. SyncGrows(k)
  BY <1>1 DEF SyncGrows
<1>3. SyncKept(k)'
  BY <1>1 DEF SyncInv, SyncKept, SyncDue, SyncRows, SyncSees, Syncs!OfQuestions, Syncs!NoRow
<1>4. s2' = s2 => SyncHand(k)'
  BY <1>1, <1>2, SyncHandStays DEF SyncInv, SyncSees
<1> QED
  BY <1>1, <1>2, <1>3, <1>4, SyncSearchStays, SyncFilesStay DEF SyncInv

LEMMA SyncFullKeeps ==
    ASSUME NEW k, SyncInv(k), Syncs(k)!FullSync
    PROVE  SyncInv(k)'
<1>1. /\ UNCHANGED Syncs(k)!outsideKb /\ s4' = s4 /\ ~Syncs(k)!OfQuestions
      /\ files' = files /\ uploads' = uploads /\ upload' = upload /\ own' = own /\ ownUpload' = ownUpload
  BY DEF Syncs!FullSync, Syncs!kbVars
<1>2. SyncHolds(k, "kbase", s2["kbase"]) /\ DOMAIN s2 = {"draft", "pub", "kbase"}
  BY DEF SyncInv, SyncHand
<1>3. PICK ids \in [1..Syncs(k)!Cardinality(Syncs(k)!PublishedIds) -> Syncs(k)!PublishedIds] :
          s2' = [s2 EXCEPT !["kbase"] = [@ EXCEPT !.page = ids,
                                            !.pc = IF ids = <<>> THEN "done" ELSE "next"]]
  BY DEF Syncs!FullSync, Syncs!InOrder
<1>p. PICK S : S = Syncs(k)!PublishedIds
  OBVIOUS
<1>4. \A c \in S : c \in SyncRows(k) /\ draft[c].ver \in published[c]
  BY <1>p DEF Syncs!PublishedIds, SyncInv, SyncKept, SyncRows
<1>5. ids \in Seq(S)
  <2>1. ids \in [1..Syncs(k)!Cardinality(S) -> S]
    BY <1>p
  <2>2. Syncs(k)!Cardinality(S) \in Nat
    BY <1>4, SyncRowsAreFinite
  <2>3. PICK n \in Nat : ids \in [1..n -> S]
    BY <2>1, <2>2
  <2> QED
    BY <2>3
<1>r. PICK r : r = [s2["kbase"] EXCEPT !.page = ids, !.pc = IF ids = <<>> THEN "done" ELSE "next"]
  OBVIOUS
<1>6. /\ DOMAIN r = {"pc", "offset", "page", "whole"} /\ r.page = ids
      /\ r.offset = s2["kbase"].offset /\ (ids = <<>> => r.pc = "done")
  BY <1>2, <1>r DEF SyncHolds
<1>7. IsSeq(ids) /\ \A c \in ElementsOf(ids) : c \in SyncRows(k) /\ SyncSees(c, draft[c].ver)
  <2>1. IsSeq(ids)
    BY <1>5 DEF IsSeq
  <2>2. ElementsOf(ids) \subseteq S
    <3>1. PICK n : ids \in [1..n -> S]
      BY <1>p
    <3>2. \A i \in DOMAIN ids : ids[i] \in S
      BY <3>1
    <3> QED
      BY <3>2 DEF ElementsOf
  <2> QED
    BY <1>4, <2>1, <2>2 DEF SyncSees
<1>8. SyncHolds(k, "kbase", r)
  BY <1>1, <1>2, <1>6, <1>7 DEF SyncHolds
<1>9. s2' = [s2 EXCEPT !["kbase"] = r]
  BY <1>2, <1>3, <1>r
<1>10. SyncHand(k)'
  BY <1>1, <1>8, <1>9, SyncHandTakes, SyncOutsideKb DEF SyncInv
<1> QED
  BY <1>1, <1>10, SyncOutsideKb DEF SyncInv

LEMMA SyncOneKeeps ==
    ASSUME NEW k, SyncInv(k), Syncs(k)!SyncOne \/ Syncs(k)!SyncOneFails
    PROVE  SyncInv(k)'
<1>1. /\ UNCHANGED Syncs(k)!outsideKb /\ s4' = s4 /\ s2["kbase"].pc = "next"
      /\ files' = files /\ uploads' = uploads /\ upload' = upload /\ ownUpload' = ownUpload
  BY DEF Syncs!SyncOne, Syncs!SyncOneFails, Syncs!kbVars
<1>2. SyncHolds(k, "kbase", s2["kbase"]) /\ DOMAIN s2 = {"draft", "pub", "kbase"}
  BY DEF SyncInv, SyncHand
<1>p. PICK page : page = s2["kbase"].page
  OBVIOUS
<1>3. /\ IsSeq(page) /\ page # <<>>
      /\ \A c \in ElementsOf(page) :
             ~Syncs(k)!OfQuestions /\ c \in SyncRows(k) /\ SyncSees(c, draft[c].ver)
  BY <1>1, <1>2, <1>p DEF SyncHolds
<1>4. /\ IsSeq(Tail(page)) /\ ElementsOf(Tail(page)) \subseteq ElementsOf(page)
      /\ Head(page) \in ElementsOf(page)
  BY <1>3, Taken
<1>5. SyncHand(k)'
  <2>c. PICK pc : pc = IF Syncs(k)!SyncOne THEN "upload"
                       ELSE IF Tail(page) = <<>> THEN "done" ELSE "next"
    OBVIOUS
  <2>1. s2' = [s2 EXCEPT !["kbase"] = [@ EXCEPT !.page = Tail(page), !.pc = pc]]
    <3>1. CASE Syncs(k)!SyncOne
      <4>1. pc = "upload"
        BY <2>c, <3>1
      <4> QED
        BY <1>p, <3>1, <4>1 DEF Syncs!SyncOne
    <3>2. CASE Syncs(k)!SyncOneFails /\ ~Syncs(k)!SyncOne
      <4>1. pc = IF Tail(page) = <<>> THEN "done" ELSE "next"
        BY <2>c, <3>2
      <4> QED
        BY <1>p, <3>2, <4>1 DEF Syncs!SyncOneFails
    <3> QED
      BY <3>1, <3>2
  <2>r. PICK r : r = [s2["kbase"] EXCEPT !.page = Tail(page), !.pc = pc]
    OBVIOUS
  <2>2. /\ DOMAIN r = {"pc", "offset", "page", "whole"} /\ r.page = Tail(page)
        /\ r.offset = s2["kbase"].offset /\ r.pc = pc
    BY <1>2, <2>r DEF SyncHolds
  <2>5. Tail(page) = <<>> => pc # "next"
    BY <2>c
  <2>3. SyncHolds(k, "kbase", r)
    BY <1>2, <1>3, <1>4, <2>2, <2>5 DEF SyncHolds
  <2>4. s2' = [s2 EXCEPT !["kbase"] = r]
    BY <1>2, <2>1, <2>r
  <2> QED
    BY <1>1, <2>3, <2>4, SyncHandTakes, SyncOutsideKb DEF SyncInv
<1>6. SyncUploads(k, own, ownUpload)'
  <2>1. CASE Syncs(k)!SyncOne
    <3>c. PICK c : c = Head(page)
      OBVIOUS
    <3>u. PICK u : u = Syncs(k)!UploadOf(c, draft[c])
      OBVIOUS
    <3>1. SyncMoves(k, u)
      BY <1>3, <1>4, <3>c, <3>u DEF SyncMoves, Syncs!UploadOf
    <3>2. own' = <<u>>
      BY <1>p, <2>1, <3>c, <3>u DEF Syncs!SyncOne
    <3>3. IsSeq(own') /\ ElementsOf(own') = {u}
      BY <3>2, Pairs
    <3>4. \A e : SyncMoves(k, e) => (SyncMoves(k, e))'
      BY <1>1, SyncOutsideKb DEF SyncMoves, SyncSees, SyncRows
    <3> QED
      BY <1>1, <3>1, <3>3, <3>4 DEF SyncInv, SyncUploads
  <2>2. CASE Syncs(k)!SyncOneFails
    BY <1>1, <2>2, SyncOutsideKb DEF Syncs!SyncOneFails
  <2> QED
    BY <1>1, <2>1, <2>2
<1> QED
  BY <1>1, <1>5, <1>6, SyncOutsideKb DEF SyncInv

-----------------------------------------------------------------------------
\* A file is made of what was read for its upload.
LEMMA SyncKbMakesFiles ==
    ASSUME NEW k, SyncFiles(k), SyncUploads(k, uploads, upload),
           Syncs(k)!Kb!UploadFile \/ Syncs(k)!Kb!UploadFails,
           published' = published, s4' = s4
    PROVE  SyncFiles(k)' /\ SyncUploads(k, uploads, upload)'
<1>1. /\ IsSeq(uploads) /\ \A e \in ElementsOf(uploads) : SyncMoves(k, e)
      /\ DOMAIN upload = {"pc", "id", "data", "file"}
      /\ upload.pc # "idle" => SyncMoves(k, upload)
      /\ DOMAIN files = SyncRows(k)
      /\ \A q \in SyncRows(k) : \A f \in files[q] : SyncSees(q, f[1])
  BY DEF SyncFiles, SyncUploads
<1>n. DOMAIN Syncs(k)!Kb!NoUpload = {"pc", "id", "data", "file"} /\ Syncs(k)!Kb!NoUpload.pc = "idle"
  BY DEF Syncs!Kb!NoUpload
<1>2. /\ IsSeq(uploads') /\ \A e \in ElementsOf(uploads') : SyncMoves(k, e)
      /\ DOMAIN upload' = {"pc", "id", "data", "file"}
      /\ upload'.pc # "idle" => SyncMoves(k, upload')
      /\ DOMAIN files' = SyncRows(k)
      /\ \A q \in SyncRows(k) : \A f \in files'[q] : SyncSees(q, f[1])
  <2>1. CASE Syncs(k)!Kb!GetInfo
    <3>1. /\ uploads # <<>> /\ uploads' = Tail(uploads) /\ files' = files
          /\ DOMAIN upload' = {"pc", "id", "data", "file"}
          /\ upload'.id = Head(uploads).id /\ upload'.data = Head(uploads).data
      BY <2>1 DEF Syncs!Kb!GetInfo
    <3>2. /\ IsSeq(uploads') /\ ElementsOf(uploads') \subseteq ElementsOf(uploads)
          /\ Head(uploads) \in ElementsOf(uploads)
      BY <1>1, <3>1, Taken
    <3>3. SyncMoves(k, upload')
      BY <1>1, <3>1, <3>2 DEF SyncMoves
    <3> QED
      BY <1>1, <3>1, <3>2, <3>3
  <2>2. CASE Syncs(k)!Kb!removeFile
    <3>1. uploads' = uploads /\ upload.pc # "idle" /\ upload.id \in SyncRows(k)
      BY <1>1, <2>2 DEF Syncs!Kb!removeFile, SyncMoves
    <3>2. \/ upload' = Syncs(k)!Kb!NoUpload /\ files' = files
          \/ /\ upload' = [upload EXCEPT !.pc = "create"]
             /\ files' = [files EXCEPT ![upload.id] = @ \ {upload.file}]
      BY <2>2 DEF Syncs!Kb!removeFile, Syncs!Kb!Give
    <3>3. /\ DOMAIN upload' = {"pc", "id", "data", "file"}
          /\ upload'.pc # "idle" => SyncMoves(k, upload')
      BY <1>1, <1>n, <3>1, <3>2 DEF SyncMoves
    <3>4. DOMAIN files' = SyncRows(k) /\ \A q \in SyncRows(k) : files'[q] \subseteq files[q]
      BY <1>1, <3>1, <3>2
    <3> QED
      BY <1>1, <3>1, <3>3, <3>4
  <2>3. CASE Syncs(k)!Kb!createFile
    <3>f. PICK file : file = <<upload.data, fileId + 1>>
      OBVIOUS
    <3>1. /\ uploads' = uploads /\ SyncMoves(k, upload)
          /\ files' = [files EXCEPT ![upload.id] = @ \cup {file}]
          /\ upload' = [upload EXCEPT !.pc = "save", !.file = file]
      BY <1>1, <2>3, <3>f DEF Syncs!Kb!createFile
    <3>2. file[1] = upload.data
      BY <3>f
    <3>3. /\ DOMAIN upload' = {"pc", "id", "data", "file"}
          /\ upload'.id = upload.id /\ upload'.data = upload.data
      BY <1>1, <3>1
    <3>4. DOMAIN files' = SyncRows(k) /\ \A q \in SyncRows(k) : \A f \in files'[q] : SyncSees(q, f[1])
      BY <1>1, <3>1, <3>2 DEF SyncMoves
    <3> QED
      BY <1>1, <3>1, <3>3, <3>4 DEF SyncMoves
  <2>4. CASE Syncs(k)!Kb!SaveFile \/ Syncs(k)!Kb!UploadFails
    <3>1. uploads' = uploads /\ files' = files /\ upload' = Syncs(k)!Kb!NoUpload
      BY <2>4 DEF Syncs!Kb!SaveFile, Syncs!Kb!UploadFails, Syncs!Kb!Give
    <3> QED
      BY <1>1, <1>n, <3>1
  <2> QED
    BY <2>1, <2>2, <2>3, <2>4 DEF Syncs!Kb!UploadFile
<1>3. /\ \A e : SyncMoves(k, e) => (SyncMoves(k, e))'
      /\ \A q, v : SyncSees(q, v) => (SyncSees(q, v))'
  BY DEF SyncMoves, SyncSees, SyncRows
<1> QED
  BY <1>2, <1>3 DEF SyncFiles, SyncUploads, SyncRows

\* The same of the file that FullSync uploads itself.
LEMMA SyncOwnMakesFiles ==
    ASSUME NEW k, SyncFiles(k), SyncUploads(k, own, ownUpload),
           Syncs(k)!Own!UploadFile \/ Syncs(k)!Own!UploadFails,
           published' = published, s4' = s4
    PROVE  SyncFiles(k)' /\ SyncUploads(k, own, ownUpload)'
<1>1. /\ IsSeq(own) /\ \A e \in ElementsOf(own) : SyncMoves(k, e)
      /\ DOMAIN ownUpload = {"pc", "id", "data", "file"}
      /\ ownUpload.pc # "idle" => SyncMoves(k, ownUpload)
      /\ DOMAIN files = SyncRows(k)
      /\ \A q \in SyncRows(k) : \A f \in files[q] : SyncSees(q, f[1])
  BY DEF SyncFiles, SyncUploads
<1>n. DOMAIN Syncs(k)!Own!NoUpload = {"pc", "id", "data", "file"} /\ Syncs(k)!Own!NoUpload.pc = "idle"
  BY DEF Syncs!Own!NoUpload
<1>2. /\ IsSeq(own') /\ \A e \in ElementsOf(own') : SyncMoves(k, e)
      /\ DOMAIN ownUpload' = {"pc", "id", "data", "file"}
      /\ ownUpload'.pc # "idle" => SyncMoves(k, ownUpload')
      /\ DOMAIN files' = SyncRows(k)
      /\ \A q \in SyncRows(k) : \A f \in files'[q] : SyncSees(q, f[1])
  <2>1. CASE Syncs(k)!Own!GetInfo
    <3>1. /\ own # <<>> /\ own' = Tail(own) /\ files' = files
          /\ DOMAIN ownUpload' = {"pc", "id", "data", "file"}
          /\ ownUpload'.id = Head(own).id /\ ownUpload'.data = Head(own).data
      BY <2>1 DEF Syncs!Own!GetInfo
    <3>2. /\ IsSeq(own') /\ ElementsOf(own') \subseteq ElementsOf(own)
          /\ Head(own) \in ElementsOf(own)
      BY <1>1, <3>1, Taken
    <3>3. SyncMoves(k, ownUpload')
      BY <1>1, <3>1, <3>2 DEF SyncMoves
    <3> QED
      BY <1>1, <3>1, <3>2, <3>3
  <2>2. CASE Syncs(k)!Own!removeFile
    <3>1. own' = own /\ ownUpload.pc # "idle" /\ ownUpload.id \in SyncRows(k)
      BY <1>1, <2>2 DEF Syncs!Own!removeFile, SyncMoves
    <3>2. \/ ownUpload' = Syncs(k)!Own!NoUpload /\ files' = files
          \/ /\ ownUpload' = [ownUpload EXCEPT !.pc = "create"]
             /\ files' = [files EXCEPT ![ownUpload.id] = @ \ {ownUpload.file}]
      BY <2>2 DEF Syncs!Own!removeFile, Syncs!Own!Give
    <3>3. /\ DOMAIN ownUpload' = {"pc", "id", "data", "file"}
          /\ ownUpload'.pc # "idle" => SyncMoves(k, ownUpload')
      BY <1>1, <1>n, <3>1, <3>2 DEF SyncMoves
    <3>4. DOMAIN files' = SyncRows(k) /\ \A q \in SyncRows(k) : files'[q] \subseteq files[q]
      BY <1>1, <3>1, <3>2
    <3> QED
      BY <1>1, <3>1, <3>3, <3>4
  <2>3. CASE Syncs(k)!Own!createFile
    <3>f. PICK file : file = <<ownUpload.data, fileId + 1>>
      OBVIOUS
    <3>1. /\ own' = own /\ SyncMoves(k, ownUpload)
          /\ files' = [files EXCEPT ![ownUpload.id] = @ \cup {file}]
          /\ ownUpload' = [ownUpload EXCEPT !.pc = "save", !.file = file]
      BY <1>1, <2>3, <3>f DEF Syncs!Own!createFile
    <3>2. file[1] = ownUpload.data
      BY <3>f
    <3>3. /\ DOMAIN ownUpload' = {"pc", "id", "data", "file"}
          /\ ownUpload'.id = ownUpload.id /\ ownUpload'.data = ownUpload.data
      BY <1>1, <3>1
    <3>4. DOMAIN files' = SyncRows(k) /\ \A q \in SyncRows(k) : \A f \in files'[q] : SyncSees(q, f[1])
      BY <1>1, <3>1, <3>2 DEF SyncMoves
    <3> QED
      BY <1>1, <3>1, <3>3, <3>4 DEF SyncMoves
  <2>4. CASE Syncs(k)!Own!SaveFile \/ Syncs(k)!Own!UploadFails
    <3>1. own' = own /\ files' = files /\ ownUpload' = Syncs(k)!Own!NoUpload
      BY <2>4 DEF Syncs!Own!SaveFile, Syncs!Own!UploadFails, Syncs!Own!Give
    <3> QED
      BY <1>1, <1>n, <3>1
  <2> QED
    BY <2>1, <2>2, <2>3, <2>4 DEF Syncs!Own!UploadFile
<1>3. /\ \A e : SyncMoves(k, e) => (SyncMoves(k, e))'
      /\ \A q, v : SyncSees(q, v) => (SyncSees(q, v))'
  BY DEF SyncMoves, SyncSees, SyncRows
<1> QED
  BY <1>2, <1>3 DEF SyncFiles, SyncUploads, SyncRows

LEMMA SyncUploadKeeps ==
    ASSUME NEW k, SyncInv(k),
           Syncs(k)!UploadOwn \/ Syncs(k)!UploadOwnFails \/ Syncs(k)!ConsumeUpload
    PROVE  SyncInv(k)'
<1>1. UNCHANGED Syncs(k)!outsideKb /\ s4' = s4
  BY DEF Syncs!UploadOwn, Syncs!UploadOwnFails, Syncs!ConsumeUpload
<1>2. published' = published /\ draft' = draft
  BY <1>1, SyncOutsideKb
<1>3. CASE Syncs(k)!ConsumeUpload
  <2>1. SyncFiles(k)' /\ SyncUploads(k, uploads, upload)'
    BY <1>1, <1>2, <1>3, SyncKbMakesFiles DEF SyncInv, Syncs!ConsumeUpload
  <2>2. own' = own /\ ownUpload' = ownUpload /\ s2' = s2
    BY <1>3 DEF Syncs!ConsumeUpload
  <2> QED
    BY <1>1, <2>1, <2>2, SyncOutsideKb DEF SyncInv
<1>4. CASE Syncs(k)!UploadOwn \/ Syncs(k)!UploadOwnFails
  <2>1. SyncFiles(k)' /\ SyncUploads(k, own, ownUpload)'
    BY <1>1, <1>2, <1>4, SyncOwnMakesFiles DEF SyncInv, Syncs!UploadOwn, Syncs!UploadOwnFails
  <2>2. uploads' = uploads /\ upload' = upload
    BY <1>4 DEF Syncs!UploadOwn, Syncs!UploadOwnFails
  <2>3. SyncHand(k)'
    <3>1. SyncHolds(k, "kbase", s2["kbase"]) /\ DOMAIN s2 = {"draft", "pub", "kbase"}
      BY DEF SyncInv, SyncHand
    <3>r. PICK r : r = [s2["kbase"] EXCEPT !.pc = IF s2["kbase"].page = <<>> THEN "done" ELSE "next"]
      OBVIOUS
    <3>2. s2' = s2 \/ s2' = [s2 EXCEPT !["kbase"] = r]
      BY <1>4, <3>1, <3>r DEF Syncs!UploadOwn, Syncs!UploadOwnFails, Syncs!AfterOne
    <3>3. /\ DOMAIN r = {"pc", "offset", "page", "whole"} /\ r.page = s2["kbase"].page
          /\ r.offset = s2["kbase"].offset
          /\ s2["kbase"].page = <<>> => r.pc # "next"
      BY <3>1, <3>r DEF SyncHolds
    <3>4. SyncHolds(k, "kbase", r)
      BY <3>1, <3>3 DEF SyncHolds
    <3>5. CASE s2' = s2
      BY <1>1, <3>5, SyncOutsideKb
    <3>6. CASE s2' = [s2 EXCEPT !["kbase"] = r]
      BY <1>1, <1>2, <3>4, <3>6, SyncHandTakes DEF SyncInv
    <3> QED
      BY <3>2, <3>5, <3>6
  <2> QED
    BY <1>1, <2>1, <2>2, <2>3, SyncOutsideKb DEF SyncInv
<1> QED
  BY <1>3, <1>4

LEMMA SyncNext ==
    ASSUME NEW k, SyncInv(k), Syncs(k)!Next
    PROVE  SyncInv(k)'
<1>1. CASE \E q \in SyncRows(k) : Syncs(k)!Save(q) \/ Syncs(k)!Publish(q) \/ Syncs(k)!Delete(q)
  BY <1>1, SyncSaveKeeps, SyncPublishKeeps, SyncDeleteKeeps
<1>2. CASE \/ \E e \in s1 : Syncs(k)!SendEvents(e)
           \/ Syncs(k)!Consume \/ Syncs(k)!SyncAll \/ Syncs(k)!Panics
  BY <1>2, SyncSendKeeps, SyncConsumeKeeps, SyncAllKeeps, SyncPanicKeeps
<1>3. CASE \E t \in {"draft", "pub"} :
               \/ Syncs(k)!ReadPage(t) \/ Syncs(k)!ReadEles(t)
               \/ Syncs(k)!Index(t) \/ Syncs(k)!IndexFails(t) \/ Syncs(k)!ReadFails(t)
  BY <1>3, SyncReadKeeps, SyncElesKeep, SyncIndexKeeps, SyncFailKeeps
<1>4. CASE Syncs(k)!TimesOut
  <2>1. UNCHANGED Syncs(k)!outsideSync /\ index' = index /\ s2' = s2
    BY <1>4 DEF Syncs!TimesOut
  <2> QED
    BY <2>1, SyncOutside DEF SyncInv
<1>5. CASE \/ Syncs(k)!FullSync \/ Syncs(k)!SyncOne \/ Syncs(k)!SyncOneFails
           \/ Syncs(k)!UploadOwn \/ Syncs(k)!UploadOwnFails \/ Syncs(k)!ConsumeUpload
  BY <1>5, SyncFullKeeps, SyncOneKeeps, SyncUploadKeeps
<1> QED
  BY <1>1, <1>2, <1>3, <1>4, <1>5 DEF Syncs!Next, Syncs!Tables, SyncRows

LEMMA SyncIdles ==
    ASSUME NEW k, SyncInv(k), UNCHANGED Syncs(k)!outsideSync, index' = index, s2' = s2
    PROVE  SyncInv(k)'
BY SyncOutside DEF SyncInv

LEMMA SyncIsRight == ASSUME NEW k, SyncInv(k) PROVE Syncs(k)!DraftsStayPrivate
<1>1. ASSUME NEW q \in SyncRows(k), index["pub"][q] # Syncs(k)!NoDoc, q \notin s4
      PROVE  index["pub"][q][1] \in published[q] /\ index["pub"][q][2] \in published[q] \cup {0}
  BY <1>1 DEF SyncInv, SyncIndex, SyncTells
<1>2. \A q \in SyncRows(k) : \A f \in files[q] : f[1] \in published[q] \/ q \in s4
  BY DEF SyncInv, SyncFiles, SyncSees
<1> QED
  BY <1>1, <1>2 DEF Syncs!DraftsStayPrivate, SyncRows

-----------------------------------------------------------------------------
(***************************************************************************)
(* The theorems.                                                           *)
(***************************************************************************)
LEMMA OneScene == [Next]_vars => scene' = scene
BY DEF Next, vars, besideKnowledge, besideFullSync

LEMMA ReviewSteps ==
    ASSUME scene = "review", [Next]_vars
    PROVE  [Reviews!Next]_Reviews!reviewVars
BY DEF Next, CatalogNext, vars, slots, Reviews!reviewVars, Reviews!counters, Reviews!history

LEMMA QuestionSteps ==
    ASSUME scene = "question", [Next]_vars, QuestionInv
    PROVE  QuestionInv'
<1>1. CASE QuestionPages!Next
  BY <1>1, QuestionNext
<1>2. CASE UNCHANGED vars
  BY <1>2, QuestionIdles DEF vars, pagesOnly, tablesOnly, readersOnly, questionOnly, OnlyReads
<1> QED
  BY <1>1, <1>2 DEF Next, CatalogNext

LEMMA CaseSteps ==
    ASSUME scene = "cases", [Next]_vars, CaseInv
    PROVE  CaseInv'
<1>1. CASE CaseStudies!Next
  BY <1>1, CaseNext
<1>2. CASE UNCHANGED vars
  BY <1>2, CaseIdles DEF vars, pagesOnly, tablesOnly, readersOnly, casesOnly, CaseReads, CaseCaches
<1> QED
  BY <1>1, <1>2 DEF Next, CatalogNext

LEMMA SceneBegins ==
    ASSUME Init
    PROVE  /\ scene = "review" => Reviews!Init
           /\ scene = "question" => QuestionPages!Init
           /\ scene = "cases" => CaseStudies!Init
BY DEF Init, CatalogInit

\* Once nobody is about to refresh an entry, Redis holds what the table says or
\* nothing, but for the stale fills the modules name (CachesShowTheTable of
\* questions, cases and reviews).
THEOREM CachesAreRight == Spec => []CachesShowTheTable
<1> DEFINE SceneInv == /\ scene = "review" => ReviewInv
                       /\ scene = "question" => QuestionInv
                       /\ scene = "cases" => CaseInv
<1>1. Init => SceneInv
  BY SceneBegins, ReviewInit, QuestionInit, CaseInit
<1>2. SceneInv /\ [Next]_vars => SceneInv'
  BY OneScene, ReviewSteps, ReviewNext, QuestionSteps, CaseSteps
<1>3. SceneInv => CachesShowTheTable
  BY ReviewIsRight, QuestionIsRight, CaseIsRight DEF CachesShowTheTable, CatalogCaches
<1> QED
  BY <1>1, <1>2, <1>3, PTL DEF Spec

-----------------------------------------------------------------------------
(***************************************************************************)
(* What leaves the tables: the same for every scene that publishes.        *)
(***************************************************************************)
LEMMA SetSteps ==
    ASSUME scene = "questionset", [Next]_vars, SetInv
    PROVE  SetInv'
<1>1. CASE QuestionSets!Next
  BY <1>1, SetNext
<1>2. CASE UNCHANGED vars
  BY <1>2, SetIdles DEF vars, slots
<1> QED
  BY <1>1, <1>2 DEF Next, CatalogNext

LEMMA ProjectSteps ==
    ASSUME scene = "project", [Next]_vars, ProjectInv
    PROVE  ProjectInv'
<1>1. CASE Projects!Next
  BY <1>1, ProjectNext
<1>2. CASE UNCHANGED vars
  BY <1>2, ProjectIdles DEF vars, pagesOnly, tablesOnly
<1> QED
  BY <1>1, <1>2 DEF Next, CatalogNext

LEMMA CaseDocSteps ==
    ASSUME scene = "cases", [Next]_vars, CaseInv, CaseDocs
    PROVE  CaseDocs'
<1>1. CASE CaseStudies!Next
  BY <1>1, CaseDocsNext
<1>2. CASE UNCHANGED vars
  BY <1>2, CaseDocsStay DEF vars, pagesOnly, tablesOnly, casesOnly
<1> QED
  BY <1>1, <1>2 DEF Next, CatalogNext

LEMMA SyncSteps ==
    ASSUME NEW k, \/ scene = "questionsync" /\ k = "question"
                  \/ scene = "casesync" /\ k = "case",
           [Next]_vars, SyncInv(k)
    PROVE  SyncInv(k)'
<1>1. CASE Syncs(k)!Next
  BY <1>1, SyncNext
<1>2. CASE UNCHANGED vars
  <2>1. UNCHANGED Syncs(k)!outsideSync /\ index' = index /\ s2' = s2
    BY <1>2 DEF vars, pagesOnly, tablesOnly, readersOnly, questionOnly, casesOnly, fullSyncOnly,
                slots, Syncs!outsideSync, Syncs!tables, Syncs!kbVars
  <2> QED
    BY <2>1, SyncIdles
<1>3. CASE scene = "questionsync" /\ k = "question"
  BY <1>1, <1>2, <1>3 DEF Next, CatalogNext
<1>4. CASE scene = "casesync" /\ k = "case"
  BY <1>1, <1>2, <1>4 DEF Next, CatalogNext
<1> QED
  BY <1>3, <1>4

LEMMA PublishersBegin ==
    ASSUME Init
    PROVE  /\ scene = "questionset" => QuestionSets!Init
           /\ scene = "project" => Projects!Init
           /\ scene = "questionsync" => Syncs("question")!Init
           /\ scene = "casesync" => Syncs("case")!Init
BY DEF Init, CatalogInit

\* Nothing is shown, indexed or uploaded that was not published: not by a stale
\* cache, an event that comes late, a set whose question is published again, or
\* a page of a full sync that is old, but for what the modules name
\* (DraftsStayPrivate of questions, cases, projects, reviews, question sets and
\* full syncs); and what is shown can still be edited (Question!PublishedIsLive).
THEOREM DraftsAreKept == Spec => []DraftsStayPrivate
<1> DEFINE PublishInv == /\ scene = "review" => ReviewInv
                         /\ scene = "question" => QuestionInv
                         /\ scene = "cases" => CaseInv /\ CaseDocs
                         /\ scene = "questionset" => SetInv
                         /\ scene = "project" => ProjectInv
                         /\ scene = "questionsync" => SyncInv("question")
                         /\ scene = "casesync" => SyncInv("case")
<1>1. Init => PublishInv
  BY SceneBegins, PublishersBegin, ReviewInit, QuestionInit, CaseInit, CaseDocsInit, SetInit,
     ProjectInit, SyncInit
<1>2. PublishInv /\ [Next]_vars => PublishInv'
  BY OneScene, ReviewSteps, ReviewNext, QuestionSteps, CaseSteps, CaseDocSteps, SetSteps,
     ProjectSteps, SyncSteps
<1>3. PublishInv => DraftsStayPrivate
  BY ReviewIsRight, QuestionIsRight, CasesStayPrivate, SetIsRight, ProjectIsRight, SyncIsRight
     DEF DraftsStayPrivate, CatalogDrafts
<1> QED
  BY <1>1, <1>2, <1>3, PTL DEF Spec
=============================================================================
