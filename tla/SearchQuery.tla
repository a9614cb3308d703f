---------------------------- MODULE SearchQuery -----------------------------
(***************************************************************************)
(* One search (internal/search), of a user or of an administrator: the     *)
(* expression becomes a query on each index that is asked, by goroutines   *)
(* that fill one result; for a user, other goroutines fetch what they      *)
(* think of it and how they did in exams; and all becomes one list.        *)
(*                                                                         *)
(* The index itself is external: it finds a document when one of its       *)
(* columns has a word asked of that column, and marks such words where it  *)
(* was told to.  A column is a path, its value the set of its words.  Left *)
(* out: scores, and with them which hits come first; the texts around a    *)
(* marked word; titles, labels and times, handed on as they are.           *)
(***************************************************************************)
EXTENDS Integers, Sequences, FiniteSets, FiniteSetsExt, TLC

CONSTANTS
    Docs,         \* the documents of each index: [biz -> set of documents]
    Keywords,     \* lists of keywords, each a list of the parts around ":"
    Limit,
    MaxFaults     \* bound: calls that fail

VARIABLES
    expr,      \* who asks, and for what: "biz:<biz>:<keywords>", in parts
    phase, pending,
    res,       \* domain.SearchResult: the hits of each index
    liked,     \* likes that were found, by index
    exams,     \* exams of cases that were found
    failed, faults,
    answer     \* what they are shown

searchVars == <<expr, phase, pending, res, liked, exams, failed, faults, answer>>

Bizs == {"question", "case", "questionSet", "skill"}
None == [b \in Bizs |-> {}]

Init ==
    /\ expr \in [side : {"user", "admin"},
                 parts : {<<"biz", b, ks>> : b \in Bizs \cup {"all", "other"}, ks \in Keywords}
                         \cup {<<"all">>, <<"title", "all", <<>>>>}]
    /\ phase = "parse" /\ pending = {}
    /\ res = None /\ liked = None /\ exams = {}
    /\ failed = FALSE /\ faults = 0
    /\ answer = None

Fail == faults < MaxFaults /\ faults' = faults + 1

-----------------------------------------------------------------------------
(* The columns of the indexes. *)

Elements == {"analysis", "basic", "intermediate", "advanced"}
LevelDescs == {<<l, "desc">> : l \in {"basic", "intermediate", "advanced"}}
AnswerContents == {<<"answer", e, "content">> : e \in Elements}

questionCols ==
    {<<"title">>, <<"labels">>, <<"biz">>, <<"content">>} \cup
    {<<"answer", e, c>> : e \in Elements,
                          c \in {"keywords", "shorthand", "highlight", "guidance", "content"}}
caseCols ==
    {<<"title">>, <<"labels">>, <<"biz">>, <<"keywords">>, <<"shorthand">>, <<"content">>,
     <<"guidance">>}
questionSetCols == {<<"title">>, <<"biz">>, <<"description">>}
skillCols == {<<"name">>, <<"labels">>, <<"desc">>} \cup LevelDescs

colsConfig ==
    [question |-> questionCols, case |-> caseCols, questionSet |-> questionSetCols,
     skill |-> skillCols]

\* The column that is asked for one of them: for administrators, the basic
\* answer has the name of the analysis.
Name(col) ==
    IF expr.side = "admin" /\ col = <<"answer", "basic", "content">>
    THEN <<"answer", "analysis", "content">> ELSE col

\* Values that carry marks from the index to the user.
questionVals == {<<"content">>} \cup AnswerContents
caseVals == {<<"content">>}
questionSetVals == {<<"description">>}
skillVals == {<<"desc">>} \cup LevelDescs

EsVals ==
    [question |-> questionVals, case |-> caseVals, questionSet |-> questionSetVals,
     skill |-> skillVals]

\* Where words are marked, for users alone; of a case one that no value carries.
HighLightConfig(biz) ==
    IF expr.side = "admin" THEN {}
    ELSE EsVals[biz] \cup (IF biz = "case" THEN {<<"guidance">>} ELSE {})

-----------------------------------------------------------------------------
(* The query. *)

\* A word for all columns, or for one; a keyword with more parts is dropped.
getQueryMeta(ks) ==
    LET metas == [n \in DOMAIN ks |->
            IF Len(ks[n]) = 1 THEN [isAll |-> TRUE, keyword |-> ks[n][1]]
            ELSE [isAll |-> FALSE, col |-> ks[n][1], keyword |-> ks[n][2]]]
    IN  {metas[n] : n \in {k \in DOMAIN ks : Len(ks[k]) \in {1, 2}}}

\* Mutant: a later keyword takes the place of an earlier one.
setLast(colMap, col, keyword) == (col :> {keyword}) @@ colMap

setCol(colMap, col, keyword) ==
    IF col \in DOMAIN colMap THEN [colMap EXCEPT ![col] = @ \cup {keyword}]
    ELSE (col :> {keyword}) @@ colMap

\* The words that are asked of each column; one that the user names need not be
\* of the index.
getSearchCol(biz, metas) ==
    LET ColsOf(meta) ==
            IF meta.isAll THEN {Name(c) : c \in colsConfig[biz]} ELSE {meta.col}
        SetCols(meta, colMap) ==
            FoldSet(LAMBDA col, m : setCol(m, col, meta.keyword), colMap, ColsOf(meta))
    IN  FoldSet(SetCols, <<>>, metas)

\* The queries of the columns, of which one must hold.
buildQuery(colMap) == {[col |-> c, words |-> colMap[c]] : c \in DOMAIN colMap}

buildHighLights(biz, colMap) == HighLightConfig(biz) \cap DOMAIN colMap

build(biz, ks) ==
    LET colMap == getSearchCol(biz, getQueryMeta(ks))
    IN  [should |-> buildQuery(colMap), highlight |-> buildHighLights(biz, colMap)]

\* The words of a column of a document, as far as it has it.
At(d, col) == IF col \in DOMAIN d.source THEN d.source[col] ELSE {}

\* External: the documents an index finds, and the words it marks.
Hits(docs, req) == {d \in docs : \E q \in req.should : At(d, q.col) \cap q.words # {}}
Marks(d, req) ==
    [c \in req.highlight |-> UNION {At(d, c) \cap q.words : q \in {r \in req.should : r.col = c}}]

\* What the repositories keep of a hit: its id, and values with their marks.
toDomain(biz, d, marks) ==
    [id |-> d.id,
     vals |-> [c \in EsVals[biz] |->
                [Val |-> At(d, c),
                 HighLightVals |-> IF c \in DOMAIN marks THEN marks[c] ELSE {}]]]

\* As many as the page holds.
getSearchRes(biz, ks) ==
    LET req == build(biz, ks)
        hits == Hits(Docs[biz], req)
    IN  {{toDomain(biz, d, Marks(d, req)) : d \in page} :
            page \in kSubset(IF Cardinality(hits) < Limit THEN Cardinality(hits) ELSE Limit, hits)}

-----------------------------------------------------------------------------
(* The service. *)

\* Three parts and the first is "biz".
parseExpr(e) == Len(e) = 3 /\ e[1] = "biz"

\* The indexes an expression asks.
searchHandlers(biz) == IF biz = "all" THEN Bizs ELSE {biz} \cap Bizs

Parse ==
    /\ phase = "parse"
    /\ IF parseExpr(expr.parts) /\ searchHandlers(expr.parts[2]) # {}
       THEN phase' = "search" /\ pending' = searchHandlers(expr.parts[2]) /\ UNCHANGED failed
       ELSE phase' = "told" /\ failed' = TRUE /\ UNCHANGED pending
    /\ UNCHANGED <<expr, res, liked, exams, faults, answer>>

\* One handler: its hits, under the lock, or an error.
search(biz) ==
    /\ phase = "search"
    /\ biz \in pending
    /\ pending' = pending \ {biz}
    /\ \/ /\ \E hits \in getSearchRes(biz, expr.parts[3]) : res' = [res EXCEPT ![biz] = hits]
          /\ UNCHANGED <<failed, faults>>
       \/ Fail /\ failed' = TRUE /\ UNCHANGED res
    /\ UNCHANGED <<expr, phase, liked, exams, answer>>

\* An administrator is shown the values, with no marks and no exams.
NewSearchResult ==
    [b \in Bizs |->
        {[id |-> h.id, vals |-> h.vals, liked |-> FALSE, exam |-> FALSE] : h \in res[b]}]

\* One error is the error of all.
Found ==
    /\ phase = "search" /\ pending = {}
    /\ IF failed \/ expr.side = "admin"
       THEN phase' = "told" /\ answer' = (IF failed THEN None ELSE NewSearchResult)
            /\ UNCHANGED pending
       ELSE /\ phase' = "more"
            /\ pending' = {"exam"} \cup {b \in {"question", "case"} : res[b] # {}}
            /\ UNCHANGED answer
    /\ UNCHANGED <<expr, res, liked, exams, failed, faults>>

-----------------------------------------------------------------------------
(* The handler: what there is to say of the hits. *)

Ids(hits) == {h.id : h \in hits}

\* The exams of the cases: an error is an error of the call.
GetResults ==
    /\ phase = "more" /\ "exam" \in pending
    /\ pending' = pending \ {"exam"}
    /\ \/ exams' = Ids(res["case"]) /\ UNCHANGED <<failed, faults>>
       \/ Fail /\ failed' = TRUE /\ UNCHANGED exams
    /\ UNCHANGED <<expr, phase, res, liked, answer>>

\* The likes of the cases, or of the questions: an error is only logged.
GetByIds(biz) ==
    /\ phase = "more" /\ biz \in pending
    /\ pending' = pending \ {biz}
    /\ \/ liked' = [liked EXCEPT ![biz] = Ids(res[biz])] /\ UNCHANGED faults
       \/ Fail /\ UNCHANGED liked
    /\ UNCHANGED <<expr, phase, res, exams, failed, answer>>

\* Mutant: the likes of whatever has the id.
LikesOfAny(biz, id) == \E b \in Bizs : id \in liked[b]

LikesOf(biz, id) == id \in liked[biz]

\* What is marked, of all the values, else the beginning of the main one.
Description(biz, hit) ==
    LET marked == UNION {hit.vals[c].HighLightVals : c \in DOMAIN hit.vals}
        main == CASE biz \in {"question", "case"} -> <<"content">>
                  [] biz = "questionSet" -> <<"description">>
                  [] biz = "skill" -> <<"desc">>
    IN  IF marked # {} THEN marked ELSE hit.vals[main].Val

NewCSearchResult ==
    [b \in Bizs |->
        {[id |-> h.id, desc |-> Description(b, h),
          liked |-> LikesOf(b, h.id), exam |-> b = "case" /\ h.id \in exams] : h \in res[b]}]

List ==
    /\ phase = "more" /\ pending = {}
    /\ phase' = "told"
    /\ answer' = IF failed THEN None ELSE NewCSearchResult
    /\ UNCHANGED <<expr, pending, res, liked, exams, failed, faults>>

Next == Parse \/ Found \/ GetResults \/ List \/ \E b \in Bizs : search(b) \/ GetByIds(b)

Spec == Init /\ [][Next]_searchVars

-----------------------------------------------------------------------------
(* Properties. *)

TypeOK ==
    /\ phase \in {"parse", "search", "more", "told"}
    /\ pending \subseteq Bizs \cup {"exam"}
    /\ faults <= MaxFaults

\* A document is asked for: a keyword is a word of the column it names, or of
\* any of the index when it names none; but an administrator finds the basic
\* answer of a question by its name only (ioc/question.go:146).
Asked(b, d) ==
    \E n \in DOMAIN expr.parts[3] :
        LET k == expr.parts[3][n]
        IN  \/ Len(k) = 1 /\ \E c \in {e \in colsConfig[b] : Name(e) = e} : k[1] \in At(d, c)
            \/ Len(k) = 2 /\ k[2] \in At(d, k[1])

\* A search that does not fail shows every document that was asked for, as far
\* as the page goes, and no other, from every index it named
\* (service/search.go:36, repository/dao/builder.go:117).
SearchIsComplete ==
    phase = "told" /\ ~failed =>
        \A b \in searchHandlers(expr.parts[2]) :
            LET asked == {d.id : d \in {e \in Docs[b] : Asked(b, e)}}
                told == {r.id : r \in answer[b]}
            IN  told \subseteq asked /\ (Cardinality(told) < Limit => told = asked)

\* What is said of a hit was found for it: likes and exams of its own index,
\* words of its own, among them every word asked for that such a text has
\* (web/handler.go:53, web/cvo.go:84, 167).
RemarksFit ==
    \A b \in Bizs : \A r \in answer[b] :
        /\ r.liked => r.id \in liked[b]
        /\ r.exam => b = "case"
        /\ expr.side = "user" =>
              \E d \in Docs[b] :
                 /\ d.id = r.id
                 /\ r.desc \subseteq UNION {At(d, c) : c \in EsVals[b]}
                 /\ \A n \in DOMAIN expr.parts[3] :
                       LET k == expr.parts[3][n]
                       IN  Len(k) = 1 /\ (\E c \in EsVals[b] : k[1] \in At(d, c)) => k[1] \in r.desc
=============================================================================
