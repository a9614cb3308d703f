------------------------------ MODULE Question ------------------------------
(***************************************************************************)
(* Questions (internal/question): a draft table and a published table,     *)
(* three kinds of cache entry read by everyone (a question for 24 hours,   *)
(* the first page of a biz for 24 hours, the total of a biz for 30         *)
(* minutes), and the two search indexes fed by events.                     *)
(*                                                                         *)
(* A call is a transaction followed by steps nothing holds together: it    *)
(* reads tables, writes cache entries and sends events one at a time, and  *)
(* any other call may come between.  A question is its version: a write    *)
(* of the title, the content and the four answers stands for a new one.    *)
(* The row and the answers of a question are read one after the other, so  *)
(* what is read is a pair of versions.                                     *)
(*                                                                         *)
(* The history variable `spoiled` names the entries and documents that a   *)
(* race, a failure or a path that refreshes too little may have left       *)
(* behind their table; the properties say there are no others.             *)
(*                                                                         *)
(* Left out: the answers' rows of a deleted question (nothing reads them), *)
(* pages beyond the cached 50, question sets, the view events of           *)
(* PubDetail (Interactive.tla).                                            *)
(***************************************************************************)
EXTENDS Integers, FiniteSets, Sequences

CONSTANTS
    Ids,          \* questions
    Bizs,         \* the biz of a question; DefaultBiz is what PubList shows
    Procs,        \* requests being served
    MaxVersions,  \* bound: saves and publications
    MaxDeletes,   \* bound: deletions
    MaxReads,     \* bound: reads that miss the cache
    MaxFaults     \* bound: Redis or Kafka calls that fail

VARIABLES
    draft, pub,           \* tables questions and publish_questions
    qCache, lCache, tCache,  \* Redis: publish:id, list:biz, total:biz
    topic, index,         \* the sync topic and the search indexes
    call,                 \* what each request is doing
    version, deletes, reads, faults, \* counters for the bounds
    created,              \* ids the auto-increment has given out
    published,            \* history: versions ever in the published table
    spoiled               \* history: keys that may lag behind

qvars == <<draft, pub, qCache, lCache, tCache, topic, index, call, version,
           deletes, reads, faults, created, published, spoiled>>

NoRow == [ver |-> 0, biz |-> "", live |-> FALSE]
Row(v, b, l) == [ver |-> v, biz |-> b, live |-> l]
NoPair == <<0, 0>>
Miss == -1
NoList == {<<0, 0>>}     \* no entry; an empty page is an entry
Idle == [op |-> "idle", pc |-> "idle", id |-> 0, biz |-> "",
         pair |-> NoPair, list |-> {}, num |-> 0]

Elastic == INSTANCE Search WITH Docs <- Ids, NoDoc <- NoPair

Init ==
    /\ draft = [q \in Ids |-> NoRow]
    /\ pub = [q \in Ids |-> NoRow]
    /\ qCache = [q \in Ids |-> NoPair]
    /\ lCache = [b \in Bizs |-> NoList]
    /\ tCache = [b \in Bizs |-> Miss]
    /\ Elastic!SearchInit
    /\ call = [p \in Procs |-> Idle]
    /\ version = 0
    /\ deletes = 0
    /\ reads = 0
    /\ faults = 0
    /\ created = {}
    /\ published = [q \in Ids |-> {}]
    /\ spoiled = {}

----------------------------------------------------------------------------
(* Queries *)

\* Mutant: the page is read from the drafts.
DraftList(b) == {<<q, draft[q].ver>> : q \in {r \in Ids : draft[r].biz = b}}

\* dao.PubList: the first page, as pairs of id and version.
PubList(b) == {<<q, pub[q].ver>> : q \in {r \in Ids : pub[r].biz = b}}
PubCount(b) == Cardinality({q \in Ids : pub[q].biz = b})
Pair(row) == <<row.ver, row.ver>>

----------------------------------------------------------------------------
(* History: what a commit may leave behind *)

At(p, q, pcs) == call[p].id = q /\ call[p].pc \in pcs
Held(p, q, pcs) == \E r \in Procs \ {p} : At(r, q, pcs)
HeldBiz(p, b, pc) == \E r \in Procs \ {p} : call[r].biz = b /\ call[r].pc = pc
OfBiz(kind, S) == {<<kind, b>> : b \in S}

\* Another request has read what this commit changes, and will still put
\* it into the cache.
Overtaken(p, q, bs) ==
    (IF Held(p, q, {"eles", "set"}) THEN {<<"question", q>>} ELSE {})
    \cup OfBiz("list", {b \in bs : HeldBiz(p, b, "setList")})
    \cup OfBiz("total", {b \in bs : HeldBiz(p, b, "setTotal")})

\* The same for the documents: the draft's is sent by every call, the live
\* one by a publication, which reads the draft again for it.
OvertakenDocs(p, q, live) ==
    (IF Held(p, q, {"draftEles", "produce"}) THEN {<<"draft", q>>} ELSE {})
    \cup
    (IF \E r \in Procs \ {p} :
           /\ call[r].op = "publish"
           /\ At(r, q, IF live THEN {"draftEles", "produce", "live"}
                       ELSE {"row", "eles", "set", "list", "setList", "total",
                             "setTotal", "draft", "draftEles"})
     THEN {<<"pub", q>>} ELSE {})

\* An entry that now shows its table, and that nobody is about to replace.
Cured(p, key) ==
    IF \E r \in Procs \ {p} :
          \/ key[1] = "question" /\ At(r, key[2], {"eles", "set"})
          \/ key[1] = "list" /\ call[r].biz = key[2] /\ call[r].pc = "setList"
          \/ key[1] = "total" /\ call[r].biz = key[2] /\ call[r].pc = "setTotal"
    THEN {} ELSE {key}

----------------------------------------------------------------------------
(* Steps of a call *)

Goto(p, pc) == call' = [call EXCEPT ![p].pc = pc]
Done(p) == call' = [call EXCEPT ![p] = Idle]

Begin(p, op, pc, q, b) ==
    /\ call[p].op = "idle"
    /\ call' = [call EXCEPT ![p] = [Idle EXCEPT !.op = op, !.pc = pc,
                                                !.id = q, !.biz = b]]

\* Mutant: a publication sends the draft's event alone.
AfterDraftEvent(p, pc) ==
    CASE call[p].op = "publish" /\ pc = "set" -> Goto(p, "list")
      [] call[p].op = "publish" /\ pc = "list" -> Goto(p, "total")
      [] call[p].op = "publish" /\ pc = "total" -> Goto(p, "draft")
      [] OTHER -> Done(p)

\* Where a call goes after a step that more than one of them takes.
After(p, pc) ==
    CASE call[p].op = "publish" /\ pc = "set" -> Goto(p, "list")
      [] call[p].op = "publish" /\ pc = "list" -> Goto(p, "total")
      [] call[p].op = "publish" /\ pc = "total" -> Goto(p, "draft")
      [] call[p].op = "publish" /\ pc = "produce" -> Goto(p, "live")
      [] OTHER -> Done(p)

\* Mutant: saving leaves the status as it was.
SaveKeepingStatus(q, row) ==
    /\ q \in created \cup {Cardinality(created) + 1}
    /\ created' = created \cup {q}
    /\ draft' = IF q \in created /\ draft[q] = NoRow THEN draft
                ELSE [draft EXCEPT ![q] = [row EXCEPT !.live = @ \/ draft[q].live]]

\* create takes the next id; update writes no row when the question is gone,
\* as a page opened before its deletion may still have it written.
SaveDraft(q, row) ==
    /\ q \in created \cup {Cardinality(created) + 1}
    /\ created' = created \cup {q}
    /\ draft' = IF q \in created /\ draft[q] = NoRow THEN draft
                ELSE [draft EXCEPT ![q] = row]

Save(p, q, b) ==
    /\ version < MaxVersions
    /\ SaveDraft(q, Row(version + 1, b, FALSE))
    /\ version' = version + 1
    /\ Begin(p, "save", "draft", q, b)
    /\ spoiled' = spoiled \cup OvertakenDocs(p, q, FALSE)
    /\ UNCHANGED <<pub, qCache, lCache, tCache, topic, index, deletes, reads,
                   faults, published>>

\* dao.Sync in one transaction: the draft as in Save, then the published row,
\* which is put back when it was gone.
Publish(p, q, b) ==
    /\ version < MaxVersions
    /\ SaveDraft(q, Row(version + 1, b, TRUE))
    /\ version' = version + 1
    /\ pub' = [pub EXCEPT ![q] = Row(version', b, TRUE)]
    /\ published' = [published EXCEPT ![q] = @ \cup {version'}]
    /\ Begin(p, "publish", "row", q, b)
    /\ LET left == {pub[q].biz} \ {b, ""} IN
       spoiled' = spoiled \cup OvertakenDocs(p, q, TRUE)
                  \cup Overtaken(p, q, left \cup {b})
                  \cup OfBiz("list", left) \cup OfBiz("total", left)
    /\ UNCHANGED <<qCache, lCache, tCache, topic, index, deletes, reads,
                   faults>>

\* Without a draft the call is over, whatever the published table holds.
Delete(p, q) ==
    /\ deletes < MaxDeletes
    /\ draft[q] # NoRow
    /\ deletes' = deletes + 1
    /\ Begin(p, "delete", "tx", q, draft[q].biz)
    /\ UNCHANGED <<draft, pub, qCache, lCache, tCache, topic, index, version,
                   reads, faults, created, published, spoiled>>

\* dao.Delete; the list refreshed afterwards is that of the draft's biz, and
\* the total of neither is.
DeleteTx(p) ==
    LET q == call[p].id
        b == pub[q].biz
    IN  /\ call[p].pc = "tx"
        /\ draft' = [draft EXCEPT ![q] = NoRow]
        /\ pub' = [pub EXCEPT ![q] = NoRow]
        /\ Goto(p, "del")
        /\ spoiled' = spoiled \cup OvertakenDocs(p, q, TRUE)
                      \cup Overtaken(p, q, {b} \ {""})
                      \cup OfBiz("list", {b} \ {"", call[p].biz})
                      \cup OfBiz("total", {b} \ {""})
        /\ UNCHANGED <<qCache, lCache, tCache, topic, index, version, deletes,
                       reads, faults, created, published>>

\* Mutant: another key is deleted.
DelOther(p) ==
    LET q == call[p].id IN
    /\ call[p].pc = "del"
    /\ spoiled' = spoiled \ Cured(p, <<"question", q>>)
    /\ Goto(p, "list")
    /\ UNCHANGED <<draft, pub, qCache, lCache, tCache, topic, index, version,
                   deletes, reads, faults, created, published>>

DelQuestion(p) ==
    LET q == call[p].id IN
    /\ call[p].pc = "del"
    /\ qCache' = [qCache EXCEPT ![q] = NoPair]
    /\ spoiled' = spoiled \ Cured(p, <<"question", q>>)
    /\ Goto(p, "list")
    /\ UNCHANGED <<draft, pub, lCache, tCache, topic, index, version, deletes,
                   reads, faults, created, published>>

----------------------------------------------------------------------------
(* Readers: a hit changes nothing, so only misses are steps; that an entry *)
(* expires shows in nothing but the next miss, which takes it away *)

Ask(p, op, pc, q, b) ==
    /\ reads < MaxReads
    /\ reads' = reads + 1
    /\ Begin(p, op, pc, q, b)
    /\ UNCHANGED <<draft, pub, topic, index, version, deletes, faults, created,
                   published, spoiled>>

\* The entry is not there, or its time to live is over.
GetPubByID(p, q) ==
    /\ qCache' = [qCache EXCEPT ![q] = NoPair]
    /\ Ask(p, "detail", "row", q, "")
    /\ UNCHANGED <<lCache, tCache>>

GetList(p, b) ==
    /\ lCache' = [lCache EXCEPT ![b] = NoList]
    /\ Ask(p, "list", "list", 0, b)
    /\ UNCHANGED <<qCache, tCache>>

GetCount(p, b) ==
    /\ tCache' = [tCache EXCEPT ![b] = Miss]
    /\ Ask(p, "count", "total", 0, b)
    /\ UNCHANGED <<qCache, lCache>>

----------------------------------------------------------------------------
(* The steps they share *)

\* What a reading step leaves alone.
OnlyCalls == UNCHANGED <<draft, pub, qCache, lCache, tCache, topic, index,
                         version, deletes, reads, faults, created, published, spoiled>>

\* dao.GetPubByID: the row, and then its answers.  Sync puts an empty
\* question under the key of id 0 when there is no row; nobody reads it.
ReadRow(p) ==
    LET q == call[p].id IN
    /\ call[p].pc = "row"
    /\ IF pub[q] = NoRow THEN After(p, "set")
       ELSE call' = [call EXCEPT ![p].pair = <<pub[q].ver, 0>>, ![p].pc = "eles"]
    /\ OnlyCalls

ReadEles(p) ==
    /\ call[p].pc = "eles"
    /\ call' = [call EXCEPT ![p].pair = <<@[1], pub[call[p].id].ver>>, ![p].pc = "set"]
    /\ OnlyCalls

SetQuestion(p) ==
    LET q == call[p].id IN
    /\ call[p].pc = "set"
    /\ qCache' = [qCache EXCEPT ![q] = call[p].pair]
    /\ spoiled' = IF call[p].pair = Pair(pub[q])
                  THEN spoiled \ Cured(p, <<"question", q>>) ELSE spoiled
    /\ After(p, "set")
    /\ UNCHANGED <<draft, pub, lCache, tCache, topic, index, version, deletes,
                   reads, faults, created, published>>

ReadList(p) ==
    /\ call[p].pc = "list"
    /\ call' = [call EXCEPT ![p].list = PubList(call[p].biz), ![p].pc = "setList"]
    /\ OnlyCalls

SetQuestions(p) ==
    LET b == call[p].biz IN
    /\ call[p].pc = "setList"
    /\ lCache' = [lCache EXCEPT ![b] = call[p].list]
    /\ spoiled' = IF call[p].list = PubList(b)
                  THEN spoiled \ Cured(p, <<"list", b>>) ELSE spoiled
    /\ After(p, "list")
    /\ UNCHANGED <<draft, pub, qCache, tCache, topic, index, version, deletes,
                   reads, faults, created, published>>

ReadTotal(p) ==
    /\ call[p].pc = "total"
    /\ call' = [call EXCEPT ![p].num = PubCount(call[p].biz), ![p].pc = "setTotal"]
    /\ OnlyCalls

SetTotal(p) ==
    LET b == call[p].biz IN
    /\ call[p].pc = "setTotal"
    /\ tCache' = [tCache EXCEPT ![b] = call[p].num]
    /\ spoiled' = IF call[p].num = PubCount(b)
                  THEN spoiled \ Cured(p, <<"total", b>>) ELSE spoiled
    /\ After(p, "total")
    /\ UNCHANGED <<draft, pub, qCache, lCache, topic, index, version, deletes,
                   reads, faults, created, published>>

\* getQuestion reads the draft, for the live event too.
ReadDraft(p) ==
    LET q == call[p].id IN
    /\ call[p].pc = "draft"
    /\ IF draft[q] = NoRow THEN Done(p)
       ELSE call' = [call EXCEPT ![p].pair = <<draft[q].ver, 0>>,
                                 ![p].pc = "draftEles"]
    /\ OnlyCalls

ReadDraftEles(p) ==
    /\ call[p].pc = "draftEles"
    /\ call' = [call EXCEPT ![p].pair = <<@[1], draft[call[p].id].ver>>,
                            ![p].pc = "produce"]
    /\ OnlyCalls

syncQuestion(p) ==
    /\ call[p].pc = "produce"
    /\ Elastic!Produce(Elastic!SyncEvent(FALSE, call[p].id, call[p].pair))
    /\ After(p, "produce")
    /\ UNCHANGED <<draft, pub, qCache, lCache, tCache, index, version, deletes,
                   reads, faults, created, published, spoiled>>

syncPubQuestion(p) ==
    /\ call[p].pc = "live"
    /\ Elastic!Produce(Elastic!SyncEvent(TRUE, call[p].id, call[p].pair))
    /\ After(p, "live")
    /\ UNCHANGED <<draft, pub, qCache, lCache, tCache, index, version, deletes,
                   reads, faults, created, published, spoiled>>

\* A call of Redis or Kafka that fails is logged, and the call goes on.
Fails(p) ==
    LET q == call[p].id
        b == call[p].biz
        key == CASE call[p].pc \in {"set", "del"} -> <<"question", q>>
                 [] call[p].pc = "setList" -> <<"list", b>>
                 [] call[p].pc = "setTotal" -> <<"total", b>>
                 [] call[p].pc = "produce" -> <<"draft", q>>
                 [] OTHER -> <<"pub", q>>
    IN  /\ call[p].pc \in {"set", "del", "setList", "setTotal", "produce", "live"}
        /\ faults < MaxFaults
        /\ faults' = faults + 1
        /\ spoiled' = spoiled \cup {key}
        /\ CASE call[p].pc = "del" -> Goto(p, "list")
             [] call[p].pc = "setList" -> After(p, "list")
             [] call[p].pc = "setTotal" -> After(p, "total")
             [] OTHER -> After(p, call[p].pc)
        /\ UNCHANGED <<draft, pub, qCache, lCache, tCache, topic, index,
                       version, deletes, reads, created, published>>

----------------------------------------------------------------------------
(* The search consumer *)

Consume ==
    /\ Elastic!Consume
    /\ UNCHANGED <<draft, pub, qCache, lCache, tCache, call, version, deletes,
                   reads, faults, created, published, spoiled>>

ConsumeFails ==
    /\ faults < MaxFaults
    /\ faults' = faults + 1
    /\ Elastic!ConsumeFails
    /\ spoiled' = spoiled \cup
          {<<Elastic!getIndexName(Head(topic).live), Head(topic).id>>}
    /\ UNCHANGED <<draft, pub, qCache, lCache, tCache, call, version, deletes,
                   reads, created, published>>

Step(p) ==
    \/ DeleteTx(p) \/ DelQuestion(p) \/ ReadRow(p) \/ ReadEles(p)
    \/ SetQuestion(p) \/ ReadList(p) \/ SetQuestions(p) \/ ReadTotal(p)
    \/ SetTotal(p) \/ ReadDraft(p) \/ ReadDraftEles(p) \/ syncQuestion(p)
    \/ syncPubQuestion(p)

Next ==
    \/ \E p \in Procs, q \in Ids :
          \/ Delete(p, q) \/ GetPubByID(p, q)
          \/ \E b \in Bizs : Save(p, q, b) \/ Publish(p, q, b)
    \/ \E p \in Procs, b \in Bizs : GetList(p, b) \/ GetCount(p, b)
    \/ \E p \in Procs : Step(p) \/ Fails(p)
    \/ Consume \/ ConsumeFails

Spec == Init /\ [][Next]_qvars

----------------------------------------------------------------------------
(* Properties *)

Rows == {NoRow} \cup [ver : 1..version, biz : Bizs, live : BOOLEAN]

TypeOK ==
    /\ draft \in [Ids -> Rows]
    /\ pub \in [Ids -> Rows]
    /\ \A q \in Ids : qCache[q] \in (0..version) \X (0..version)
    /\ \A b \in Bizs : tCache[b] \in Miss..Cardinality(Ids)
    /\ \A p \in Procs : call[p].op = "idle" <=> call[p].pc = "idle"
    /\ spoiled \subseteq {"question", "draft", "pub"} \X Ids
                         \cup {"list", "total"} \X Bizs

\* Some call has changed the table and not yet come to the entry.
Refreshing(q) == \E p \in Procs : At(p, q, {"row", "eles", "set", "del"})
RefreshingBiz(b, pcs) ==
    \E p \in Procs : /\ call[p].op \in {"publish", "delete"}
                     /\ call[p].biz = b
                     /\ call[p].pc \in pcs

\* An entry that is not spoiled and that no call is about to refresh shows
\* what the table holds: a question, the page of a biz, its total.  What
\* spoils one is a commit between another call's read and its write, a
\* failed Redis call, a question that leaves its biz, and for the total any
\* deletion (repository.Sync, Delete, GetPubByID, PubList, PubCount).
CachesShowTheTable ==
    /\ \A q \in Ids :
          (<<"question", q>> \notin spoiled /\ ~Refreshing(q))
          => qCache[q] \in {NoPair, Pair(pub[q])}
    /\ \A b \in Bizs :
          /\ (/\ <<"list", b>> \notin spoiled
              /\ ~RefreshingBiz(b, {"row", "eles", "set", "del", "list",
                                    "setList"}))
             => lCache[b] \in {NoList, PubList(b)}
          /\ (/\ <<"total", b>> \notin spoiled
              /\ ~RefreshingBiz(b, {"row", "eles", "set", "list", "setList",
                                    "total", "setTotal"}))
             => tCache[b] \in {Miss, PubCount(b)}

\* Whatever the interleaving, readers see only versions that were published,
\* though the row and the answers may be of two of them (GetPubByID, PubList).
DraftsStayPrivate ==
    /\ \A q \in Ids : qCache[q] # NoPair =>
          qCache[q][1] \in published[q] /\ qCache[q][2] \in published[q] \cup {0}
    /\ \A b \in Bizs : lCache[b] # NoList =>
          \A e \in lCache[b] : e[2] \in published[e[1]]

\* A draft marked as published is the published question (Save, dao.Sync).
PublishedIsLive == \A q \in Ids : draft[q].live => pub[q] = draft[q]

\* With every call over and the topic read, the documents of a question that
\* is not deleted are its draft and its published version, unless one came
\* between another's read of the draft and its event, or an event was lost
\* (service.Save, Publish; SyncConsumer.Consume).
DocumentsFollow ==
    ((\A p \in Procs : call[p].op = "idle") /\ topic = <<>>)
    => \A q \in Ids : draft[q] # NoRow =>
          /\ <<"draft", q>> \notin spoiled => index["draft"][q] = Pair(draft[q])
          /\ (<<"pub", q>> \notin spoiled /\ pub[q] # NoRow)
             => index["pub"][q] = Pair(pub[q])
=============================================================================
