-------------------------------- MODULE Cases --------------------------------
(***************************************************************************)
(* Cases (internal/cases): a draft table and a published table; cache      *)
(* entries of published cases, of the first page and of the total, for 24  *)
(* hours; events to search and to the knowledge base.  A publication       *)
(* caches what it wrote and the page it then reads; afterwards it reads    *)
(* the published case through the cache for both events.  The total is     *)
(* cached by readers alone.                                                *)
(*                                                                         *)
(* A case is one row, known by its version.  The first page holds the      *)
(* cases of every biz under the key of the default one, as the table is    *)
(* not filtered; the keys of other bizs are never read and left out.       *)
(*                                                                         *)
(* The history variable `spoiled` names what overlapping calls, a failure  *)
(* or a path that refreshes nothing may have left behind its table.        *)
(***************************************************************************)
EXTENDS Integers, Sequences, FiniteSets

CONSTANTS
    Ids, Bizs, DefaultBiz,
    Procs,        \* requests being served, with their goroutines
    MaxVersions,  \* bound: saves and publications
    MaxReads,     \* bound: reads that miss the cache
    MaxFaults     \* bound: Redis, Kafka or platform calls that fail

VARIABLES
    draft, pub,               \* tables cases and publish_cases
    cCache, lCache, tCache,   \* Redis: publish:id, list:baguwen, total:baguwen
    topic, index,             \* Search
    uploads, files, saved, upload, fileId, broken, \* KnowledgeBase
    call,                     \* what each request is doing
    version, reads, faults,   \* counters for the bounds
    published,                \* history: versions ever published
    spoiled                   \* history: keys that may lag behind

NoRow == [ver |-> 0, biz |-> ""]
Row(v, b) == [ver |-> v, biz |-> b]
NoVer == 0
NoList == {<<0, 0>>}
Miss == -1
Idle == [op |-> "idle", pc |-> "idle", id |-> 0, biz |-> "", ver |-> NoVer,
         list |-> {}, num |-> 0]

Elastic == INSTANCE Search WITH Docs <- Ids, NoDoc <- NoVer
Kb == INSTANCE KnowledgeBase WITH Docs <- Ids, NoFile <- <<>>

kbVars == <<uploads, files, saved, upload, fileId, broken>>
casesVars == <<draft, pub, cCache, lCache, tCache, topic, index, kbVars, call,
               version, reads, faults, published, spoiled>>
tables == <<draft, pub, published, version>>
caches == <<cCache, lCache, tCache>>
outside == <<topic, index, kbVars>>

Init ==
    /\ draft = [c \in Ids |-> NoRow]
    /\ pub = [c \in Ids |-> NoRow]
    /\ cCache = [c \in Ids |-> NoVer]
    /\ lCache = NoList
    /\ tCache = Miss
    /\ Elastic!SearchInit
    /\ Kb!KbInit
    /\ call = [p \in Procs |-> Idle]
    /\ version = 0
    /\ reads = 0
    /\ faults = 0
    /\ published = [c \in Ids |-> {}]
    /\ spoiled = {}

----------------------------------------------------------------------------
(* Queries *)

Listed(t) == {<<c, t[c].ver>> : c \in {d \in Ids : t[d] # NoRow}}
Counted(t) == Cardinality({c \in Ids : t[c].biz = DefaultBiz})

PublishCaseList == Listed(pub)
PublishCaseCount == Counted(pub)

----------------------------------------------------------------------------
(* Steps of a call *)

Goto(p, pc) == call' = [call EXCEPT ![p].pc = pc]
Done(p) == call' = [call EXCEPT ![p] = Idle]

Begin(p, op, pc, c, b, v) ==
    /\ call[p].op = "idle"
    /\ call' = [call EXCEPT ![p] = [Idle EXCEPT !.op = op, !.pc = pc, !.id = c,
                                                !.biz = b, !.ver = v]]

Others(p, c) == {r \in Procs \ {p} : call[r].id = c}
OthersAt(p, pc) == {r \in Procs \ {p} : call[r].pc = pc}

\* Keys of a case that hold a copy of its published version.
Copies(c) == {"case", "pub", "draft", "kb"} \X {c}

\* A publication meets another call of the case, or another call has read
\* the page; and what it changes without refreshing.
Left(p, c, t) ==
    (IF Others(p, c) # {} THEN Copies(c) ELSE {<<"draft", c>>})
    \cup (IF t[c].biz # DefaultBiz \/ OthersAt(p, "setList") # {}
          THEN {<<"list", 0>>} ELSE {})
    \cup (IF Counted(t) # PublishCaseCount \/ OthersAt(p, "setTotal") # {}
          THEN {<<"total", 0>>} ELSE {})

Cured(c) == {<<"case", c>>, <<"pub", c>>, <<"kb", c>>}

Save(p, c, b) ==
    /\ version < MaxVersions
    /\ version' = version + 1
    /\ draft' = [draft EXCEPT ![c] = Row(version', b)]
    /\ Begin(p, "save", "get", c, b, NoVer)
    /\ UNCHANGED <<pub, published, caches, outside, reads, faults, spoiled>>

\* dao.Sync, one transaction.
Publish(p, c, b) ==
    /\ version < MaxVersions
    /\ version' = version + 1
    /\ draft' = [draft EXCEPT ![c] = Row(version', b)]
    /\ pub' = [pub EXCEPT ![c] = Row(version', b)]
    /\ published' = [published EXCEPT ![c] = @ \cup {version'}]
    /\ Begin(p, "publish", "setOwn", c, b, version')
    /\ spoiled' = (spoiled \ Cured(c)) \cup Left(p, c, pub')
    /\ UNCHANGED <<caches, outside, reads, faults>>

\* Mutant: a publication does not cache its row.
SetNothing(p) ==
    /\ call[p].pc = "setOwn"
    /\ Goto(p, IF call[p].biz = DefaultBiz THEN "list" ELSE "get")
    /\ UNCHANGED <<tables, caches, outside, reads, faults, spoiled>>

\* repository.Sync caches the row it wrote.
SetOwn(p) ==
    /\ call[p].pc = "setOwn"
    /\ cCache' = [cCache EXCEPT ![call[p].id] = call[p].ver]
    /\ Goto(p, IF call[p].biz = DefaultBiz THEN "list" ELSE "get")
    /\ UNCHANGED <<tables, lCache, tCache, outside, reads, faults, spoiled>>

ReadList(p) ==
    /\ call[p].pc = "list"
    /\ call' = [call EXCEPT ![p].list = PublishCaseList, ![p].pc = "setList"]
    /\ UNCHANGED <<tables, caches, outside, reads, faults, spoiled>>

After(p) == IF call[p].op = "publish" THEN Goto(p, "get") ELSE Done(p)

SetCases(p) ==
    /\ call[p].pc = "setList"
    /\ lCache' = call[p].list
    /\ spoiled' = IF call[p].list = PublishCaseList /\ OthersAt(p, "setList") = {}
                  THEN spoiled \ {<<"list", 0>>} ELSE spoiled
    /\ After(p)
    /\ UNCHANGED <<tables, cCache, tCache, outside, reads, faults>>

\* getCase: what the events carry is the published case, from the cache if
\* it is there; a draft that was never published sends nothing.
getCase(p) ==
    LET c == call[p].id IN
    /\ call[p].pc = "get"
    /\ IF cCache[c] # NoVer
       THEN call' = [call EXCEPT ![p].ver = cCache[c], ![p].pc = "produce"]
       ELSE Goto(p, "row")
    /\ UNCHANGED <<tables, caches, outside, reads, faults, spoiled>>

\* Mutant: the draft is read.
ReadDraftRow(p) ==
    LET c == call[p].id IN
    /\ call[p].pc = "row"
    /\ IF draft[c] = NoRow THEN Done(p)
       ELSE call' = [call EXCEPT ![p].ver = draft[c].ver, ![p].pc = "set"]
    /\ UNCHANGED <<tables, caches, outside, reads, faults, spoiled>>

\* dao.GetPublishCase
ReadRow(p) ==
    LET c == call[p].id IN
    /\ call[p].pc = "row"
    /\ IF pub[c] = NoRow THEN Done(p)
       ELSE call' = [call EXCEPT ![p].ver = pub[c].ver, ![p].pc = "set"]
    /\ UNCHANGED <<tables, caches, outside, reads, faults, spoiled>>

AfterSet(p) == IF call[p].op = "detail" THEN Done(p) ELSE Goto(p, "produce")

SetCase(p) ==
    /\ call[p].pc = "set"
    /\ cCache' = [cCache EXCEPT ![call[p].id] = call[p].ver]
    /\ AfterSet(p)
    /\ UNCHANGED <<tables, lCache, tCache, outside, reads, faults, spoiled>>

\* Mutant: a save uploads, and a publication does not.
AfterEventOfSave(p) == IF call[p].op = "save" THEN Goto(p, "upload") ELSE Done(p)

AfterEvent(p) == IF call[p].op = "publish" THEN Goto(p, "upload") ELSE Done(p)

syncCase(p) ==
    /\ call[p].pc = "produce"
    /\ Elastic!Produce(Elastic!SyncEvent(call[p].op = "publish", call[p].id, call[p].ver))
    /\ AfterEvent(p)
    /\ UNCHANGED <<tables, caches, index, kbVars, reads, faults, spoiled>>

uploadCase(p) ==
    /\ call[p].pc = "upload"
    /\ Kb!Upload(call[p].id, call[p].ver)
    /\ Done(p)
    /\ UNCHANGED <<tables, caches, topic, index, files, saved, upload, fileId,
                   broken, reads, faults, spoiled>>

\* A call of Redis or Kafka that fails is logged, and the call goes on.
Fails(p) ==
    LET c == call[p].id
        lost == CASE call[p].pc \in {"setOwn", "set"} -> Copies(c)
                  [] call[p].pc = "setList" -> {<<"list", 0>>}
                  [] call[p].pc = "setTotal" -> {<<"total", 0>>}
                  [] call[p].pc = "produce" -> {<<"pub", c>>}
                  [] OTHER -> {<<"kb", c>>}
    IN  /\ call[p].pc \in {"setOwn", "set", "setList", "setTotal", "produce", "upload"}
        /\ faults < MaxFaults
        /\ faults' = faults + 1
        /\ spoiled' = spoiled \cup lost
        /\ CASE call[p].pc = "setOwn" ->
                    Goto(p, IF call[p].biz = DefaultBiz THEN "list" ELSE "get")
             [] call[p].pc = "set" -> AfterSet(p)
             [] call[p].pc = "setList" -> After(p)
             [] call[p].pc = "produce" -> AfterEvent(p)
             [] OTHER -> Done(p)
        /\ UNCHANGED <<tables, caches, outside, reads>>

----------------------------------------------------------------------------
(* Readers: only misses are steps, and an entry is gone when its time to   *)
(* live is over *)

Ask(p, op, pc, c) ==
    /\ reads < MaxReads
    /\ reads' = reads + 1
    /\ Begin(p, op, pc, c, DefaultBiz, NoVer)
    /\ UNCHANGED <<tables, outside, faults, spoiled>>

GetPubByID(p, c) ==
    /\ cCache' = [cCache EXCEPT ![c] = NoVer]
    /\ Ask(p, "detail", "row", c)
    /\ UNCHANGED <<lCache, tCache>>

PubList(p) ==
    /\ lCache' = NoList
    /\ Ask(p, "page", "list", 0)
    /\ UNCHANGED <<cCache, tCache>>

PubCount(p) ==
    /\ tCache' = Miss
    /\ Ask(p, "count", "total", 0)
    /\ UNCHANGED <<cCache, lCache>>

ReadTotal(p) ==
    /\ call[p].pc = "total"
    /\ call' = [call EXCEPT ![p].num = PublishCaseCount, ![p].pc = "setTotal"]
    /\ UNCHANGED <<tables, caches, outside, reads, faults, spoiled>>

SetTotal(p) ==
    /\ call[p].pc = "setTotal"
    /\ tCache' = call[p].num
    /\ spoiled' = IF call[p].num = PublishCaseCount /\ OthersAt(p, "setTotal") = {}
                  THEN spoiled \ {<<"total", 0>>} ELSE spoiled
    /\ Done(p)
    /\ UNCHANGED <<tables, cCache, lCache, outside, reads, faults>>

----------------------------------------------------------------------------
(* The consumers of the events *)

Consume ==
    /\ Elastic!Consume
    /\ UNCHANGED <<tables, caches, kbVars, call, reads, faults, spoiled>>

ConsumeUpload ==
    /\ Kb!UploadFile
    /\ UNCHANGED <<tables, caches, topic, index, call, reads, faults, spoiled>>

UploadFails ==
    /\ faults < MaxFaults
    /\ faults' = faults + 1
    /\ Kb!UploadFails
    /\ UNCHANGED <<tables, caches, topic, index, call, reads, spoiled>>

Next ==
    \/ \E p \in Procs, c \in Ids :
          GetPubByID(p, c) \/ \E b \in Bizs : Save(p, c, b) \/ Publish(p, c, b)
    \/ \E p \in Procs :
          \/ PubList(p) \/ PubCount(p) \/ SetOwn(p) \/ ReadList(p) \/ SetCases(p)
          \/ getCase(p) \/ ReadRow(p) \/ SetCase(p) \/ syncCase(p) \/ uploadCase(p)
          \/ ReadTotal(p) \/ SetTotal(p) \/ Fails(p)
    \/ Consume \/ ConsumeUpload \/ UploadFails

Spec == Init /\ [][Next]_casesVars

----------------------------------------------------------------------------
(* Properties *)

TypeOK ==
    /\ draft \in [Ids -> {NoRow} \cup [ver : 1..version, biz : Bizs]]
    /\ pub \in [Ids -> {NoRow} \cup [ver : 1..version, biz : Bizs]]
    /\ cCache \in [Ids -> 0..version]
    /\ tCache \in Miss..Cardinality(Ids)
    /\ \A p \in Procs : call[p].op = "idle" <=> call[p].pc = "idle"

\* A publication of the case, or one of the default biz, is on its way.
Publishing(pcs) == {p \in Procs : call[p].op = "publish" /\ call[p].pc \in pcs}

\* A cached case, page or total that is not spoiled and not about to be
\* refreshed shows the table (repository.Sync, GetPubByID, PubList, PubCount).
CachesShowTheTable ==
    /\ \A c \in Ids : (/\ <<"case", c>> \notin spoiled
                       /\ \A p \in Publishing({"setOwn"}) : call[p].id # c)
          => cCache[c] \in {NoVer, pub[c].ver}
    /\ (/\ <<"list", 0>> \notin spoiled
        /\ \A p \in Publishing({"setOwn", "list", "setList"}) : call[p].biz # DefaultBiz)
          => lCache \in {NoList, PublishCaseList}
    /\ <<"total", 0>> \notin spoiled => tCache \in {Miss, PublishCaseCount}

\* Nothing that was not published leaves the tables: not for a reader, not for
\* the index, whichever of the two, and not for the knowledge base (service.
\* getCase reads the published case for every event).
DraftsStayPrivate ==
    \A c \in Ids :
        /\ {cCache[c], index["pub"][c], index["draft"][c]} \subseteq published[c] \cup {NoVer}
        /\ \A f \in files[c] : f[1] \in published[c]
        /\ lCache # NoList => \A e \in lCache : e[1] = c => e[2] \in published[c]

\* With every call over and the topics read, search and the knowledge base
\* have the version published last, unless two calls of the case met or one
\* of the steps failed (service.Publish, uploadCase, UploadFile).
DocumentsFollow ==
    (/\ \A p \in Procs : call[p].op = "idle"
     /\ topic = <<>> /\ uploads = <<>> /\ upload.pc = "idle")
    => \A c \in Ids : pub[c] # NoRow =>
          /\ <<"pub", c>> \notin spoiled => index["pub"][c] = pub[c].ver
          /\ (<<"kb", c>> \notin spoiled /\ broken[c] = 0)
             => {f[1] : f \in files[c]} = {pub[c].ver}

\* KnowledgeBase!OneFile.
OneFile == Kb!OneFile
=============================================================================
