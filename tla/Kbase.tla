-------------------------------- MODULE Kbase --------------------------------
(***************************************************************************)
(* The sync of published questions to the knowledge service                *)
(* (internal/kbase).  UpsertSince pages by offset through the questions    *)
(* published since a time, the latest first, and sends every page in       *)
(* batches; a batch is tried again after an error of the server or the     *)
(* network, a page is read again when one of its batches failed for good.  *)
(* Meanwhile questions are published and deleted, which moves the rows     *)
(* under the offset, and an administrator may upsert or delete single      *)
(* documents.                                                              *)
(*                                                                         *)
(* Relations between questions are the edges of roadmaps: their sync pages *)
(* through the roadmaps, collects the edges of all pages into batches, and *)
(* ends with the first batch that fails for good.                          *)
(*                                                                         *)
(* A question or an edge is the number of its publication, which also      *)
(* orders them in time.  Saving an edge leaves the utime of its roadmap,   *)
(* by which roadmaps are found and ordered, as it was.  Left out: the      *)
(* waiting between two tries and the cancellation of the context, which    *)
(* gin never does.                                                         *)
(***************************************************************************)
EXTENDS Integers, Sequences, SequencesExt, FiniteSets

CONSTANTS
    Questions,     \* ids; all of them are published before the sync
    Edges,         \* ids of edges, all there before the sync too
    Maps, MapOf,   \* roadmaps, and the one of each edge
    PageSize,      \* QuestionSyncer.batchSize and QuestionRelSyncer.batchSize
    BatchSize,     \* HTTPKBaseService.batchSize
    MaxRetries,    \* HTTPKBaseService.maxRetries
    MaxMoves,      \* bound: publications and deletions during the sync
    MaxCalls,      \* bound: documents upserted or deleted by hand
    MaxFaults      \* bound: requests that fail

VARIABLES
    table,         \* publish_questions and edges: the latest publication, or 0
    stamp,         \* utime of the roadmaps; 0 when it is gone
    docs,          \* in the knowledge service: the same, of each document
    clock,         \* publications so far
    run,           \* UpsertSince: where it is, and what it has in hand
    hand,          \* an Upsert under way: pairs of id and version
    moves, calls, faults, \* counters for the bounds
    first,         \* history: the table when the sync began
    touched        \* history: documents written by hand during the sync

kvars == <<table, stamp, docs, clock, run, hand, moves, calls, faults, first, touched>>

Docs == Questions \cup Edges
NoCall == <<>>
Fresh == [pc |-> "idle", since |-> 0, offset |-> 0, page |-> <<>>, sent |-> 0,
          tries |-> 0, deleted |-> FALSE,
          rel |-> FALSE, maps |-> <<>>, left |-> <<>>, last |-> FALSE, stamps |-> <<>>]

Init ==
    /\ table = [q \in Docs |-> q]
    /\ stamp = [m \in Maps |-> m]
    /\ docs = [q \in Docs |-> 0]
    /\ clock = Cardinality(Docs)
    /\ run = Fresh
    /\ hand = NoCall
    /\ moves = 0
    /\ calls = 0
    /\ faults = 0
    /\ first = table
    /\ touched = {}

-----------------------------------------------------------------------------
(* What the sync reads *)

Since(t) == {q \in Questions : table[q] # 0 /\ table[q] >= t}

\* ORDER BY utime DESC
Ordered(t) ==
    LET Later(a, b) == table[a] > table[b] IN SetToSortSeq(Since(t), Later)

\* The n elements after the first k, or as many as there are.
Part(s, k, n) == SubSeq(s, k + 1, IF k + n < Len(s) THEN k + n ELSE Len(s))

ListPubSince(t, offset, limit) ==
    LET rows == Part(Ordered(t), offset, limit) IN
    [i \in DOMAIN rows |-> <<rows[i], table[rows[i]]>>]

-----------------------------------------------------------------------------
(* The sync of questions *)

UpsertSince(t) ==
    /\ run.pc = "idle"
    /\ run' = [Fresh EXCEPT !.pc = "read", !.since = t]
    /\ first' = table
    /\ touched' = {}
    /\ UNCHANGED <<table, stamp, docs, clock, hand, moves, calls, faults>>

ReadPage ==
    LET rows == ListPubSince(run.since, run.offset, PageSize) IN
    /\ run.pc = "read"
    /\ run' = [run EXCEPT !.pc = IF rows = <<>> THEN "done" ELSE "send",
                          !.page = rows, !.sent = 0, !.tries = 0]
    /\ UNCHANGED <<table, stamp, docs, clock, hand, moves, calls, faults, first, touched>>

\* processBatches: the next batch of the page.
Batch == Part(run.page, run.sent, BatchSize)

Stored(d, rows) ==
    [q \in Docs |->
        IF \E i \in DOMAIN rows : rows[i][1] = q
        THEN LET i == CHOOSE j \in DOMAIN rows : rows[j][1] = q IN rows[i][2]
        ELSE d[q]]

-----------------------------------------------------------------------------
(* The sync of relations *)

\* ORDER BY utime DESC, id DESC
MapsSince(t) ==
    LET Later(a, b) == stamp[a] > stamp[b] IN
    SetToSortSeq({m \in Maps : stamp[m] # 0 /\ stamp[m] >= t}, Later)

\* The edges of a roadmap, the newest id first.
EdgesOf(m) ==
    LET Newest(a, b) == a > b
        ids == SetToSortSeq({e \in Edges : MapOf[e] = m /\ table[e] # 0}, Newest)
    IN  [i \in DOMAIN ids |-> <<ids[i], table[ids[i]]>>]

UpsertRelSince(t) ==
    /\ run.pc = "idle"
    /\ run' = [Fresh EXCEPT !.pc = "maps", !.since = t, !.rel = TRUE, !.stamps = stamp]
    /\ first' = table
    /\ touched' = {}
    /\ UNCHANGED <<table, stamp, docs, clock, hand, moves, calls, faults>>

\* After the last page, what is left in the batch is sent.
ListMaps ==
    LET rows == Part(MapsSince(run.since), run.offset, PageSize) IN
    /\ run.pc = "maps"
    /\ run' = IF rows # <<>> THEN [run EXCEPT !.pc = "edges", !.maps = rows]
              ELSE IF run.left = <<>> THEN [run EXCEPT !.pc = "done"]
              ELSE [run EXCEPT !.pc = "send", !.page = run.left, !.left = <<>>, !.sent = 0,
                               !.tries = 0, !.last = TRUE]
    /\ UNCHANGED <<table, stamp, docs, clock, hand, moves, calls, faults, first, touched>>

\* The edges of the page are another query.
ReadEdges ==
    /\ run.pc = "edges"
    /\ run' = [run EXCEPT !.pc = "collect", !.maps = <<>>, !.offset = @ + Len(run.maps),
                  !.left = @ \o FlattenSeq([i \in DOMAIN run.maps |-> EdgesOf(run.maps[i])])]
    /\ UNCHANGED <<table, stamp, docs, clock, hand, moves, calls, faults, first, touched>>

\* Mutant: the batch is emptied when the page is over.
CollectPage ==
    /\ run.pc = "collect"
    /\ run' = IF Len(run.left) > PageSize
              THEN [run EXCEPT !.pc = "send", !.page = Part(run.left, 0, PageSize),
                               !.left = Part(run.left, PageSize, Len(run.left)),
                               !.sent = 0, !.tries = 0]
              ELSE [run EXCEPT !.pc = "maps", !.left = <<>>]
    /\ UNCHANGED <<table, stamp, docs, clock, hand, moves, calls, faults, first, touched>>

\* A batch is sent when it is full and there is another edge for the next.
Collect ==
    /\ run.pc = "collect"
    /\ run' = IF Len(run.left) > PageSize
              THEN [run EXCEPT !.pc = "send", !.page = Part(run.left, 0, PageSize),
                               !.left = Part(run.left, PageSize, Len(run.left)),
                               !.sent = 0, !.tries = 0]
              ELSE [run EXCEPT !.pc = "maps"]
    /\ UNCHANGED <<table, stamp, docs, clock, hand, moves, calls, faults, first, touched>>

-----------------------------------------------------------------------------
(* Sending, for both *)

\* Mutant: the offset stays where it is.
BatchDoneInPlace ==
    LET sent == run.sent + Len(Batch) IN
    run' = IF sent < Len(run.page)
           THEN [run EXCEPT !.sent = sent, !.tries = 0]
           ELSE [run EXCEPT !.pc = "read"]

\* The page is over with its last batch.
BatchDone ==
    LET sent == run.sent + Len(Batch) IN
    run' = IF sent < Len(run.page)
           THEN [run EXCEPT !.sent = sent, !.tries = 0]
           ELSE IF run.rel THEN [run EXCEPT !.pc = IF run.last THEN "done" ELSE "collect"]
           ELSE [run EXCEPT !.pc = "read", !.offset = @ + Len(run.page)]

bulkUpsertOnce ==
    /\ run.pc = "send"
    /\ docs' = Stored(docs, Batch)
    /\ BatchDone
    /\ UNCHANGED <<table, stamp, clock, hand, moves, calls, faults, first, touched>>

\* Mutant: the sync goes on with the next page.
PageGivenUp == run' = [run EXCEPT !.pc = "read", !.offset = @ + Len(run.page)]

\* The page is read again, from the same offset; the sync of relations ends.
BatchGivenUp == run' = [run EXCEPT !.pc = IF run.rel THEN "failed" ELSE "read"]

\* An answer of 4xx is not tried again.
ClientError ==
    /\ run.pc = "send"
    /\ faults < MaxFaults
    /\ faults' = faults + 1
    /\ BatchGivenUp
    /\ UNCHANGED <<table, stamp, docs, clock, hand, moves, calls, first, touched>>

\* Mutant: the limit is tested too late.
ServerErrorOnceMore ==
    /\ run.pc = "send"
    /\ faults < MaxFaults
    /\ faults' = faults + 1
    /\ IF run.tries <= MaxRetries
       THEN run' = [run EXCEPT !.tries = @ + 1] ELSE BatchGivenUp
    /\ UNCHANGED <<table, stamp, docs, clock, hand, moves, calls, first, touched>>

\* Any other failure is, up to the limit; some of the batch may be stored.
ServerError ==
    /\ run.pc = "send"
    /\ faults < MaxFaults
    /\ faults' = faults + 1
    /\ \E n \in 0..Len(Batch) : docs' = Stored(docs, SubSeq(Batch, 1, n))
    /\ IF run.tries < MaxRetries
       THEN run' = [run EXCEPT !.tries = @ + 1] ELSE BatchGivenUp
    /\ UNCHANGED <<table, stamp, clock, hand, moves, calls, first, touched>>

-----------------------------------------------------------------------------
(* Meanwhile *)

\* An edge is saved in the same way, SaveEdgeV1, and its roadmap left as it is.
Publish(q) ==
    /\ moves < MaxMoves
    /\ moves' = moves + 1
    /\ clock' = clock + 1
    /\ table' = [table EXCEPT ![q] = clock']
    /\ UNCHANGED <<stamp, docs, run, hand, calls, faults, first, touched>>

Delete(q) ==
    /\ moves < MaxMoves
    /\ table[q] # 0
    /\ moves' = moves + 1
    /\ table' = [table EXCEPT ![q] = 0]
    /\ run' = [run EXCEPT !.deleted = @ \/ q \in Questions]
    /\ UNCHANGED <<stamp, docs, clock, hand, calls, faults, first, touched>>

\* A roadmap is deleted with its edges; their documents stay.
DeleteMap(m) ==
    /\ moves < MaxMoves
    /\ stamp[m] # 0
    /\ moves' = moves + 1
    /\ stamp' = [stamp EXCEPT ![m] = 0]
    /\ table' = [e \in Docs |-> IF e \in Edges /\ MapOf[e] = m THEN 0 ELSE table[e]]
    /\ run' = [run EXCEPT !.deleted = TRUE]
    /\ UNCHANGED <<docs, clock, hand, calls, faults, first, touched>>

SaveMap(m) ==
    /\ moves < MaxMoves
    /\ moves' = moves + 1
    /\ clock' = clock + 1
    /\ stamp' = [stamp EXCEPT ![m] = clock']
    /\ UNCHANGED <<table, docs, run, hand, calls, faults, first, touched>>

\* PubDetailWithoutCntView reads through a cache, which may still hold the
\* first publication instead of the latest.
Upsert(q) ==
    /\ hand = NoCall
    /\ calls < MaxCalls
    /\ calls' = calls + 1
    /\ \E v \in {q, table[q]} \ {0} : hand' = <<<<q, v>>>>
    /\ touched' = touched \cup {q}
    /\ UNCHANGED <<table, stamp, docs, clock, run, moves, faults, first>>

\* Upsert of relations: all edges of a roadmap.
UpsertEdges(m) ==
    /\ hand = NoCall
    /\ calls < MaxCalls
    /\ calls' = calls + 1
    /\ hand' = EdgesOf(m)
    /\ touched' = touched \cup {e \in Edges : MapOf[e] = m}
    /\ UNCHANGED <<table, stamp, docs, clock, run, moves, faults, first>>

UpsertOnce ==
    /\ hand # NoCall
    /\ docs' = Stored(docs, hand)
    /\ hand' = NoCall
    /\ touched' = touched \cup {hand[i][1] : i \in DOMAIN hand}
    /\ UNCHANGED <<table, stamp, clock, run, moves, calls, faults, first>>

\* A document that is not there counts as deleted.
bulkDeleteOnce(q) ==
    /\ calls < MaxCalls
    /\ calls' = calls + 1
    /\ docs' = [docs EXCEPT ![q] = 0]
    /\ touched' = touched \cup {q}
    /\ UNCHANGED <<table, stamp, clock, run, hand, moves, faults, first>>

Sync == ReadPage \/ ListMaps \/ ReadEdges \/ Collect \/ bulkUpsertOnce
Fault == ClientError \/ ServerError

Next ==
    \/ \E t \in 1..2 : IF Edges = {} THEN UpsertSince(t) ELSE UpsertRelSince(t)
    \/ Sync \/ Fault \/ UpsertOnce
    \/ \E q \in Docs : Publish(q) \/ Delete(q) \/ bulkDeleteOnce(q)
    \/ \E q \in Questions : Upsert(q)
    \/ \E m \in Maps : SaveMap(m) \/ DeleteMap(m) \/ UpsertEdges(m)

Spec == Init /\ [][Next]_kvars /\ WF_kvars(Sync)

-----------------------------------------------------------------------------
TypeOK ==
    /\ table \in [Docs -> 0..clock]
    /\ docs \in [Docs -> 0..clock]
    /\ run.offset \in 0..(Cardinality(Questions \cup Maps) + moves + PageSize)
    /\ run.tries \in 0..MaxRetries
    /\ run.sent \in 0..Len(run.page)

\* The sync was to bring it.
Due(q) ==
    IF ~run.rel THEN q \in Since(run.since)
    ELSE LET m == MapOf[q] IN
         table[q] # 0 /\ stamp[m] = run.stamps[m] /\ stamp[m] >= run.since

\* When the sync answers that it is done, every question that was there when
\* it began, and was neither published again nor touched by hand, is in the
\* knowledge service as it is in the table: publications during the sync move
\* the rows under the offset but make it skip none, and what failed was sent
\* again.  A deletion does make it skip one.  So is every edge of a roadmap that
\* was saved since the time asked for and not again during the sync, which would
\* move it before the offset (UpsertSince of both syncers, doWithRetry).
NothingIsSkipped ==
    (run.pc = "done" /\ ~run.deleted)
    => \A q \in Docs \ touched :
          (first[q] = table[q] /\ Due(q)) => docs[q] = table[q]

\* A sync ends when the service stops failing (the loop of UpsertSince, which
\* has no limit of its own); that of relations may end with an error.
SyncEnds == run.pc \in {"read", "maps"} ~> run.pc \in {"done", "failed"}
=============================================================================
