---------------------------- MODULE Interactive ----------------------------
(***************************************************************************)
(* Likes, collections and view counts (internal/interactive).  Every like  *)
(* and every collected item is a row of its own; table `interactives`      *)
(* keeps their numbers beside them.  A toggle reads the user's row and     *)
(* then inserts or deletes it with the number, in one transaction;         *)
(* deleting a collection reads its records, deletes them in a transaction  *)
(* and takes them off the numbers in a goroutine afterwards.               *)
(*                                                                         *)
(* The page of a collection (internal/bff) has its records read here and   *)
(* their items asked of the modules they belong to, all at once; an item   *)
(* may disappear meanwhile.                                                *)
(*                                                                         *)
(* Left out: the names of collections, paging, and the loss of a whole     *)
(* call, which changes nothing.                                            *)
(***************************************************************************)
EXTENDS Integers, FiniteSets

CONSTANTS
    Users, Items,  \* who likes what: pairs of biz and id
    Procs,         \* web handlers and the one consumer of interactive_events
    MaxCalls,      \* bound: calls that start
    MaxFolders,    \* bound: collections ever saved
    MaxPages,      \* bound: pages of collections that are opened
    MaxFaults      \* bound: decrements, and queries of a page, that fail

VARIABLES
    likes,         \* table user_like_bizs: pairs of user and item
    collects,      \* table user_collection_bizs: <<user, item>> to its cid
    intr,          \* table interactives: the row of an item, or NoRow
    folders,       \* table collections: the owner of each collection
    newFolder,     \* the id the next collection gets
    decrs,         \* decrements the goroutines still have to make, by item
    call,          \* what each process is doing
    live,          \* the items that are there, in their own modules
    page, pages,   \* a page of a collection being put together
    calls, faults, \* counters for the bounds
    strays,        \* history: records moved to a collection that was not their owner's
    exact          \* history: each delete removed just what it had read

ofPages == <<live, page, pages>>
ivars == <<likes, collects, intr, folders, newFolder, decrs, call, ofPages,
           calls, faults, strays, exact>>

NoRow == [view |-> -1, like |-> 0, collect |-> 0]
ZeroRow == [view |-> 0, like |-> 0, collect |-> 0]
Unfiled == 0       \* the cid of a record in no collection
Cids == 0..MaxFolders
Idle == [op |-> "idle", key |-> <<>>, cid |-> 0, seen |-> {}]

Blank == [pc |-> "idle", records |-> {}, todo |-> {}, found |-> {}]
Bizs == {"case", "caseSet", "question", "questionSet"}

Rows == DOMAIN collects
RowsOf(c) == {k \in Rows : collects[k] = c}
Without(f, S) == [k \in DOMAIN f \ S |-> f[k]]

Init ==
    /\ likes = {}
    /\ collects = [k \in {} |-> Unfiled]
    /\ intr = [i \in Items |-> NoRow]
    /\ folders = [c \in {} |-> 0]
    /\ newFolder = 1
    /\ decrs = [i \in Items |-> 0]
    /\ call = [p \in Procs |-> Idle]
    /\ live = Items /\ page = Blank /\ pages = 0
    /\ calls = 0
    /\ faults = 0
    /\ strays = {}
    /\ exact = TRUE

----------------------------------------------------------------------------
(* Numbers *)

\* INSERT ... ON DUPLICATE KEY UPDATE col = col + 1
Upserted(i, col) ==
    LET row == IF intr[i] = NoRow THEN ZeroRow ELSE intr[i]
    IN  [intr EXCEPT ![i] = [row EXCEPT ![col] = row[col] + 1]]

\* UPDATE ... SET col = col - 1: a row that is not there stays so.
Lowered(i, col) ==
    IF intr[i] = NoRow THEN intr ELSE [intr EXCEPT ![i][col] = @ - 1]

IncrViewCnt(i) == intr' = Upserted(i, "view")

----------------------------------------------------------------------------
(* Likes *)

\* Mutant: the number goes down whether or not a row was deleted.
deleteLikeUnchecked(k) ==
    /\ likes' = likes \ {k}
    /\ intr' = Lowered(k[2], "like")

deleteLikeInfo(k) ==
    IF k \notin likes THEN UNCHANGED <<likes, intr>>
    ELSE /\ likes' = likes \ {k}
         /\ intr' = Lowered(k[2], "like")

\* The unique index refuses a second row: the transaction is rolled back.
insertLikeInfo(k) ==
    IF k \in likes THEN UNCHANGED <<likes, intr>>
    ELSE /\ likes' = likes \cup {k}
         /\ intr' = Upserted(k[2], "like")

LikeToggle(k, seen) ==
    IF seen # {} THEN deleteLikeInfo(k) ELSE insertLikeInfo(k)

----------------------------------------------------------------------------
(* Collections *)

deleteCollectionInfo(k) ==
    IF k \notin Rows THEN UNCHANGED <<collects, intr>>
    ELSE /\ collects' = Without(collects, {k})
         /\ intr' = Lowered(k[2], "collect")

\* Mutant: a second row is ignored, and counted.
collectAgain(k) ==
    /\ collects' = [j \in Rows \cup {k} |-> IF j = k THEN Unfiled ELSE collects[j]]
    /\ intr' = Upserted(k[2], "collect")

insertCollectionBiz(k) ==
    IF k \in Rows THEN UNCHANGED <<collects, intr>>
    ELSE /\ collects' = [j \in Rows \cup {k} |->
                            IF j = k THEN Unfiled ELSE collects[j]]
         /\ intr' = Upserted(k[2], "collect")

CollectToggle(k, seen) ==
    IF seen # {} THEN deleteCollectionInfo(k) ELSE insertCollectionBiz(k)

SaveCollection(u) ==
    /\ newFolder <= MaxFolders
    /\ folders' = [c \in DOMAIN folders \cup {newFolder} |->
                      IF c = newFolder THEN u ELSE folders[c]]
    /\ newFolder' = newFolder + 1

\* Mutant: the item is moved for everybody who collected it.
MoveForAll(k, c) ==
    collects' = [j \in Rows |-> IF j[2] = k[2] THEN c ELSE collects[j]]

MoveCollection(k, c) ==
    collects' = [j \in Rows |-> IF j = k THEN c ELSE collects[j]]

\* What DELETE takes: the user's own records of the collection.
deleted(u, c) == {k \in RowsOf(c) : k[1] = u}

Owns(u, c) == c \in DOMAIN folders /\ folders[c] = u

\* The transaction; it fails when the collection is not the user's.
DeleteRows(u, c, seen) ==
    IF ~Owns(u, c)
    THEN UNCHANGED <<folders, collects, decrs, exact>>
    ELSE /\ folders' = Without(folders, {c})
         /\ collects' = Without(collects, deleted(u, c))
         /\ decrs' = [i \in Items |->
                         decrs[i] + Cardinality({k \in seen : k[2] = i})]
         /\ exact' = (exact /\ seen = deleted(u, c))

----------------------------------------------------------------------------
(* Calls: from the pages, and from the interactive_events *)

Begin(p, op, k, c, seen) ==
    /\ call[p].op = "idle"
    /\ calls < MaxCalls
    /\ calls' = calls + 1
    /\ call' = [call EXCEPT ![p] =
                   [op |-> op, key |-> k, cid |-> c, seen |-> seen]]

End(p) == call' = [call EXCEPT ![p] = Idle]

Once(p) ==
    /\ call[p].op = "idle"
    /\ calls < MaxCalls
    /\ calls' = calls + 1
    /\ UNCHANGED call

ToggleLike(p, k) ==
    /\ Begin(p, "like", k, Unfiled, {k} \cap likes)
    /\ UNCHANGED <<likes, collects, intr, folders, newFolder, decrs, faults,
                   exact>>

ToggleLikeTx(p) ==
    /\ call[p].op = "like"
    /\ LikeToggle(call[p].key, call[p].seen)
    /\ End(p)
    /\ UNCHANGED <<collects, folders, newFolder, decrs, calls, faults, exact>>

ToggleCollect(p, k) ==
    /\ Begin(p, "collect", k, Unfiled, {k} \cap Rows)
    /\ UNCHANGED <<likes, collects, intr, folders, newFolder, decrs, faults,
                   exact>>

ToggleCollectTx(p) ==
    /\ call[p].op = "collect"
    /\ CollectToggle(call[p].key, call[p].seen)
    /\ End(p)
    /\ UNCHANGED <<likes, folders, newFolder, decrs, calls, faults, exact>>

View(p, i) ==
    /\ intr[i].view < 1          \* bound
    /\ Once(p)
    /\ IncrViewCnt(i)
    /\ UNCHANGED <<likes, collects, folders, newFolder, decrs, faults, exact>>

NewCollection(p, u) ==
    /\ Once(p)
    /\ SaveCollection(u)
    /\ UNCHANGED <<likes, collects, intr, decrs, faults, exact>>

\* Nothing asks whether the collection is there, or whose it is.
Move(p, k, c) ==
    /\ Once(p)
    /\ MoveCollection(k, c)
    /\ strays' = IF k \in Rows /\ ~Owns(k[1], c) THEN strays \cup {k} ELSE strays \ {k}
    /\ UNCHANGED <<likes, intr, folders, newFolder, decrs, faults, exact>>

\* repository.DeleteCollection reads the records of the collection first.
DeleteCollection(p, u, c) ==
    /\ Begin(p, "delete", <<u>>, c, RowsOf(c))
    /\ UNCHANGED <<likes, collects, intr, folders, newFolder, decrs, faults,
                   exact>>

DeleteCollectionTx(p) ==
    /\ call[p].op = "delete"
    /\ DeleteRows(call[p].key[1], call[p].cid, call[p].seen)
    /\ End(p)
    /\ UNCHANGED <<likes, intr, newFolder, calls, faults>>

DecrCollectCount(i) ==
    intr' = IF intr[i].collect > 0 THEN Lowered(i, "collect") ELSE intr

\* One turn of the goroutine's loop.
decrCollectionCount(i) ==
    /\ decrs[i] > 0
    /\ decrs' = [decrs EXCEPT ![i] = @ - 1]
    /\ DecrCollectCount(i)
    /\ UNCHANGED <<likes, collects, folders, newFolder, call, calls, faults,
                   exact>>

\* An update that fails is logged, and never made again.
DecrFails(i) ==
    /\ decrs[i] > 0
    /\ faults < MaxFaults
    /\ faults' = faults + 1
    /\ decrs' = [decrs EXCEPT ![i] = @ - 1]
    /\ exact' = FALSE
    /\ UNCHANGED <<likes, collects, intr, folders, newFolder, call, calls>>

Marked ==
    \/ \E p \in Procs, k \in Users \X Items : ToggleLike(p, k) \/ ToggleCollect(p, k)
    \/ \E p \in Procs : \/ ToggleLikeTx(p) \/ ToggleCollectTx(p)
                        \/ DeleteCollectionTx(p)
    \/ \E p \in Procs, i \in Items : View(p, i)
    \/ \E p \in Procs, u \in Users :
          \/ NewCollection(p, u)
          \/ \E c \in Cids : DeleteCollection(p, u, c)
    \/ \E i \in Items : decrCollectionCount(i) \/ DecrFails(i)

Writes ==
    \/ Marked /\ UNCHANGED strays
    \/ \E p \in Procs, k \in Users \X Items, c \in Cids : Move(p, k, c)

----------------------------------------------------------------------------
(* The page of a collection *)

CollectionInfoWithPage(u, c) == {k \in RowsOf(c) : k[1] = u}

\* The user's records; their items are asked for by four goroutines, one of
\* each kind, whether or not there is any.
CollectionRecords(u, c) ==
    /\ page.pc = "idle"
    /\ pages < MaxPages
    /\ pages' = pages + 1
    /\ page' = [pc |-> "items", records |-> CollectionInfoWithPage(u, c), todo |-> Bizs, found |-> {}]
    /\ UNCHANGED <<live, faults>>

\* GetPubByIDs, GetByIDsWithQuestion, GetByIdsWithCases
AskItems(biz) ==
    /\ page.pc = "items"
    /\ biz \in page.todo
    /\ page' = [page EXCEPT !.todo = @ \ {biz},
                            !.found = @ \cup {i \in live : i[1] = biz /\ \E k \in page.records : k[2] = i}]
    /\ UNCHANGED <<live, pages, faults>>

\* The results of the examinations, of the cases of the sets as well.
GetResults ==
    /\ page.pc = "items"
    /\ page.todo = {}
    /\ page' = [page EXCEPT !.pc = "shown"]
    /\ UNCHANGED <<live, pages, faults>>

\* One query that fails and there is no page.
QueryFails ==
    /\ page.pc = "items"
    /\ faults < MaxFaults
    /\ faults' = faults + 1
    /\ page' = Blank
    /\ UNCHANGED <<live, pages>>

ClosePage ==
    /\ page.pc = "shown"
    /\ page' = Blank
    /\ UNCHANGED <<live, pages, faults>>

\* An administrator deletes it; pages to come show the difference.
Withdraw(i) ==
    /\ i \in live
    /\ pages < MaxPages \/ page.pc = "items"
    /\ live' = live \ {i}
    /\ UNCHANGED <<page, pages, faults>>

Pages ==
    \/ \E u \in Users, c \in Cids : CollectionRecords(u, c)
    \/ \E biz \in Bizs : AskItems(biz)
    \/ GetResults \/ QueryFails \/ ClosePage
    \/ \E i \in Items : Withdraw(i)

Next ==
    \/ Writes /\ UNCHANGED ofPages
    \/ /\ Pages
       /\ UNCHANGED <<likes, collects, intr, folders, newFolder, decrs, call, calls, strays, exact>>

Spec == Init /\ [][Next]_ivars

----------------------------------------------------------------------------
(* What the pages read *)

Liked(u, i) == <<u, i>> \in likes
Collected(u, i) == <<u, i>> \in Rows

\* service.Get: an item without a row is shown untouched, whoever asks.
Get(u, i) ==
    IF intr[i] = NoRow
    THEN [row |-> ZeroRow, liked |-> FALSE, collected |-> FALSE]
    ELSE [row |-> intr[i], liked |-> Liked(u, i), collected |-> Collected(u, i)]

GetUserLikes(u, is) == {i \in is : <<u, i>> \in likes}
GetUserCollects(u, is) == {i \in is : <<u, i>> \in Rows}

\* The rows of the items with the user's own marks.
GetByIds(u, is) ==
    [i \in {j \in is : intr[j] # NoRow} |->
        [row |-> intr[i], liked |-> i \in GetUserLikes(u, is),
         collected |-> i \in GetUserCollects(u, is)]]

\* Mutant: found by the id alone.
shownOfId(k) == {i \in page.found : i[2] = k[2][2]}

\* What a record is shown with: its item, or nothing.
shownItem(k) == page.found \cap {k[2]}

\* The total beside a page is counted without the user.
CntRecords(c) == Cardinality(RowsOf(c))

----------------------------------------------------------------------------
(* Properties *)

TypeOK ==
    /\ likes \subseteq Users \X Items
    /\ Rows \subseteq Users \X Items
    /\ \A k \in Rows : collects[k] \in Cids
    /\ \A i \in Items : /\ intr[i].view \in -1..1
                        /\ intr[i].like \in Nat
                        /\ intr[i].collect \in Int
    /\ DOMAIN folders \subseteq 1..(newFolder - 1)
    /\ decrs \in [Items -> Nat]
    /\ strays \subseteq Users \X Items
    /\ exact \in BOOLEAN
    /\ live \subseteq Items /\ page.found \subseteq Items

\* What a user likes is what both pages show as liked, and the number of
\* likes is the number of users, whatever toggles met (LikeToggle,
\* service.Get, repository.GetByIds).
LikesAreCounted ==
    \A i \in Items :
        /\ intr[i].like = Cardinality({u \in Users : Liked(u, i)})
        /\ \A u \in Users : Liked(u, i) =>
              /\ Get(u, i).liked
              /\ i \in DOMAIN GetByIds(u, Items)
              /\ GetByIds(u, Items)[i].liked

\* The number of collections of an item is the number of its records and of
\* the decrements under way, as long as every delete took just the records it
\* had read and no decrement failed (DeleteCollection, decrCollectionCount).
CollectsAreCounted ==
    exact => \A i \in Items :
        intr[i].collect =
            Cardinality({u \in Users : Collected(u, i)}) + decrs[i]

\* The total shown beside a collection counts the records of all users, the
\* page lists the owner's: they differ by the records that other users have
\* themselves moved there, and by no others (CollectionInfo, MoveCollection).
TotalIsListed ==
    \A c \in DOMAIN folders :
        /\ RowsOf(c) \ CollectionInfoWithPage(folders[c], c) \subseteq strays
        /\ strays = {} => CntRecords(c) = Cardinality(CollectionInfoWithPage(folders[c], c))

\* On the page of a collection every record shows its own item, whatever other
\* kinds have the same id, unless the item has disappeared meanwhile
\* (bff/internal/web/collection.go:20, vo.go:48).
PagesAreWhole ==
    page.pc = "shown" =>
        \A k \in page.records :
            /\ shownItem(k) \subseteq {k[2]}
            /\ k[2] \in live => shownItem(k) # {}
=============================================================================
