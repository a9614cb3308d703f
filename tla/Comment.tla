------------------------------- MODULE Comment -------------------------------
(***************************************************************************)
(* Comments and replies (internal/comment).  A reply has a parent, and the *)
(* root of its thread is stored with it: Create reads the parent and       *)
(* copies its root, in a transaction; deleting a comment takes along,      *)
(* through the foreign key on the parent, all below it.  Readers ask for   *)
(* the comments on a subject, or for the replies of a thread, page after   *)
(* page, newest first.                                                     *)
(*                                                                         *)
(* Left out: contents, profiles of the writers, the message to the robot.  *)
(***************************************************************************)
EXTENDS Integers, FiniteSets, SequencesExt

CONSTANTS
    Users, Subjects,   \* Subjects: pairs of biz and biz id
    Procs,             \* web handlers that create comments
    Limit,             \* the page size of the reader
    MaxComments,       \* bound: comments that are created
    MaxDeletes         \* bound: calls of Delete

VARIABLES
    comments,          \* table comments
    newId,             \* the auto-increment id of the next row
    creating,          \* the transaction of each handler: the new row
    deletes,           \* counter for the bound
    reader,            \* what the reader asked for, and where it is
    unread,            \* history: what it has still to be shown if nobody deletes it
    shown              \* history: what it was shown, in order

commentVars == <<comments, newId, creating, deletes, reader, unread, shown>>

NoId == 0                   \* NULL in parent_id and ancestor_id
Beyond == MaxComments + 1   \* math.MaxInt64
Ids == DOMAIN comments
Idle == [uid |-> 0]
Closed == [of |-> <<>>, minID |-> NoId]

Init ==
    /\ comments = [i \in {} |-> Idle]
    /\ newId = 1
    /\ creating = [p \in Procs |-> Idle]
    /\ deletes = 0
    /\ reader = Closed
    /\ unread = {}
    /\ shown = <<>>

----------------------------------------------------------------------------
(* Threads *)

\* Mutant: the parent is taken for the root.
AncestorIsParent(parent) == parent

\* The root of a reply's thread, from the row of its parent.
AncestorOf(parent) ==
    IF parent = NoId THEN NoId
    ELSE IF comments[parent].parent = NoId THEN parent
    ELSE comments[parent].ancestor

Row(u, s, parent, ancestor) ==
    [uid |-> u, subject |-> s, parent |-> parent, ancestor |-> ancestor]

\* The transaction reads the parent.  That the reply is on the parent's
\* subject is not asked.
Create(p, u, s, parent) ==
    /\ creating[p] = Idle
    /\ parent \in Ids \cup {NoId}
    /\ creating' = [creating EXCEPT ![p] = Row(u, s, parent, AncestorOf(parent))]
    /\ UNCHANGED <<comments, newId, deletes, reader, unread, shown>>

\* Mutant: no foreign key on the parent.
ParentIsForgotten(row) == TRUE

ParentIsThere(row) == row.parent \in Ids \cup {NoId}

\* It inserts, under the foreign key on the parent; an id is gone either way.
Insert(p) ==
    LET row == creating[p] IN
    /\ row # Idle
    /\ newId <= MaxComments
    /\ comments' = IF ParentIsThere(row)
                   THEN [i \in Ids \cup {newId} |-> IF i = newId THEN row ELSE comments[i]]
                   ELSE comments
    /\ newId' = newId + 1
    /\ creating' = [creating EXCEPT ![p] = Idle]
    /\ UNCHANGED <<deletes, reader, unread, shown>>

\* A reply is younger than its parent, so what is below S is found by taking
\* the comments oldest first.
Below(S) ==
    FoldLeft(LAMBDA T, i : IF i \in Ids /\ comments[i].parent \in T THEN T \cup {i} ELSE T,
             S, [i \in 1..MaxComments |-> i])

\* ON DELETE CASCADE
Delete(u, id) ==
    /\ deletes < MaxDeletes
    /\ deletes' = deletes + 1
    /\ LET gone == IF id \in Ids /\ comments[id].uid = u THEN Below({id}) ELSE {} IN
       /\ comments' = [i \in Ids \ gone |-> comments[i]]
       /\ unread' = unread \ gone
    /\ UNCHANGED <<newId, creating, reader, shown>>

----------------------------------------------------------------------------
(* Readers *)

Ancestors(s) ==
    {i \in Ids : comments[i].subject = s /\ comments[i].parent = NoId
                                        /\ comments[i].ancestor = NoId}
Descendants(root) == {i \in Ids : comments[i].ancestor = root}

Asked(of) == IF of[1] = "list" THEN Ancestors(of[2]) ELSE Descendants(of[2])

Newest(S) == SetToSortSeq(S, LAMBDA i, j : i > j)

\* Mutant: the cursor's own comment comes again.
FromCursor(of, minID) ==
    LET found == Newest({i \in Asked(of) : i <= minID})
    IN SubSeq(found, 1, IF Len(found) < Limit THEN Len(found) ELSE Limit)

\* FindAncestors, FindDescendants: ORDER BY id DESC LIMIT.
Page(of, minID) ==
    LET found == Newest({i \in Asked(of) : i < minID})
    IN SubSeq(found, 1, IF Len(found) < Limit THEN Len(found) ELSE Limit)

\* List of a subject or Replies of a comment, the first page to come.
Open(of) ==
    /\ reader = Closed /\ shown = <<>>
    /\ reader' = [of |-> of, minID |-> Beyond]
    /\ unread' = Asked(of)
    /\ UNCHANGED <<comments, newId, creating, deletes, shown>>

\* A page; the next one starts at its last comment.
NextPage ==
    /\ reader # Closed
    /\ LET page == Page(reader.of, reader.minID) IN
       /\ shown' = shown \o page
       /\ unread' = unread \ Range(page)
       /\ reader' = IF page = <<>> THEN Closed ELSE [reader EXCEPT !.minID = Last(page)]
    /\ UNCHANGED <<comments, newId, creating, deletes>>

----------------------------------------------------------------------------
Next ==
    \/ \E p \in Procs, u \in Users, s \in Subjects, parent \in 0..MaxComments :
          Create(p, u, s, parent)
    \/ \E p \in Procs : Insert(p)
    \/ \E u \in Users, id \in 1..MaxComments : Delete(u, id)
    \/ \E s \in Subjects : Open(<<"list", s>>)
    \/ \E id \in Ids : Open(<<"replies", id>>)
    \/ NextPage

Spec == Init /\ [][Next]_commentVars

----------------------------------------------------------------------------
\* Rows have their types, and ids are never used again.
TypeOK ==
    /\ Ids \subseteq 1..newId - 1 /\ newId \in 1..MaxComments + 1
    /\ \A i \in Ids : /\ comments[i].uid \in Users /\ comments[i].subject \in Subjects
                      /\ comments[i].parent \in 0..i - 1 /\ comments[i].ancestor \in 0..i - 1
    /\ unread \subseteq Ids

\* Every reply hangs in one thread, whatever is deleted while it is created:
\* its parent is there, belongs to the same root, and the root is a comment
\* that is no reply.  No reply is left behind where no reader finds it
\* (dao/comment.go:87, 174).
ThreadsAreWhole ==
    \A i \in Ids : LET row == comments[i] IN
        IF row.parent = NoId THEN row.ancestor = NoId
        ELSE /\ {row.parent, row.ancestor} \subseteq Ids
             /\ comments[row.ancestor].parent = NoId
             /\ row.parent = row.ancestor \/ comments[row.parent].ancestor = row.ancestor

\* A reader that pages to the end is shown, newest first and none twice, all
\* that was there when it began and has not been deleted, whatever is created
\* and deleted between the pages (dao/comment.go:115, 136).
PagesAreComplete ==
    /\ \A i, j \in DOMAIN shown : i < j => shown[i] > shown[j]
    /\ reader = Closed => unread = {}
=============================================================================
