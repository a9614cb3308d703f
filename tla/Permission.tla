----------------------------- MODULE Permission -----------------------------
(***************************************************************************)
(* The permission module: a row per user, business and entity, unique,     *)
(* created by consumers of permission_events.  One event creates all its   *)
(* rows in one transaction: for each of them FirstOrCreate selects, and    *)
(* inserts what it has not found.  The selects see the snapshot taken by   *)
(* the first of them and the transaction's own rows; an insert of a row    *)
(* another transaction has inserted waits for it to end.                   *)
(***************************************************************************)
EXTENDS Integers, Sequences, FiniteSets, SequencesExt

CONSTANTS
    Events,     \* the events that are sent
    Rows,       \* Events -> the sequence of PersonalPermission rows to create
    Workers,    \* goroutines that consume events
    MaxCalls,   \* bound: deliveries of messages
    MaxFaults,  \* bound: database errors
    None        \* no event

VARIABLES
    granted,   \* committed PersonalPermission rows
    pc,        \* "idle", "row" (at the next row) or "commit"
    msg,       \* the event each goroutine handles
    pos,       \* which of its rows is next
    seen,      \* the snapshot of its transaction
    inserted,  \* the rows its transaction has inserted
    done,      \* events that were handled without an error
    failed,    \* events whose handling ended in a unique index error or a deadlock
    calls,     \* deliveries so far
    faults     \* errors so far

vars == <<granted, pc, msg, pos, seen, inserted, done, failed, calls, faults>>

\* An event that names nothing changes nothing, and is left out.
EventsNameRows ==
    \A e \in Events : Rows[e] \in Seq(Range(Rows[e])) /\ Len(Rows[e]) > 0

RowsOf(e) == ToSet(Rows[e])

Init ==
    /\ granted = {}
    /\ pc = [w \in Workers |-> "idle"]
    /\ msg = [w \in Workers |-> None]
    /\ pos = [w \in Workers |-> 1]
    /\ seen = [w \in Workers |-> {}]
    /\ inserted = [w \in Workers |-> {}]
    /\ done = {}
    /\ failed = {}
    /\ calls = 0
    /\ faults = 0

\* A message arrives, for the first time or again; its transaction's first
\* SELECT takes the snapshot.
Consume(w) ==
    /\ pc[w] = "idle"
    /\ calls < MaxCalls
    /\ \E e \in Events : msg' = [msg EXCEPT ![w] = e]
    /\ pc' = [pc EXCEPT ![w] = "row"]
    /\ pos' = [pos EXCEPT ![w] = 1]
    /\ seen' = [seen EXCEPT ![w] = granted]
    /\ calls' = calls + 1
    /\ UNCHANGED <<granted, inserted, done, failed, faults>>

Row(w) == Rows[msg[w]][pos[w]]

\* Mutant: the loop runs one row too far.
AdvanceBeyond(w) ==
    /\ pos' = [pos EXCEPT ![w] = @ + 1]
    /\ pc' = [pc EXCEPT ![w] = IF pos[w] > Len(Rows[msg[w]]) THEN "commit" ELSE "row"]
    /\ UNCHANGED <<granted, msg, seen, done, failed, calls, faults>>

\* FirstOrCreate finds the row, or inserts it; then the next one is due.
Advance(w) ==
    /\ pos' = [pos EXCEPT ![w] = @ + 1]
    /\ pc' = [pc EXCEPT ![w] = IF pos[w] = Len(Rows[msg[w]]) THEN "commit" ELSE "row"]
    /\ UNCHANGED <<granted, msg, seen, done, failed, calls, faults>>

Found(w) ==
    /\ pc[w] = "row"
    /\ Row(w) \in seen[w] \cup inserted[w]
    /\ Advance(w)
    /\ UNCHANGED inserted

\* The transactions that have inserted row r and not ended yet.
Holders(r) == {v \in Workers : r \in inserted[v]}

Wants(w, v) == pc[w] = "row" /\ Row(w) \notin seen[w] /\ v # w /\ v \in Holders(Row(w))

\* Mutant: the rows have no unique index.
InsertAnyRow(w) ==
    /\ pc[w] = "row"
    /\ Row(w) \notin seen[w] \cup inserted[w]
    /\ inserted' = [inserted EXCEPT ![w] = @ \cup {Row(w)}]
    /\ Advance(w)

Insert(w) ==
    /\ pc[w] = "row"
    /\ Row(w) \notin seen[w] \cup inserted[w]
    /\ Row(w) \notin granted
    /\ Holders(Row(w)) = {}
    /\ inserted' = [inserted EXCEPT ![w] = @ \cup {Row(w)}]
    /\ Advance(w)

\* The transaction ends, and with it its locks.
End(w) ==
    /\ pc' = [pc EXCEPT ![w] = "idle"]
    /\ seen' = [seen EXCEPT ![w] = {}]
    /\ inserted' = [inserted EXCEPT ![w] = {}]
    /\ UNCHANGED <<msg, pos, calls>>

\* Mutant: the rows are created one by one, without a transaction.
DuplicateNotRolledBack(w) ==
    /\ pc[w] = "row"
    /\ Row(w) \notin seen[w]
    /\ Row(w) \in granted
    /\ failed' = failed \cup {msg[w]}
    /\ granted' = granted \cup inserted[w]
    /\ End(w)
    /\ UNCHANGED <<done, faults>>

\* Mutant: after a unique index error the transaction selects again.
DuplicateRetried(w) ==
    /\ pc[w] = "row"
    /\ Row(w) \notin seen[w]
    /\ Row(w) \in granted
    /\ UNCHANGED vars

\* Somebody else has committed the row since the snapshot was taken: the
\* unique index refuses it and the transaction rolls back.
Duplicate(w) ==
    /\ pc[w] = "row"
    /\ Row(w) \notin seen[w]
    /\ Row(w) \in granted
    /\ failed' = failed \cup {msg[w]}
    /\ End(w)
    /\ UNCHANGED <<granted, done, faults>>

\* Transactions wait for each other's rows, in a ring: MySQL rolls one of them
\* back.
Deadlock(w) ==
    /\ \E ring \in SUBSET Workers :
         /\ w \in ring
         /\ \A v \in ring : (\E x \in ring : Wants(v, x)) /\ (\E x \in ring : Wants(x, v))
    /\ failed' = failed \cup {msg[w]}
    /\ End(w)
    /\ UNCHANGED <<granted, done, faults>>

Commit(w) ==
    /\ pc[w] = "commit"
    /\ granted' = granted \cup inserted[w]
    /\ done' = done \cup {msg[w]}
    /\ End(w)
    /\ UNCHANGED <<failed, faults>>

\* Another database error: rolled back, logged, and the message is gone.
DBError(w) ==
    /\ pc[w] # "idle"
    /\ faults < MaxFaults
    /\ faults' = faults + 1
    /\ End(w)
    /\ UNCHANGED <<granted, done, failed>>

CreatePersonalPermission(w) ==
    Found(w) \/ Insert(w) \/ Duplicate(w) \/ Deadlock(w) \/ Commit(w)

Next == \E w \in Workers : Consume(w) \/ CreatePersonalPermission(w) \/ DBError(w)

Spec == Init /\ [][Next]_vars

-----------------------------------------------------------------------------
(***************************************************************************)
(* Properties.                                                             *)
(***************************************************************************)

\* Goroutines are at a row of the event they handle.
TypeOK ==
    /\ granted \subseteq UNION {RowsOf(e) : e \in Events}
    /\ pc \in [Workers -> {"idle", "row", "commit"}]
    /\ msg \in [Workers -> Events \cup {None}]
    /\ \A w \in Workers :
         /\ pc[w] = "row" => msg[w] \in Events /\ pos[w] \in 1 .. Len(Rows[msg[w]])
         /\ inserted[w] # {} => inserted[w] \subseteq RowsOf(msg[w])
    /\ done \subseteq Events
    /\ failed \subseteq Events

\* All of an event's permissions are granted, or none on its account: what is
\* there is what the successful events name, however transactions collide.
GrantsAreWhole == granted = UNION {RowsOf(e) : e \in done}

\* No row is inserted by two transactions, committed or not: HasPermission
\* counts rows.
InsertedOnce ==
    \A w \in Workers :
        /\ inserted[w] \cap granted = {}
        /\ \A v \in Workers \ {w} : inserted[w] \cap inserted[v] = {}

=============================================================================
