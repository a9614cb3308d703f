------------------------------- MODULE Member -------------------------------
(***************************************************************************)
(* The member (会员) module: one Member row per user with the end of the    *)
(* membership, one MemberRecord row per idempotence key.  Consumers of     *)
(* member_update_events, several when several instances of the program     *)
(* run, extend a membership in a transaction guarded by the row's Version, *)
(* repeated until no other transaction has interfered.                     *)
(*                                                                         *)
(* Time is counted in days: EndAt is the last second of a day plus whole   *)
(* days.  Every attempt looks at the clock first, reads the row, and       *)
(* writes; the day may change, and others may commit, between any of these.*)
(***************************************************************************)
EXTENDS Integers, FiniteSets, KeySum

CONSTANTS
    Users,       \* uid
    Keys,        \* MemberRecord.Key
    Event,       \* Keys -> [uid, days]: the event sent with each key
    Workers,     \* goroutines that consume member events
    FirstDay,    \* the day at which the run starts; 0 lies before it
    LastDay,     \* bound: the day after which the clock stands still
    MaxCalls,    \* bound: deliveries of messages
    MaxFaults,   \* bound: database errors
    NoRow        \* the absence of a record

VARIABLES
    member,   \* the Member row of each user; version 0: there is no row
    record,   \* the MemberRecord row with each key, or NoRow
    today,    \* the current day
    pc,       \* where each goroutine is
    msg,      \* the key of the event it handles, or handled last
    day,      \* the day its running attempt has seen on the clock
    snap,     \* the Member row its running attempt has read
    calls,    \* deliveries so far
    faults    \* errors so far

vars == <<member, record, today, pc, msg, day, snap, calls, faults>>

MemberRow == [end : Nat, version : Nat]
NoMember == [end |-> 0, version |-> 0]

RecordRow == [uid : Users, days : Nat, day : Nat]

ASSUME MemberAssumption ==
    /\ IsFiniteSet(Keys)
    /\ Event \in [Keys -> [uid : Users, days : Nat]]
    /\ FirstDay \in Nat
    /\ LastDay \in Nat
    /\ MaxCalls \in Nat
    /\ MaxFaults \in Nat
    /\ NoRow \notin RecordRow
    /\ NoRow \notin Keys

Init ==
    /\ member = [u \in Users |-> NoMember]
    /\ record = [k \in Keys |-> NoRow]
    /\ today = FirstDay
    /\ pc = [w \in Workers |-> "idle"]
    /\ msg = [w \in Workers |-> NoRow]
    /\ day = [w \in Workers |-> 0]
    /\ snap = [w \in Workers |-> NoMember]
    /\ calls = 0
    /\ faults = 0

Owner(w) == Event[msg[w]].uid
Days(w) == Event[msg[w]].days

\* Mutant: a message that cannot be parsed is handled like any other.
ConsumeUnparsed(w) ==
    /\ pc[w] = "idle"
    /\ calls < MaxCalls
    /\ pc' = [pc EXCEPT ![w] = "clock"]
    /\ calls' = calls + 1
    /\ UNCHANGED <<member, record, today, msg, day, snap, faults>>

\* A message arrives, for the first time or again.
Consume(w) ==
    /\ pc[w] = "idle"
    /\ calls < MaxCalls
    /\ \E k \in Keys : msg' = [msg EXCEPT ![w] = k]
    /\ pc' = [pc EXCEPT ![w] = "clock"]
    /\ calls' = calls + 1
    /\ UNCHANGED <<member, record, today, day, snap, faults>>

Clock(w) ==
    /\ pc[w] = "clock"
    /\ day' = [day EXCEPT ![w] = today]
    /\ pc' = [pc EXCEPT ![w] = "read"]
    /\ UNCHANGED <<member, record, today, msg, snap, calls, faults>>

\* FirstOrCreate's SELECT.
Read(w) ==
    /\ pc[w] = "read"
    /\ snap' = [snap EXCEPT ![w] = member[Owner(w)]]
    /\ pc' = [pc EXCEPT ![w] = "write"]
    /\ UNCHANGED <<member, record, today, msg, day, calls, faults>>

\* The transaction is over, the goroutine goes to pc label next.  What it has
\* seen is forgotten.
Leave(w, next) ==
    /\ pc' = [pc EXCEPT ![w] = next]
    /\ day' = [day EXCEPT ![w] = 0]
    /\ snap' = [snap EXCEPT ![w] = NoMember]
    /\ UNCHANGED <<today, msg, calls>>

\* Mutant: INSERT replaced by an upsert, UPDATE without WHERE version.
VersionIgnored(w) == TRUE

\* Nobody has created or updated the row since it was read.
VersionMatches(w) == member[Owner(w)].version = snap[w].version

\* Mutant: a membership that has run out is extended from where it ended.
EndAtRenewed(w) == snap[w].end + Days(w)

\* A new or expired membership starts today, another one is prolonged.
EndAt(w) == (IF snap[w].end < day[w] THEN day[w] ELSE snap[w].end) + Days(w)

NewRecord(w) == [uid |-> Owner(w), days |-> Days(w), day |-> day[w]]

\* Mutant: the records have no unique key.
CommitAnyKey(w) ==
    /\ pc[w] = "write"
    /\ VersionMatches(w)
    /\ member' = [member EXCEPT ![Owner(w)] = [end |-> EndAt(w), version |-> snap[w].version + 1]]
    /\ record' = [record EXCEPT ![msg[w]] = NewRecord(w)]
    /\ Leave(w, "idle")
    /\ UNCHANGED faults

Commit(w) ==
    /\ pc[w] = "write"
    /\ VersionMatches(w)
    /\ record[msg[w]] = NoRow
    /\ member' = [member EXCEPT ![Owner(w)] = [end |-> EndAt(w), version |-> snap[w].version + 1]]
    /\ record' = [record EXCEPT ![msg[w]] = NewRecord(w)]
    /\ Leave(w, "idle")
    /\ UNCHANGED faults

\* The key is taken: the update of the Member row is rolled back with the
\* record, and the consumer swallows the error.
Duplicate(w) ==
    /\ pc[w] = "write"
    /\ VersionMatches(w)
    /\ record[msg[w]] # NoRow
    /\ Leave(w, "idle")
    /\ UNCHANGED <<member, record, faults>>

\* Mutant: the loop writes again what it has read before.
ConflictUnread(w) ==
    /\ pc[w] = "write"
    /\ ~VersionMatches(w)
    /\ UNCHANGED vars

\* ErrCreateMemberConflict, ErrUpdateMemberConflict: the loop starts again.
Conflict(w) ==
    /\ pc[w] = "write"
    /\ ~VersionMatches(w)
    /\ Leave(w, "clock")
    /\ UNCHANGED <<member, record, faults>>

\* A statement fails: the transaction rolls back, the message is dropped.
DBError(w) ==
    /\ pc[w] # "idle"
    /\ faults < MaxFaults
    /\ faults' = faults + 1
    /\ Leave(w, "idle")
    /\ UNCHANGED <<member, record>>

Midnight ==
    /\ today < LastDay
    /\ today' = today + 1
    /\ UNCHANGED <<member, record, pc, msg, day, snap, calls, faults>>

Upsert(w) == Clock(w) \/ Read(w) \/ Commit(w) \/ Duplicate(w) \/ Conflict(w)

Next ==
    \/ \E w \in Workers : Consume(w) \/ Upsert(w) \/ DBError(w)
    \/ Midnight

Spec == Init /\ [][Next]_vars

-----------------------------------------------------------------------------
(***************************************************************************)
(* Properties.                                                             *)
(***************************************************************************)

\* Rows have their types, and a goroutine that is busy handles an event.
TypeOK ==
    /\ member \in [Users -> MemberRow]
    /\ record \in [Keys -> RecordRow \cup {NoRow}]
    /\ today \in Nat
    /\ pc \in [Workers -> {"idle", "clock", "read", "write"}]
    /\ msg \in [Workers -> Keys \cup {NoRow}]
    /\ day \in [Workers -> Nat]
    /\ snap \in [Workers -> MemberRow]
    /\ calls \in Nat
    /\ faults \in Nat
    /\ \A w \in Workers : pc[w] # "idle" => msg[w] \in Keys

Records(u) == {k \in Keys : record[k] # NoRow /\ record[k].uid = u}

\* The records of user u that count from day t on, and their days.
Since(u, t) == {k \in Records(u) : record[k].day >= t}
DaysSince(u, t) ==
    SumOver([k \in Keys |-> IF k \in Since(u, t) THEN record[k].days ELSE 0], Keys)

\* Every day paid for is served: from any day on, a membership lasts for at
\* least the days of all that was bought since.  Two consumers that extend the
\* same membership at once, or at midnight, or in the wrong order, would lose
\* one of the extensions.
EveryDayCounts ==
    \A u \in Users : \A t \in 0 .. today :
        Since(u, t) # {} => member[u].end >= t + DaysSince(u, t)

\* And nothing else is: a membership ends no later than all its days after
\* the day of one of its records, so no event was counted twice.
OnlyPaidDays ==
    \A u \in Users : member[u].version # 0 =>
        \E k \in Records(u) : member[u].end <= record[k].day + DaysSince(u, 0)

\* The racing transactions look like single steps of the ledger.
Ledger == INSTANCE MemberLedger WITH
    last  <- [u \in Users |-> member[u].end],
    entry <- record

LedgerImplemented == Ledger!LedgerSpec

=============================================================================
