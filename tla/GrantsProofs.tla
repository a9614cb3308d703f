---------------------------- MODULE GrantsProofs ----------------------------
(***************************************************************************)
(* Proofs about Member and Permission, and of what the run of MCGrants     *)
(* checks of them.                                                         *)
(***************************************************************************)
EXTENDS MCGrants, Sequences, TLAPS

-----------------------------------------------------------------------------
(***************************************************************************)
(* Proofs, for any number of users, keys, goroutines, days and faults.  A  *)
(* commit writes what it computed from a row read earlier: MemberInv says  *)
(* that a row whose version still matches is the current one, and that no  *)
(* goroutine has seen a day that has not come.                             *)
(***************************************************************************)
RowsReadAgree ==
    \A w \in Workers :
        /\ pc[w] = "write" =>
              /\ snap[w].version <= member[Owner(w)].version
              /\ snap[w].version = member[Owner(w)].version => snap[w] = member[Owner(w)]
        /\ pc[w] \in {"read", "write"} => day[w] <= today

MemberInv == TypeOK /\ RowsReadAgree

\* The event that a busy goroutine handles.
LEMMA EventType ==
    ASSUME TypeOK, NEW w \in Workers, pc[w] # "idle"
    PROVE  msg[w] \in Keys /\ Owner(w) \in Users /\ Days(w) \in Nat
BY MemberAssumption DEF TypeOK, Owner, Days

\* What a commit writes is a row, and the record of a day.
LEMMA CommitType ==
    ASSUME TypeOK, NEW w \in Workers, Commit(w)
    PROVE  /\ [end |-> EndAt(w), version |-> snap[w].version + 1] \in MemberRow
           /\ NewRecord(w) \in RecordRow
<1>1. Owner(w) \in Users /\ Days(w) \in Nat
  BY EventType DEF Commit
<1>2. snap[w] \in MemberRow /\ day[w] \in Nat
  BY DEF TypeOK
<1>3. snap[w].end \in Nat /\ snap[w].version \in Nat
  BY <1>2 DEF MemberRow
<1>4. EndAt(w) \in Nat
  BY <1>1, <1>2, <1>3 DEF EndAt
<1> QED
  BY <1>1, <1>2, <1>3, <1>4 DEF MemberRow, NewRecord, RecordRow

\* Leaving a transaction keeps the types of what a goroutine has seen.
LEMMA LeaveType ==
    ASSUME TypeOK, NEW w \in Workers, NEW next \in {"idle", "clock"}, Leave(w, next),
           pc[w] # "idle"
    PROVE  /\ today' \in Nat /\ calls' \in Nat
           /\ pc' \in [Workers -> {"idle", "clock", "read", "write"}]
           /\ msg' \in [Workers -> Keys \cup {NoRow}]
           /\ day' \in [Workers -> Nat]
           /\ snap' \in [Workers -> MemberRow]
           /\ \A v \in Workers : pc'[v] # "idle" => msg'[v] \in Keys
<1>1. NoMember \in MemberRow
  BY DEF NoMember, MemberRow
<1>2. \A v \in Workers : pc'[v] # "idle" => pc[v] # "idle"
  BY DEF Leave, TypeOK
<1> QED
  BY <1>1, <1>2 DEF Leave, TypeOK

LEMMA TypeNext == TypeOK /\ [Next]_vars => TypeOK'
<1> SUFFICES ASSUME TypeOK, [Next]_vars PROVE TypeOK'
  OBVIOUS
<1>1. ASSUME NEW w \in Workers, Consume(w)
      PROVE  TypeOK'
  BY <1>1 DEF Consume, TypeOK
<1>2. ASSUME NEW w \in Workers, Clock(w)
      PROVE  TypeOK'
  BY <1>2 DEF Clock, TypeOK
<1>3. ASSUME NEW w \in Workers, Read(w)
      PROVE  TypeOK'
  <2>1. member[Owner(w)] \in MemberRow
    BY <1>3, EventType DEF Read, TypeOK
  <2> QED
    BY <1>3, <2>1 DEF Read, TypeOK
<1>4. ASSUME NEW w \in Workers, Commit(w)
      PROVE  TypeOK'
  <2>1. msg[w] \in Keys /\ Owner(w) \in Users /\ pc[w] # "idle"
    BY <1>4, EventType DEF Commit
  <2>2. member' \in [Users -> MemberRow] /\ record' \in [Keys -> RecordRow \cup {NoRow}]
    BY <1>4, <2>1, CommitType DEF Commit, TypeOK
  <2>3. Leave(w, "idle") /\ faults' = faults
    BY <1>4 DEF Commit
  <2> QED
    BY <2>1, <2>2, <2>3, LeaveType DEF TypeOK
<1>5. ASSUME NEW w \in Workers, Duplicate(w) \/ Conflict(w) \/ DBError(w)
      PROVE  TypeOK'
  <2>1. /\ pc[w] # "idle"
        /\ \E next \in {"idle", "clock"} : Leave(w, next)
        /\ member' = member /\ record' = record
        /\ faults' = faults \/ faults' = faults + 1
    BY <1>5 DEF Duplicate, Conflict, DBError
  <2> QED
    BY <2>1, LeaveType DEF TypeOK
<1>6. ASSUME Midnight \/ UNCHANGED vars
      PROVE  TypeOK'
  BY <1>6 DEF Midnight, vars, TypeOK
<1> QED
  BY <1>1, <1>2, <1>3, <1>4, <1>5, <1>6 DEF Next, Upsert

\* A goroutine that leaves has seen nothing; of the others nothing changes.
LEMMA OthersAgree ==
    ASSUME TypeOK, RowsReadAgree, NEW w \in Workers, NEW next \in {"idle", "clock"},
           Leave(w, next), member' = member
    PROVE  RowsReadAgree'
BY DEF Leave, TypeOK, RowsReadAgree, Owner

LEMMA RowsReadNext ==
    ASSUME MemberInv, [Next]_vars
    PROVE  RowsReadAgree'
<1> USE DEF MemberInv
<1>1. ASSUME NEW w \in Workers, Consume(w)
      PROVE  RowsReadAgree'
  BY <1>1 DEF Consume, TypeOK, RowsReadAgree, Owner
<1>2. ASSUME NEW w \in Workers, Clock(w)
      PROVE  RowsReadAgree'
  BY <1>2 DEF Clock, TypeOK, RowsReadAgree, Owner
<1>3. ASSUME NEW w \in Workers, Read(w)
      PROVE  RowsReadAgree'
  <2>1. member[Owner(w)] \in MemberRow
    BY <1>3, EventType DEF Read, TypeOK
  <2>2. member[Owner(w)].version <= member[Owner(w)].version
    BY <2>1 DEF MemberRow
  <2> QED
    BY <1>3, <2>2 DEF Read, TypeOK, RowsReadAgree, Owner
<1>4. ASSUME NEW w \in Workers, Commit(w)
      PROVE  RowsReadAgree'
  <2>1. pc[w] = "write" /\ Owner(w) \in Users /\ snap[w] = member[Owner(w)]
    BY <1>4, EventType DEF Commit, VersionMatches, RowsReadAgree
  <2>2. ASSUME NEW v \in Workers, pc'[v] \in {"read", "write"}
        PROVE  v # w /\ pc'[v] = pc[v] /\ snap'[v] = snap[v] /\ msg' = msg /\ day'[v] = day[v]
    BY <1>4, <2>2 DEF Commit, Leave, TypeOK
  <2>3. ASSUME NEW v \in Workers, pc'[v] \in {"read", "write"}
        PROVE  day'[v] <= today'
    BY <1>4, <2>2, <2>3 DEF Commit, Leave, RowsReadAgree
  <2>4. ASSUME NEW v \in Workers, pc'[v] = "write"
        PROVE  /\ snap'[v].version <= member'[Owner(v)'].version
               /\ snap'[v].version = member'[Owner(v)'].version => snap'[v] = member'[Owner(v)']
    <3>1. Owner(v)' = Owner(v) /\ snap'[v] = snap[v] /\ pc[v] = "write"
      BY <2>2, <2>4 DEF Owner
    <3>2. Owner(v) \in Users
      BY <3>1, EventType
    <3>3. /\ snap[v].version \in Nat
          /\ member[Owner(v)].version \in Nat
          /\ member[Owner(w)].version \in Nat
      BY <2>1, <3>2 DEF TypeOK, MemberRow
    <3>4. CASE Owner(v) = Owner(w)
      <4>1. member'[Owner(v)].version = member[Owner(v)].version + 1
        BY <1>4, <2>1, <3>2, <3>4 DEF Commit, TypeOK
      <4> QED
        BY <3>1, <3>3, <4>1 DEF RowsReadAgree
    <3>5. CASE Owner(v) # Owner(w)
      <4>1. member'[Owner(v)] = member[Owner(v)]
        BY <1>4, <3>2, <3>5 DEF Commit, TypeOK
      <4> QED
        BY <3>1, <4>1 DEF RowsReadAgree
    <3> QED
      BY <3>4, <3>5
  <2> QED
    BY <2>3, <2>4 DEF RowsReadAgree
<1>5. ASSUME NEW w \in Workers, Duplicate(w) \/ Conflict(w) \/ DBError(w)
      PROVE  RowsReadAgree'
  BY <1>5, OthersAgree DEF Duplicate, Conflict, DBError
<1>6. CASE Midnight
  BY <1>6 DEF Midnight, TypeOK, RowsReadAgree, Owner
<1>7. CASE UNCHANGED vars
  BY <1>7 DEF vars, RowsReadAgree, Owner
<1> QED
  BY <1>1, <1>2, <1>3, <1>4, <1>5, <1>6, <1>7 DEF Next, Upsert

THEOREM MemberInvariant == Spec => []MemberInv
<1>1. Init => MemberInv
  BY MemberAssumption DEF Init, MemberInv, TypeOK, RowsReadAgree, NoMember, MemberRow
<1>2. MemberInv /\ [Next]_vars => MemberInv'
  BY TypeNext, RowsReadNext DEF MemberInv
<1> QED
  BY <1>1, <1>2, PTL DEF Spec

\* A commit is an extension on the day the attempt saw on the clock.
LEMMA CommitExtends ==
    ASSUME MemberInv, NEW w \in Workers, Commit(w)
    PROVE  Ledger!Extend(msg[w], day[w]) /\ msg[w] \in Keys /\ day[w] \in 0 .. today
<1> DEFINE last == [u \in Users |-> member[u].end]
<1>1. msg[w] \in Keys /\ Owner(w) \in Users /\ Days(w) \in Nat /\ pc[w] = "write"
  BY EventType DEF Commit, MemberInv
<1>2. snap[w] = member[Owner(w)] /\ day[w] <= today
  BY <1>1 DEF Commit, VersionMatches, MemberInv, RowsReadAgree
<1>3. day[w] \in 0 .. today
  BY <1>2 DEF MemberInv, TypeOK
<1>4. record' = [record EXCEPT ![msg[w]] = [uid |-> Event[msg[w]].uid, days |-> Event[msg[w]].days,
                                             day |-> day[w]]]
  BY DEF Commit, NewRecord, Owner, Days
<1>5. member'[Owner(w)].end = EndAt(w) /\ \A u \in Users \ {Owner(w)} : member'[u] = member[u]
  BY <1>1 DEF Commit, MemberInv, TypeOK
<1>6. EndAt(w) = Ledger!Extended(last[Owner(w)], day[w], Days(w))
  BY <1>1, <1>2 DEF EndAt, Ledger!Extended
<1>7. [u \in Users |-> member'[u].end]
        = [last EXCEPT ![Owner(w)] = Ledger!Extended(last[Owner(w)], day[w], Days(w))]
  BY <1>1, <1>5, <1>6
<1>8. record[msg[w]] = NoRow /\ today' = today
  BY DEF Commit, Leave
<1> QED
  BY <1>1, <1>2, <1>3, <1>4, <1>7, <1>8 DEF Ledger!Extend, Owner, Days

\* No extension is lost, repeated or computed from a row that is out of date,
\* by any number of consumers on any number of days: upsert is the single
\* step that the ledger promises.
THEOREM MemberImplementsLedger == Spec => LedgerImplemented
<1>1. Init => Ledger!LedgerInit
  BY MemberAssumption DEF Init, Ledger!LedgerInit, NoMember
<1>2. MemberInv /\ [Next]_vars => [Ledger!LedgerNext]_(Ledger!ledgerVars)
  <2> SUFFICES ASSUME MemberInv, [Next]_vars
               PROVE  Ledger!LedgerNext \/ UNCHANGED Ledger!ledgerVars
    OBVIOUS
  <2>1. ASSUME NEW w \in Workers, Commit(w)
        PROVE  Ledger!LedgerNext
    BY <2>1, CommitExtends DEF Ledger!LedgerNext, Ledger!Extend
  <2>2. CASE Midnight
    BY <2>2 DEF Midnight, Ledger!LedgerNext, Ledger!Midnight
  <2>3. CASE member' = member /\ record' = record /\ today' = today
    BY <2>3 DEF Ledger!ledgerVars
  <2> QED
    BY <2>1, <2>2, <2>3 DEF Next, Upsert, Consume, Clock, Read, Duplicate, Conflict, DBError,
                            Leave, vars
<1> QED
  BY <1>1, <1>2, MemberInvariant, PTL DEF Spec, LedgerImplemented, Ledger!LedgerSpec

(* The days served. *)

Counted(u, t) == [k \in Keys |-> IF k \in Since(u, t) THEN record[k].days ELSE 0]

\* Records are of days that have come, and who has no row has no days.
DaysInv ==
    /\ MemberInv
    /\ \A k \in Keys : record[k] # NoRow => record[k].day <= today
    /\ \A u \in Users : member[u].version = 0 => member[u].end = 0
    /\ EveryDayCounts
    /\ OnlyPaidDays

LEMMA CountedType ==
    ASSUME TypeOK, NEW u \in Users, NEW t \in Nat
    PROVE  /\ \A k \in Keys : Counted(u, t)[k] \in Nat
           /\ DaysSince(u, t) = SumOver(Counted(u, t), Keys)
           /\ DaysSince(u, t) \in Nat
<1>1. \A k \in Keys : record[k] # NoRow => record[k] \in RecordRow
  BY DEF TypeOK
<1>2. \A k \in Keys : Counted(u, t)[k] \in Nat
  BY <1>1 DEF Counted, Since, Records, RecordRow
<1>3. DaysSince(u, t) = SumOver(Counted(u, t), Keys)
  BY DEF DaysSince, Counted
<1>4. SumOver(Counted(u, t), Keys) \in Nat
  BY <1>2, SumType, MemberAssumption
<1> QED
  BY <1>2, <1>3, <1>4

\* A commit counts for its user, from every day up to its own.
LEMMA CommitCounts ==
    ASSUME TypeOK, NEW w \in Workers, Commit(w), NEW u \in Users, NEW t \in Nat
    PROVE  LET counts == u = Owner(w) /\ t <= day[w]
           IN  /\ Since(u, t)' = IF counts THEN Since(u, t) \cup {msg[w]} ELSE Since(u, t)
               /\ DaysSince(u, t)' = IF counts THEN DaysSince(u, t) + Days(w) ELSE DaysSince(u, t)
<1> DEFINE counts == u = Owner(w) /\ t <= day[w]
           k == msg[w]
           f == Counted(u, t)
           g == [j \in Keys |-> IF j \in Since(u, t)' THEN record'[j].days ELSE 0]
<1>1. k \in Keys /\ Owner(w) \in Users /\ Days(w) \in Nat /\ record[k] = NoRow
  BY EventType DEF Commit
<1>2. day[w] \in Nat
  BY DEF TypeOK
<1>3. NewRecord(w) \in RecordRow /\ NewRecord(w) # NoRow
  BY CommitType, MemberAssumption
<1>4. record' = [record EXCEPT ![k] = NewRecord(w)]
  BY DEF Commit
<1>5. /\ NewRecord(w).uid = Owner(w) /\ NewRecord(w).days = Days(w) /\ NewRecord(w).day = day[w]
      /\ record'[k] = NewRecord(w) /\ \A j \in Keys \ {k} : record'[j] = record[j]
  BY <1>1, <1>4 DEF NewRecord, TypeOK
<1>6. Since(u, t)' = IF counts THEN Since(u, t) \cup {k} ELSE Since(u, t)
  <2>1. k \notin Since(u, t)
    BY <1>1 DEF Since, Records
  <2>2. k \in Since(u, t)' <=> counts
    BY <1>1, <1>2, <1>3, <1>5 DEF Since, Records
  <2>3. \A j \in Keys \ {k} : j \in Since(u, t)' <=> j \in Since(u, t)
    BY <1>5 DEF Since, Records
  <2>4. Since(u, t) \subseteq Keys /\ Since(u, t)' \subseteq Keys
    BY DEF Since, Records
  <2> QED
    BY <1>1, <2>1, <2>2, <2>3, <2>4
<1>7. TypeOK'
  BY TypeNext DEF Next, Upsert
<1>8. /\ \A j \in Keys : f[j] \in Nat /\ g[j] \in Nat
      /\ DaysSince(u, t) = SumOver(f, Keys) /\ DaysSince(u, t)' = SumOver(g, Keys)
      /\ DaysSince(u, t) \in Nat
  <2>1. /\ \A j \in Keys : g[j] \in Nat
        /\ DaysSince(u, t)' = SumOver(g, Keys)
    <3>1. \A j \in Keys : record'[j] # NoRow => record'[j] \in RecordRow
      BY <1>7 DEF TypeOK
    <3>2. \A j \in Keys : g[j] \in Nat
      BY <3>1 DEF Since, Records, RecordRow
    <3> QED
      BY <3>2 DEF DaysSince
  <2> QED
    BY <2>1, CountedType
<1>9. f[k] = 0 /\ g[k] = (IF counts THEN Days(w) ELSE 0) /\ \A j \in Keys \ {k} : g[j] = f[j]
  BY <1>1, <1>5, <1>6 DEF Counted, Since, Records
<1>10. SumOver(g, Keys) = SumOver(f, Keys) + g[k] - f[k]
  <2>1. IsFiniteSet(Keys) /\ k \in Keys
    BY <1>1, MemberAssumption
  <2>2. (\A j \in Keys : f[j] \in Nat) /\ (\A j \in Keys : g[j] \in Nat)
    BY <1>8
  <2>3. \A j \in Keys \ {k} : g[j] = f[j]
    BY <1>9
  <2> HIDE DEF f, g, k
  <2> QED BY <2>1, <2>2, <2>3, SumChange
<1> QED
  BY <1>1, <1>6, <1>8, <1>9, <1>10

\* Nothing else touches the records.
LEMMA OthersCount ==
    ASSUME record' = record, NEW u, NEW t
    PROVE  Since(u, t)' = Since(u, t) /\ DaysSince(u, t)' = DaysSince(u, t) /\ Records(u)' = Records(u)
BY DEF Since, DaysSince, Records

LEMMA CommitKeepsDays ==
    ASSUME DaysInv, NEW w \in Workers, Commit(w)
    PROVE  EveryDayCounts' /\ OnlyPaidDays'
<1> DEFINE k == msg[w]
           o == Owner(w)
           n == Days(w)
           d == day[w]
<1>1. k \in Keys /\ o \in Users /\ n \in Nat /\ pc[w] = "write" /\ record[k] = NoRow
  BY EventType DEF Commit, DaysInv, MemberInv
<1>2. snap[w] = member[o] /\ d <= today /\ d \in Nat /\ today \in Nat /\ today' = today
  BY <1>1 DEF Commit, Leave, VersionMatches, DaysInv, MemberInv, RowsReadAgree, TypeOK
<1>3. member[o].end \in Nat /\ \A u \in Users : member[u] \in MemberRow
  BY <1>1 DEF DaysInv, MemberInv, TypeOK, MemberRow
<1>4. /\ member'[o].end = (IF member[o].end < d THEN d ELSE member[o].end) + n
      /\ \A u \in Users \ {o} : member'[u] = member[u]
  BY <1>1, <1>2 DEF Commit, EndAt, DaysInv, MemberInv, TypeOK
<1>5. ASSUME NEW u \in Users, NEW t \in 0 .. today, Since(u, t)' # {}
      PROVE  member'[u].end >= t + DaysSince(u, t)'
  <2>1. t \in Nat /\ DaysSince(u, t) \in Nat
    BY <1>2, CountedType DEF DaysInv, MemberInv
  <2>2. Since(u, t) # {} => member[u].end >= t + DaysSince(u, t)
    BY <1>5 DEF DaysInv, EveryDayCounts
  <2>3. CASE u = o /\ t <= d
    <3>1. DaysSince(u, t)' = DaysSince(u, t) + n
      BY <2>1, <2>3, CommitCounts DEF DaysInv, MemberInv
    <3>2. Since(u, t) = {} => DaysSince(u, t) = 0
      <4>1. Since(u, t) = {} => \A j \in Keys : Counted(u, t)[j] = 0
        BY DEF Counted
      <4> QED
        BY <2>1, <4>1, CountedType, SumZero DEF DaysInv, MemberInv
    <3> QED
      BY <1>1, <1>2, <1>3, <1>4, <2>1, <2>2, <2>3, <3>1, <3>2
  <2>4. CASE ~(u = o /\ t <= d)
    <3>1. DaysSince(u, t)' = DaysSince(u, t) /\ Since(u, t) # {}
      BY <1>5, <2>1, <2>4, CommitCounts DEF DaysInv, MemberInv
    <3>2. member'[u].end >= member[u].end /\ member[u].end \in Nat /\ member'[u].end \in Nat
      BY <1>1, <1>2, <1>3, <1>4 DEF MemberRow
    <3> QED
      BY <2>1, <2>2, <3>1, <3>2
  <2> QED
    BY <2>3, <2>4
<1>6. ASSUME NEW u \in Users, member'[u].version # 0
      PROVE  \E j \in Records(u)' : member'[u].end <= record'[j].day + DaysSince(u, 0)'
  <2>1. DaysSince(u, 0) \in Nat
    BY CountedType DEF DaysInv, MemberInv
  <2>2. \A j \in Keys \ {k} : record'[j] = record[j]
    BY <1>1 DEF Commit, DaysInv, MemberInv, TypeOK
  <2>3. k \notin Records(u)
    BY <1>1 DEF Records
  <2>4. Records(u) \subseteq Records(u)'
    BY <2>2, <2>3 DEF Records
  <2>5. ASSUME NEW j \in Records(u), member[u].end <= record[j].day + DaysSince(u, 0)
        PROVE  record'[j] = record[j] /\ record[j].day \in Nat
    <3>1. j \in Keys \ {k} /\ record[j] # NoRow
      BY <2>3 DEF Records
    <3> QED
      BY <2>2, <3>1 DEF DaysInv, MemberInv, TypeOK, RecordRow
  <2>6. CASE u # o
    <3>1. PICK j \in Records(u) : member[u].end <= record[j].day + DaysSince(u, 0)
      BY <1>4, <1>6, <2>6 DEF DaysInv, OnlyPaidDays
    <3>2. DaysSince(u, 0)' = DaysSince(u, 0)
      BY <2>6, CommitCounts DEF DaysInv, MemberInv
    <3> QED
      BY <1>4, <2>4, <2>5, <2>6, <3>1, <3>2
  <2>7. CASE u = o
    <3>1. DaysSince(u, 0)' = DaysSince(u, 0) + n
      BY <1>2, <2>7, CommitCounts DEF DaysInv, MemberInv
    <3>2. CASE member[o].end < d \/ member[o].version = 0
      <4>1. member'[o].end = d + n
        <5>1. member[o].version = 0 => member[o].end = 0
          BY <1>1 DEF DaysInv
        <5> QED
          BY <1>1, <1>2, <1>3, <1>4, <3>2, <5>1
      <4>2. record'[k] = NewRecord(w) /\ NewRecord(w).uid = o /\ NewRecord(w).day = d
        BY <1>1 DEF Commit, NewRecord, DaysInv, MemberInv, TypeOK
      <4>3. NewRecord(w) # NoRow
        BY CommitType, MemberAssumption DEF DaysInv, MemberInv
      <4>4. k \in Records(u)'
        BY <1>1, <2>7, <4>2, <4>3 DEF Records
      <4> QED
        BY <1>1, <1>2, <2>1, <2>7, <3>1, <4>1, <4>2, <4>4
    <3>3. CASE ~(member[o].end < d) /\ member[o].version # 0
      <4>1. PICK j \in Records(u) : member[u].end <= record[j].day + DaysSince(u, 0)
        BY <2>7, <3>3 DEF DaysInv, OnlyPaidDays
      <4>2. member'[u].end = member[u].end + n
        BY <1>4, <2>7, <3>3
      <4> QED
        BY <1>1, <1>3, <2>1, <2>4, <2>5, <2>7, <3>1, <4>1, <4>2
    <3> QED
      BY <3>2, <3>3
  <2> QED
    BY <2>6, <2>7
<1> QED
  BY <1>2, <1>5, <1>6 DEF EveryDayCounts, OnlyPaidDays

LEMMA DaysNext == DaysInv /\ [Next]_vars => DaysInv'
<1> SUFFICES ASSUME DaysInv, [Next]_vars PROVE DaysInv'
  OBVIOUS
<1>1. MemberInv'
  BY TypeNext, RowsReadNext DEF DaysInv, MemberInv
<1>2. ASSUME NEW w \in Workers, Commit(w)
      PROVE  DaysInv'
  <2>1. msg[w] \in Keys /\ Owner(w) \in Users /\ day[w] <= today /\ today' = today
    BY <1>2, EventType DEF Commit, Leave, DaysInv, MemberInv, RowsReadAgree
  <2>2. record'[msg[w]].day = day[w] /\ \A j \in Keys \ {msg[w]} : record'[j] = record[j]
    BY <1>2, <2>1 DEF Commit, NewRecord, DaysInv, MemberInv, TypeOK
  <2>3. \A k \in Keys : record'[k] # NoRow => record'[k].day <= today'
    BY <2>1, <2>2 DEF DaysInv
  <2>4. member'[Owner(w)].version = snap[w].version + 1 /\ snap[w].version \in Nat
    BY <1>2, <2>1 DEF Commit, DaysInv, MemberInv, TypeOK, MemberRow
  <2>5. \A u \in Users \ {Owner(w)} : member'[u] = member[u]
    BY <1>2, <2>1 DEF Commit, DaysInv, MemberInv, TypeOK
  <2>6. \A u \in Users : member'[u].version = 0 => member'[u].end = 0
    BY <2>4, <2>5 DEF DaysInv
  <2> QED
    BY <1>1, <1>2, <2>3, <2>6, CommitKeepsDays DEF DaysInv
<1>3. CASE Midnight
  <2>1. today' = today + 1 /\ today \in Nat /\ record' = record /\ member' = member
    BY <1>3 DEF Midnight, DaysInv, MemberInv, TypeOK
  <2>2. \A k \in Keys : record[k] # NoRow => record[k].day \in Nat /\ record[k].day <= today
    BY DEF DaysInv, MemberInv, TypeOK, RecordRow
  <2>3. \A u \in Users : Since(u, today + 1) = {}
    BY <2>1, <2>2 DEF Since, Records
  <2>4. EveryDayCounts'
    <3> SUFFICES ASSUME NEW u \in Users, NEW t \in 0 .. today + 1, Since(u, t) # {}
                 PROVE  member[u].end >= t + DaysSince(u, t)
      BY <2>1, OthersCount DEF EveryDayCounts
    <3>1. t \in 0 .. today
      BY <2>1, <2>3
    <3> QED
      BY <3>1 DEF DaysInv, EveryDayCounts
  <2>5. OnlyPaidDays'
    BY <2>1, OthersCount DEF DaysInv, OnlyPaidDays
  <2> QED
    BY <1>1, <2>1, <2>2, <2>4, <2>5 DEF DaysInv
<1>4. CASE member' = member /\ record' = record /\ today' = today
  <2>1. EveryDayCounts' /\ OnlyPaidDays'
    BY <1>4, OthersCount DEF DaysInv, EveryDayCounts, OnlyPaidDays
  <2> QED
    BY <1>1, <1>4, <2>1 DEF DaysInv
<1> QED
  BY <1>2, <1>3, <1>4 DEF Next, Upsert, Consume, Clock, Read, Duplicate, Conflict, DBError,
                          Leave, vars

\* However many consumers extend memberships, at midnight or in whatever
\* order, and whichever messages come twice: every day paid for is served,
\* and no other.
THEOREM DaysAreServed == Spec => [](EveryDayCounts /\ OnlyPaidDays)
<1>1. Init => DaysInv
  <2> SUFFICES ASSUME Init PROVE DaysInv
    OBVIOUS
  <2>1. MemberInv
    BY MemberAssumption DEF Init, MemberInv, TypeOK, RowsReadAgree, NoMember, MemberRow
  <2>2. \A u \in Users, t \in Nat : Since(u, t) = {}
    BY DEF Init, Since, Records
  <2>3. today \in Nat
    BY MemberAssumption DEF Init
  <2> QED
    BY <2>1, <2>2, <2>3 DEF Init, DaysInv, EveryDayCounts, OnlyPaidDays, NoMember
<1>2. DaysInv /\ [Next]_vars => DaysInv'
  BY DaysNext
<1>3. DaysInv => EveryDayCounts /\ OnlyPaidDays
  BY DEF DaysInv
<1> QED
  BY <1>1, <1>2, <1>3, PTL DEF Spec
-----------------------------------------------------------------------------
(***************************************************************************)
(* Proofs, for any number of events, rows, goroutines and faults.  What is *)
(* granted grows by whole transactions, so a transaction must hold, when   *)
(* it commits, the rows it has not inserted in a snapshot of what others   *)
(* have committed; its locks keep the rows it has inserted its own.        *)
(***************************************************************************)
RowsArePassed ==
    \A w \in Consumers : ppc[w] # "idle" =>
        /\ pmsg[w] \in Messages
        /\ pos[w] \in 1 .. Len(MessageRows[pmsg[w]]) + 1
        /\ ppc[w] = "row" => pos[w] <= Len(MessageRows[pmsg[w]])
        /\ ppc[w] = "commit" => pos[w] = Len(MessageRows[pmsg[w]]) + 1
        /\ \A i \in 1 .. pos[w] - 1 : MessageRows[pmsg[w]][i] \in seen[w] \cup inserted[w]
        /\ inserted[w] \subseteq Permissions!RowsOf(pmsg[w])

PermissionInv ==
    /\ ppc \in [Consumers -> {"idle", "row", "commit"}]
    /\ pmsg \in [Consumers -> Messages \cup {NoRow}]
    /\ DOMAIN pos = Consumers /\ DOMAIN seen = Consumers
    /\ inserted = [w \in Consumers |-> inserted[w]]
    /\ \A w \in Consumers : seen[w] \subseteq granted /\ (ppc[w] = "idle" => inserted[w] = {})
    /\ done \subseteq Messages
    /\ RowsArePassed
    /\ Permissions!GrantsAreWhole
    /\ Permissions!InsertedOnce

LEMMA MessageKeeps ==
    ASSUME Permissions!EventsNameRows, PermissionInv, NEW w \in Consumers, Permissions!Consume(w)
    PROVE  PermissionInv'
<1>1. PICK e \in Messages : pmsg' = [pmsg EXCEPT ![w] = e]
  BY DEF Permissions!Consume
<1>2. Len(MessageRows[e]) \in Nat \ {0}
  BY DEF Permissions!EventsNameRows
<1>3. RowsArePassed'
  BY <1>1, <1>2 DEF Permissions!Consume, PermissionInv, RowsArePassed
<1> QED
  BY <1>1, <1>3 DEF Permissions!Consume, PermissionInv, Permissions!GrantsAreWhole, Permissions!InsertedOnce

\* One row more is there, or inserted.
LEMMA AdvanceKeeps ==
    ASSUME Permissions!EventsNameRows, PermissionInv, NEW w \in Consumers, ppc[w] = "row", Permissions!Advance(w),
           inserted' = [inserted EXCEPT ![w] = inserted'[w]],
           inserted[w] \subseteq inserted'[w], inserted'[w] \subseteq inserted[w] \cup {Permissions!Row(w)},
           Permissions!Row(w) \in seen[w] \cup inserted'[w], Permissions!InsertedOnce'
    PROVE  PermissionInv'
<1> DEFINE n == Len(MessageRows[pmsg[w]])
<1>1. pmsg[w] \in Messages /\ n \in Nat /\ pos[w] \in 1 .. n
  BY DEF Permissions!EventsNameRows, PermissionInv, RowsArePassed
<1>2. Permissions!Row(w) \in Permissions!RowsOf(pmsg[w])
  BY <1>1 DEF Permissions!Row, Permissions!RowsOf, Permissions!ToSet
<1>3. pos'[w] = pos[w] + 1 /\ ppc'[w] = (IF pos[w] = n THEN "commit" ELSE "row")
      /\ pmsg' = pmsg /\ seen' = seen /\ granted' = granted /\ done' = done
  BY DEF Permissions!Advance, PermissionInv
<1>4. \A v \in Consumers \ {w} : ppc'[v] = ppc[v] /\ pos'[v] = pos[v] /\ inserted'[v] = inserted[v]
  BY DEF Permissions!Advance, PermissionInv
<1>5. \A i \in 1 .. pos'[w] - 1 : MessageRows[pmsg[w]][i] \in seen[w] \cup inserted'[w]
  <2>1. ASSUME NEW i \in 1 .. pos[w]
        PROVE  MessageRows[pmsg[w]][i] \in seen[w] \cup inserted'[w]
    <3>1. CASE i = pos[w]
      BY <3>1 DEF Permissions!Row
    <3>2. CASE i # pos[w]
      <4>1. i \in 1 .. pos[w] - 1
        BY <1>1, <3>2
      <4> QED
        BY <4>1 DEF PermissionInv, RowsArePassed
    <3> QED
      BY <3>1, <3>2
  <2>2. pos'[w] - 1 = pos[w]
    <3>1. pos[w] \in Nat /\ pos'[w] = pos[w] + 1
      BY ONLY <1>1, <1>3
    <3> QED
      BY ONLY <3>1
  <2> QED
    BY ONLY <2>1, <2>2
<1>6. ASSUME NEW v \in Consumers, ppc'[v] # "idle"
      PROVE  /\ pmsg'[v] \in Messages
             /\ pos'[v] \in 1 .. Len(MessageRows[pmsg'[v]]) + 1
             /\ ppc'[v] = "row" => pos'[v] <= Len(MessageRows[pmsg'[v]])
             /\ ppc'[v] = "commit" => pos'[v] = Len(MessageRows[pmsg'[v]]) + 1
             /\ \A i \in 1 .. pos'[v] - 1 : MessageRows[pmsg'[v]][i] \in seen'[v] \cup inserted'[v]
             /\ inserted'[v] \subseteq Permissions!RowsOf(pmsg'[v])
  <2>1. CASE v = w
    <3>1. inserted'[w] \subseteq Permissions!RowsOf(pmsg[w])
      BY <1>2 DEF PermissionInv, RowsArePassed
    <3> QED
      BY <1>1, <1>3, <1>5, <2>1, <3>1
  <2>2. CASE v # w
    BY <1>3, <1>4, <1>6, <2>2 DEF PermissionInv, RowsArePassed
  <2> QED
    BY <2>1, <2>2
<1>7. RowsArePassed'
  BY <1>6 DEF RowsArePassed
<1>8. DOMAIN pos' = Consumers /\ inserted' = [v \in Consumers |-> inserted'[v]]
      /\ ppc' \in [Consumers -> {"idle", "row", "commit"}]
  BY DEF Permissions!Advance, PermissionInv
<1>9. \A v \in Consumers : seen'[v] \subseteq granted' /\ (ppc'[v] = "idle" => inserted'[v] = {})
  BY <1>3, <1>4 DEF PermissionInv
<1> QED
  BY <1>3, <1>7, <1>8, <1>9 DEF PermissionInv, Permissions!GrantsAreWhole

\* A transaction that ends has no locks; the rest go on.
LEMMA EndKeeps ==
    ASSUME Permissions!EventsNameRows, PermissionInv, NEW w \in Consumers, Permissions!End(w),
           granted \subseteq granted', done' \subseteq Messages,
           Permissions!GrantsAreWhole', Permissions!InsertedOnce'
    PROVE  PermissionInv'
<1>1. ppc'[w] = "idle" /\ seen'[w] = {} /\ inserted'[w] = {} /\ pmsg' = pmsg /\ pos' = pos
  BY DEF Permissions!End, PermissionInv
<1>2. \A v \in Consumers \ {w} : ppc'[v] = ppc[v] /\ seen'[v] = seen[v] /\ inserted'[v] = inserted[v]
  BY DEF Permissions!End, PermissionInv
<1>3. RowsArePassed'
  BY <1>1, <1>2 DEF PermissionInv, RowsArePassed
<1>4. \A v \in Consumers : seen'[v] \subseteq granted' /\ (ppc'[v] = "idle" => inserted'[v] = {})
  BY <1>1, <1>2 DEF PermissionInv
<1> QED
  BY <1>1, <1>3, <1>4 DEF Permissions!End, PermissionInv

\* What rolls back leaves nothing behind.
LEMMA RollbackKeeps ==
    ASSUME Permissions!EventsNameRows, PermissionInv, NEW w \in Consumers, Permissions!End(w), granted' = granted, done' = done
    PROVE  PermissionInv'
<1>1. Permissions!GrantsAreWhole' /\ done' \subseteq Messages
  BY DEF PermissionInv, Permissions!GrantsAreWhole
<1>2. \A v \in Consumers : inserted'[v] \subseteq inserted[v]
  BY DEF Permissions!End, PermissionInv
<1>3. Permissions!InsertedOnce'
  BY <1>2 DEF PermissionInv, Permissions!InsertedOnce
<1> QED
  BY <1>1, <1>3, EndKeeps

\* A commit adds exactly the rows of its event that were not there.
LEMMA GrantKeeps ==
    ASSUME Permissions!EventsNameRows, PermissionInv, NEW w \in Consumers, Permissions!Commit(w)
    PROVE  PermissionInv'
<1> DEFINE e == pmsg[w]
           n == Len(MessageRows[e])
<1>1. e \in Messages /\ n \in Nat /\ pos[w] = n + 1 /\ inserted[w] \subseteq Permissions!RowsOf(e)
      /\ \A i \in 1 .. n : MessageRows[e][i] \in granted \cup inserted[w]
  BY DEF Permissions!EventsNameRows, Permissions!Commit, PermissionInv, RowsArePassed
<1>2. Permissions!RowsOf(e) \subseteq granted \cup inserted[w]
  BY <1>1 DEF Permissions!RowsOf, Permissions!ToSet, Permissions!EventsNameRows
<1>3. granted' = granted \cup Permissions!RowsOf(e) /\ done' = done \cup {e}
  BY <1>1, <1>2 DEF Permissions!Commit
<1>4. Permissions!GrantsAreWhole'
  BY <1>3 DEF PermissionInv, Permissions!GrantsAreWhole
<1>5. Permissions!InsertedOnce'
  <2>1. /\ inserted'[w] = {}
        /\ \A v \in Consumers \ {w} : inserted'[v] = inserted[v]
        /\ granted' = granted \cup inserted[w]
    BY DEF Permissions!Commit, Permissions!End, PermissionInv
  <2> QED
    BY <2>1 DEF PermissionInv, Permissions!InsertedOnce
<1>6. granted \subseteq granted' /\ done' \subseteq Messages /\ Permissions!End(w)
  BY <1>1, <1>3 DEF PermissionInv, Permissions!Commit
<1> QED
  BY <1>4, <1>5, <1>6, EndKeeps

LEMMA PermissionInvNext == Permissions!EventsNameRows /\ PermissionInv /\ [Permissions!Next]_Permissions!vars => PermissionInv'
<1> SUFFICES ASSUME Permissions!EventsNameRows, PermissionInv, [Permissions!Next]_Permissions!vars PROVE PermissionInv'
  OBVIOUS
<1>1. ASSUME NEW w \in Consumers, Permissions!Found(w)
      PROVE  PermissionInv'
  <2>1. /\ ppc[w] = "row" /\ Permissions!Advance(w) /\ inserted' = inserted /\ granted' = granted
        /\ Permissions!Row(w) \in seen[w] \cup inserted[w]
    BY <1>1 DEF Permissions!Found, Permissions!Advance
  <2>2. inserted' = [inserted EXCEPT ![w] = inserted'[w]]
    BY <2>1 DEF PermissionInv
  <2>3. Permissions!InsertedOnce'
    BY <2>1 DEF PermissionInv, Permissions!InsertedOnce
  <2> QED
    BY <2>1, <2>2, <2>3, AdvanceKeeps
<1>2. ASSUME NEW w \in Consumers, Permissions!Insert(w)
      PROVE  PermissionInv'
  <2>1. /\ ppc[w] = "row" /\ Permissions!Advance(w) /\ granted' = granted
        /\ inserted' = [inserted EXCEPT ![w] = inserted[w] \cup {Permissions!Row(w)}]
        /\ Permissions!Row(w) \notin granted /\ \A v \in Consumers : Permissions!Row(w) \notin inserted[v]
    BY <1>2 DEF Permissions!Insert, Permissions!Advance, Permissions!Holders
  <2> DEFINE more == inserted[w] \cup {Permissions!Row(w)}
  <2> HIDE DEF more
  <2>2. inserted'[w] = more /\ inserted' = [inserted EXCEPT ![w] = inserted'[w]]
    BY <2>1 DEF PermissionInv, more
  <2>3. \A v \in Consumers \ {w} : inserted'[v] = inserted[v]
    BY <2>1 DEF PermissionInv
  <2>4. Permissions!InsertedOnce'
    BY <2>1, <2>2, <2>3 DEF PermissionInv, Permissions!InsertedOnce, more
  <2> QED
    BY <2>1, <2>2, <2>4, AdvanceKeeps DEF more
<1>3. ASSUME NEW w \in Consumers, Permissions!Duplicate(w) \/ Permissions!Deadlock(w) \/ Permissions!DBError(w)
      PROVE  PermissionInv'
  BY <1>3, RollbackKeeps DEF Permissions!Duplicate, Permissions!Deadlock, Permissions!DBError
<1>4. CASE UNCHANGED Permissions!vars
  BY <1>4 DEF Permissions!vars, PermissionInv, RowsArePassed, Permissions!GrantsAreWhole, Permissions!InsertedOnce
<1> QED
  BY <1>1, <1>2, <1>3, <1>4, MessageKeeps, GrantKeeps DEF Permissions!Next, Permissions!CreatePersonalPermission

\* Transactions keep the invariant.
LEMMA PermissionInvariant == Permissions!Spec => []PermissionInv
<1>1. Permissions!Init => PermissionInv
  BY DEF Permissions!Init, PermissionInv, RowsArePassed, Permissions!GrantsAreWhole,
         Permissions!InsertedOnce
<1>2. PermissionInv /\ [Permissions!Next]_Permissions!vars => PermissionInv'
  BY EventsAreNamed, PermissionInvNext
<1> QED
  BY <1>1, <1>2, PTL DEF Permissions!Spec

\* Whichever transactions beat, wait for or deadlock each other, every event
\* that was handled without an error has all its permissions, no other has
\* left any, and no row is inserted twice.
THEOREM GrantsByWholeEvents ==
    Permissions!Spec => [](Permissions!GrantsAreWhole /\ Permissions!InsertedOnce)
<1>1. PermissionInv => Permissions!GrantsAreWhole /\ Permissions!InsertedOnce
  BY DEF PermissionInv
<1> QED
  BY <1>1, PermissionInvariant, PTL

-----------------------------------------------------------------------------
(***************************************************************************)
(* The run.  A step of it is a step of the module whose scene is played.   *)
(***************************************************************************)
LEMMA MemberSteps == [GrantsNext]_allVars => [Next]_vars
BY DEF GrantsNext, allVars, vars, besidePermission, besideCredit

LEMMA PermissionSteps == [GrantsNext]_allVars => [Permissions!Next]_Permissions!vars
BY DEF GrantsNext, allVars, permissionVars, Permissions!vars, besideMember, besideCredit

LEMMA GrantsRunMember == GrantsSpec => Spec
BY MemberSteps, PTL DEF GrantsSpec, GrantsInit, Spec

LEMMA GrantsRunPermission == GrantsSpec => Permissions!Spec
BY PermissionSteps, PTL DEF GrantsSpec, GrantsInit, Permissions!Spec

\* Whoever fails was handling an event.
FailedType == failed \subseteq Messages

LEMMA FailedNext ==
    PermissionInv /\ FailedType /\ [Permissions!Next]_Permissions!vars => FailedType'
<1> SUFFICES ASSUME PermissionInv, FailedType, [Permissions!Next]_Permissions!vars
             PROVE  failed' \subseteq Messages
  BY DEF FailedType
<1>1. ASSUME NEW w \in Consumers, Permissions!Duplicate(w) \/ Permissions!Deadlock(w)
      PROVE  failed' \subseteq Messages
  <2>1. ppc[w] # "idle" /\ failed' = failed \cup {pmsg[w]}
    BY <1>1 DEF Permissions!Duplicate, Permissions!Deadlock, Permissions!Wants
  <2> QED
    BY <2>1 DEF PermissionInv, RowsArePassed, FailedType
<1>2. ASSUME NEW w \in Consumers, Permissions!Consume(w) \/ Permissions!Found(w) \/ Permissions!Insert(w)
                                  \/ Permissions!Commit(w) \/ Permissions!DBError(w)
      PROVE  failed' = failed
  BY <1>2 DEF Permissions!Consume, Permissions!Found, Permissions!Insert, Permissions!Advance,
              Permissions!Commit, Permissions!DBError
<1>3. CASE UNCHANGED Permissions!vars
  BY <1>3 DEF Permissions!vars, FailedType
<1> QED
  BY <1>1, <1>2, <1>3 DEF FailedType, Permissions!Next, Permissions!CreatePersonalPermission

LEMMA PermissionTyped ==
    ASSUME PermissionInv, FailedType
    PROVE  Permissions!TypeOK
<1>1. granted \subseteq UNION {Permissions!RowsOf(e) : e \in Messages}
  BY DEF PermissionInv, Permissions!GrantsAreWhole
<1>2. \A w \in Consumers :
        /\ ppc[w] = "row" => pmsg[w] \in Messages /\ pos[w] \in 1 .. Len(MessageRows[pmsg[w]])
        /\ inserted[w] # {} => inserted[w] \subseteq Permissions!RowsOf(pmsg[w])
  BY EventsAreNamed DEF PermissionInv, RowsArePassed, Permissions!EventsNameRows
<1> QED
  BY <1>1, <1>2 DEF PermissionInv, FailedType, Permissions!TypeOK

\* Members, records and permissions keep their types, and goroutines are at a
\* row of what they handle.
THEOREM GrantsTyped == GrantsSpec => []GrantsTypeOK
<1>1. Permissions!Spec => [](PermissionInv /\ FailedType)
  <2>1. Permissions!Init => FailedType
    BY DEF FailedType, Permissions!Init
  <2>2. Permissions!Spec => []PermissionInv
    BY PermissionInvariant
  <2> QED
    BY <2>1, <2>2, FailedNext, PTL DEF Permissions!Spec
<1>2. MemberInv => TypeOK
  BY DEF MemberInv
<1>3. PermissionInv /\ FailedType /\ TypeOK => GrantsTypeOK
  BY PermissionTyped DEF GrantsTypeOK
<1> QED
  BY <1>1, <1>2, <1>3, GrantsRunMember, GrantsRunPermission, MemberInvariant, PTL

\* Whatever consumers race, wait for and deadlock each other, at whatever
\* midnight: no day is counted twice, an event's permissions are granted all
\* or none, by one transaction each (Member!OnlyPaidDays,
\* Permission!GrantsAreWhole and InsertedOnce).
THEOREM GrantsAreSums == GrantsSpec => []GrantsAddUp
<1>1. OnlyPaidDays /\ Permissions!GrantsAreWhole /\ Permissions!InsertedOnce => GrantsAddUp
  BY DEF GrantsAddUp
<1>2. Permissions!Spec => [](Permissions!GrantsAreWhole /\ Permissions!InsertedOnce)
  BY GrantsByWholeEvents
<1> QED
  BY <1>1, <1>2, GrantsRunMember, GrantsRunPermission, DaysAreServed, PTL
=============================================================================
