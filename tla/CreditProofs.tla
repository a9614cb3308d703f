---------------------------- MODULE CreditProofs ----------------------------
(***************************************************************************)
(* Proofs about Credit, for any number of users, keys, goroutines, calls   *)
(* and faults.  The inductive invariant is CreditInv: a transaction whose  *)
(* version still matches has read the current row, a settled log read      *)
(* earlier is still settled, and the balances are sums over the log.       *)
(* First comes that a commit is a step of CreditLedger, everything else    *)
(* invisible to it; and last that answers stay true, with what a call has  *)
(* read and found.                                                         *)
(***************************************************************************)
EXTENDS Credit, TLAPS

(* The invariant. *)

\* What a transaction has read: a row of an earlier version, or the current
\* row; and a log that still is what it was, unless it was Locked then.
SnapshotsAgree ==
    \A p \in Procs : pc[p] = "write" =>
        LET c == snap[p].credit
            l == snap[p].log
            u == req[p].uid
            k == req[p].key
        IN  /\ c.version <= credit[u].version
            /\ c.version = credit[u].version => c = credit[u]
            /\ l # NoRow =>
                 /\ creditLog[k] # NoRow
                 /\ creditLog[k].uid = l.uid
                 /\ creditLog[k].change = l.change
                 /\ l.status # "Locked" => creditLog[k].status = l.status

\* Only deductions are ever locked.
HoldsAreDeductions ==
    \A k \in Keys : creditLog[k] # NoRow /\ creditLog[k].status = "Locked"
                      => creditLog[k].change <= 0

TotalsNonNegative == \A u \in Users : credit[u].total >= 0

CreditInv ==
    /\ TypeOK
    /\ SnapshotsAgree
    /\ HoldsAreDeductions
    /\ BalancesMatchLog
    /\ TotalsNonNegative

-----------------------------------------------------------------------------
\* A call's return, seen as a change of the goroutine's own variables.
LEMMA AnswerType ==
    ASSUME TypeOK, NEW p \in Procs, pc[p] = "write", NEW res \in Answers, Answer(p, res),
           \A k \in Keys : creditLog[k] # NoRow => creditLog'[k] # NoRow
    PROVE  /\ expired' \subseteq Keys
           /\ pc' \in [Procs -> {"idle", "begin", "write"}]
           /\ req' \in [Procs -> Request \cup {NoRow}]
           /\ snap' \in [Procs -> Snapshot]
           /\ answer' \in [Procs -> Answers]
           /\ batch' \subseteq {k \in Keys : creditLog'[k] # NoRow}
           /\ calls' \in Nat
           /\ faults' \in Nat
           /\ \A q \in Procs : pc'[q] # "idle" \/ answer'[q] # "none" => req'[q] \in Request
<1> USE DEF TypeOK
<1>1. NoSnapshot \in Snapshot
  BY DEF NoSnapshot, Snapshot, NoCredit, CreditRow
<1>2. req[p] \in Request
  OBVIOUS
<1>3. "error" \in Answers
  BY DEF Answers
<1>4. answer' \in [Procs -> Answers] /\ faults' \in Nat
  BY <1>3 DEF Answer
<1>5. pc' \in [Procs -> {"idle", "begin", "write"}] /\ snap' \in [Procs -> Snapshot]
  BY <1>1 DEF Answer
<1>6. batch' \subseteq {k \in Keys : creditLog'[k] # NoRow}
  BY DEF Answer
<1>7. expired' = expired /\ req' = req /\ calls' = calls
  BY DEF Answer
<1>8. ASSUME NEW q \in Procs, pc'[q] # "idle" \/ answer'[q] # "none"
      PROVE  req'[q] \in Request
  <2>1. CASE q = p
    BY <1>2, <1>7, <2>1
  <2>2. CASE q # p
    <3>1. pc'[q] = pc[q] /\ answer'[q] = answer[q]
      BY <2>2 DEF Answer
    <3> QED
      BY <1>7, <1>8, <3>1
  <2> QED
    BY <2>1, <2>2
<1> QED
  BY <1>4, <1>5, <1>6, <1>7, <1>8

\* A call that has written nothing keeps the types.
LEMMA RefuseType ==
    ASSUME TypeOK, NEW p \in Procs, pc[p] = "write", NEW res \in Answers, Refuse(p, res)
    PROVE  TypeOK'
<1>1. Answer(p, res) /\ credit' = credit /\ creditLog' = creditLog
  BY DEF Refuse
<1>2. \A k \in Keys : creditLog[k] # NoRow => creditLog'[k] # NoRow
  BY <1>1
<1> QED
  BY <1>1, <1>2, AnswerType DEF TypeOK

\* So does one that commits, and no log row disappears.
LEMMA CommitType ==
    ASSUME TypeOK, NEW p \in Procs, pc[p] = "write",
           NEW u \in Users, NEW k \in Keys, NEW row \in LogRow,
           NEW dTotal \in Int, NEW dLocked \in Int, Commit(p, u, dTotal, dLocked, k, row)
    PROVE  TypeOK'
<1>1. Answer(p, "ok")
  BY DEF Commit
<1>2. credit' \in [Users -> CreditRow]
  BY DEF Commit, TypeOK, CreditRow, Snapshot
<1>3. creditLog' \in [Keys -> LogRow \cup {NoRow}]
  BY DEF Commit, TypeOK
<1>4. \A j \in Keys : creditLog[j] # NoRow => creditLog'[j] # NoRow
  BY CreditAssumption DEF Commit, TypeOK
<1>5. "ok" \in Answers
  BY DEF Answers
<1> QED
  BY <1>1, <1>2, <1>3, <1>4, <1>5, AnswerType DEF TypeOK

LEMMA StartAgainType ==
    ASSUME TypeOK, NEW p \in Procs, pc[p] = "write", StartAgain(p)
    PROVE  TypeOK'
<1>1. NoSnapshot \in Snapshot
  BY DEF NoSnapshot, Snapshot, NoCredit, CreditRow
<1>2. pc' \in [Procs -> {"idle", "begin", "write"}] /\ snap' \in [Procs -> Snapshot]
  BY <1>1 DEF StartAgain, TypeOK
<1>3. \A q \in Procs : pc'[q] # "idle" \/ answer'[q] # "none" => req'[q] \in Request
  BY DEF StartAgain, TypeOK
<1> QED
  BY <1>2, <1>3 DEF StartAgain, TypeOK

LEMMA BeginType ==
    ASSUME TypeOK, NEW p \in Procs, NEW r \in Request, Begin(p, r),
           calls' \in Nat, batch' \subseteq batch
    PROVE  TypeOK'
<1>1. pc' \in [Procs -> {"idle", "begin", "write"}] /\ req' \in [Procs -> Request \cup {NoRow}]
  BY DEF Begin, TypeOK
<1>2. answer' \in [Procs -> Answers]
  BY DEF Begin, TypeOK, Answers
<1>3. \A q \in Procs : pc'[q] # "idle" \/ answer'[q] # "none" => req'[q] \in Request
  BY DEF Begin, TypeOK
<1> QED
  BY <1>1, <1>2, <1>3 DEF Begin, TypeOK

-----------------------------------------------------------------------------
\* The three steps that write to the database, by the rows they leave.
LEMMA UpsertCommitForm ==
    ASSUME TypeOK, NEW p \in Procs, UpsertCommit(p)
    PROVE  LET u == req[p].uid
               k == req[p].key
               a == req[p].amount
               row == [uid |-> u, change |-> a, status |-> "Active"]
           IN  /\ u \in Users /\ k \in Keys /\ a \in Amounts /\ a \in Nat /\ row \in LogRow
               /\ pc[p] = "write"
               /\ creditLog[k] = NoRow
               /\ credit[u].version = snap[p].credit.version
               /\ Commit(p, u, a, 0, k, row)
<1>1. req[p] \in Request /\ req[p].op = "add"
  BY DEF UpsertCommit, Writing, TypeOK
<1>2. req[p].amount \in Amounts /\ req[p].amount \in Nat
  BY <1>1, CreditAssumption DEF Request
<1> QED
  BY <1>1, <1>2 DEF UpsertCommit, Writing, VersionMatches, Request, LogRow, LogStatus

LEMMA LockCommitForm ==
    ASSUME TypeOK, NEW p \in Procs, LockCommit(p)
    PROVE  LET u == req[p].uid
               k == req[p].key
               a == req[p].amount
               row == [uid |-> u, change |-> -a, status |-> "Locked"]
           IN  /\ u \in Users /\ k \in Keys /\ a \in Amounts /\ a \in Nat /\ row \in LogRow
               /\ pc[p] = "write"
               /\ creditLog[k] = NoRow
               /\ credit[u].version = snap[p].credit.version
               /\ snap[p].credit.total >= a
               /\ Commit(p, u, -a, a, k, row)
<1>1. req[p] \in Request /\ req[p].op = "deduct"
  BY DEF LockCommit, Writing, TypeOK
<1>2. req[p].amount \in Amounts
  BY <1>1 DEF Request
<1>3. req[p].amount \in Nat
  BY <1>2, CreditAssumption
<1>4. -req[p].amount \in Int
  BY <1>3
<1> QED
  BY <1>1, <1>2, <1>3, <1>4 DEF LockCommit, Writing, VersionMatches, Enough, Request, LogRow, LogStatus

LEMMA SettleCommitForm ==
    ASSUME TypeOK, NEW p \in Procs, SettleCommit(p)
    PROVE  LET u == req[p].uid
               k == req[p].key
               l == snap[p].log
               row == [l EXCEPT !.status = Destination(p)]
           IN  /\ u \in Users /\ k \in Keys /\ l \in LogRow /\ row \in LogRow
               /\ row.status = Destination(p)
               /\ l.uid = u /\ row.uid = u /\ row.change = l.change
               /\ pc[p] = "write"
               /\ Destination(p) = IF req[p].op = "cancel" THEN "Inactive" ELSE "Active"
               /\ creditLog[k].status = "Locked"
               /\ credit[u].version = snap[p].credit.version
               /\ Commit(p, u, IF req[p].op = "cancel" THEN -l.change ELSE 0, l.change, k, row)
<1>1. req[p] \in Request
  BY DEF SettleCommit, Writing, TypeOK
<1>2. snap[p].log \in LogRow
  BY DEF SettleCommit, FoundLog, TypeOK, Snapshot
<1>3. Destination(p) = IF req[p].op = "cancel" THEN "Inactive" ELSE "Active"
  BY DEF SettleCommit, Writing, Destination
<1>4. req[p].uid \in Users /\ req[p].key \in Keys
  BY <1>1 DEF Request
<1>5. [snap[p].log EXCEPT !.status = Destination(p)] \in LogRow
  BY <1>2, <1>3 DEF LogRow, LogStatus
<1> DEFINE row == [snap[p].log EXCEPT !.status = Destination(p)]
<1>6. row.uid = snap[p].log.uid /\ row.change = snap[p].log.change /\ row.status = Destination(p)
  BY <1>2 DEF LogRow
<1> QED
  BY <1>2, <1>3, <1>4, <1>5, <1>6 DEF SettleCommit, Writing, FoundLog, VersionMatches

-----------------------------------------------------------------------------
(***************************************************************************)
(* Type correctness.                                                       *)
(***************************************************************************)
LEMMA TypeInit == Init => TypeOK
<1> SUFFICES ASSUME Init PROVE TypeOK
  OBVIOUS
<1>1. NoSnapshot \in Snapshot /\ NoCredit \in CreditRow
  BY DEF NoSnapshot, Snapshot, NoCredit, CreditRow
<1> QED
  BY <1>1 DEF Init, TypeOK, Answers

\* The steps of a goroutine inside a transaction.
LEMMA TypeStep ==
    ASSUME TypeOK, NEW p \in Procs, Step(p)
    PROVE  TypeOK'
<1>1. CASE Read(p)
  <2>1. req[p] \in Request
    BY <1>1 DEF Read, TypeOK
  <2>2. snap' \in [Procs -> Snapshot]
    <3>1. credit[req[p].uid] \in CreditRow
      BY <2>1 DEF Request, TypeOK
    <3>2. creditLog[req[p].key] \in LogRow \cup {NoRow}
      BY <2>1 DEF Request, TypeOK
    <3> QED
      BY <1>1, <3>1, <3>2 DEF Read, TypeOK, Snapshot
  <2>3. pc' \in [Procs -> {"idle", "begin", "write"}]
    BY <1>1 DEF Read, TypeOK
  <2>4. \A q \in Procs : pc'[q] # "idle" \/ answer'[q] # "none" => req'[q] \in Request
    BY <1>1 DEF Read, TypeOK
  <2> QED
    BY <1>1, <2>2, <2>3, <2>4 DEF Read, TypeOK
<1>2. CASE UpsertCommit(p)
  <2>a. req[p].amount \in Nat
    BY <1>2, UpsertCommitForm
  <2>1. 0 \in Int /\ req[p].amount \in Int
    BY <2>a
  <2> QED
    BY <1>2, <2>1, UpsertCommitForm, CommitType
<1>3. CASE LockCommit(p)
  <2>a. req[p].amount \in Nat
    BY <1>3, LockCommitForm
  <2>1. req[p].amount \in Int /\ -req[p].amount \in Int
    BY <2>a
  <2> QED
    BY <1>3, <2>1, LockCommitForm, CommitType
<1>4. CASE SettleCommit(p)
  <2> DEFINE d == IF req[p].op = "cancel" THEN -snap[p].log.change ELSE 0
  <2>a. snap[p].log \in LogRow
    BY <1>4, SettleCommitForm
  <2>1. snap[p].log.change \in Int /\ d \in Int
    BY <2>a DEF LogRow
  <2> HIDE DEF d
  <2>2. Commit(p, req[p].uid, d, snap[p].log.change, req[p].key,
               [snap[p].log EXCEPT !.status = Destination(p)])
    BY <1>4, SettleCommitForm DEF d
  <2> QED
    BY <1>4, <2>1, <2>2, SettleCommitForm, CommitType
<1>5. ASSUME UpsertConflict(p) \/ LockConflict(p) \/ SettleConflict(p)
      PROVE  TypeOK'
  BY <1>5, StartAgainType DEF UpsertConflict, LockConflict, SettleConflict, Writing
<1>6. ASSUME \/ UpsertDuplicate(p) \/ LockNoAccount(p) \/ LockNotEnough(p) \/ LockDuplicate(p)
             \/ SettleNotFound(p) \/ SettleRepeated(p) \/ SettleInvalid(p)
      PROVE  TypeOK'
  <2>1. pc[p] = "write" /\ \E res \in Answers : Refuse(p, res)
    BY <1>6 DEF UpsertDuplicate, LockNoAccount, LockNotEnough, LockDuplicate,
                SettleNotFound, SettleRepeated, SettleInvalid, Writing, Answers
  <2> QED
    BY <2>1, RefuseType
<1> QED
  BY <1>1, <1>2, <1>3, <1>4, <1>5, <1>6
     DEF Step, Upsert, CreateCreditLockLog, UpdateCreditLockLog

LEMMA TypeNext == TypeOK /\ [Next]_vars => TypeOK'
<1> SUFFICES ASSUME TypeOK, [Next]_vars PROVE TypeOK'
  OBVIOUS
<1>1. ASSUME NEW w \in Workers,
             \/ AddCredits(w) \/ TryDeductCredits(w)
             \/ ConfirmDeductCredits(w) \/ CancelDeductCredits(w)
      PROVE  TypeOK'
  <2>1. PICK r \in Request : Begin(w, r) /\ calls' = calls + 1 /\ batch' = batch
    BY <1>1 DEF AddCredits, TryDeductCredits, ConfirmDeductCredits, CancelDeductCredits,
                Call, Request
  <2>2. w \in Procs /\ calls' \in Nat /\ batch' \subseteq batch
    BY <2>1 DEF Procs, TypeOK
  <2> QED
    BY <2>1, <2>2, BeginType
<1>2. ASSUME NEW p \in Procs, Step(p)
      PROVE  TypeOK'
  BY <1>2, TypeStep
<1>3. ASSUME NEW p \in Procs, DBError(p)
      PROVE  TypeOK'
  <2>1. NoSnapshot \in Snapshot /\ "error" \in Answers
    BY DEF NoSnapshot, Snapshot, NoCredit, CreditRow, Answers
  <2>2. /\ pc' \in [Procs -> {"idle", "begin", "write"}]
        /\ snap' \in [Procs -> Snapshot]
        /\ answer' \in [Procs -> Answers]
        /\ faults' \in Nat
    BY <1>3, <2>1 DEF DBError, TypeOK
  <2>3. batch' \subseteq {k \in Keys : creditLog'[k] # NoRow}
    BY <1>3 DEF DBError, TypeOK
  <2>4. \A q \in Procs : pc'[q] # "idle" \/ answer'[q] # "none" => req'[q] \in Request
    BY <1>3 DEF DBError, TypeOK
  <2> QED
    BY <1>3, <2>2, <2>3, <2>4 DEF DBError, TypeOK
<1>4. ASSUME NEW k \in Keys, Expire(k)
      PROVE  TypeOK'
  BY <1>4 DEF Expire, TypeOK
<1>5. CASE JobScan
  BY <1>5 DEF JobScan, ExpiredLocked, TypeOK
<1>6. CASE JobCancel
  <2>1. PICK k \in batch :
          /\ Begin(Job, [op |-> "cancel", uid |-> creditLog[k].uid, key |-> k, amount |-> 0])
          /\ batch' = batch \ {k}
    BY <1>6 DEF JobCancel
  <2>2. k \in Keys /\ creditLog[k] \in LogRow
    BY <2>1 DEF TypeOK
  <2>3. [op |-> "cancel", uid |-> creditLog[k].uid, key |-> k, amount |-> 0] \in Request
    BY <2>2 DEF Request, LogRow
  <2>4. Job \in Procs /\ calls' \in Nat
    BY <1>6 DEF Procs, JobCancel, TypeOK
  <2> QED
    BY <2>1, <2>3, <2>4, BeginType
<1>7. CASE UNCHANGED vars
  BY <1>7 DEF vars, TypeOK
<1> QED
  BY <1>1, <1>2, <1>3, <1>4, <1>5, <1>6, <1>7 DEF Next

\* Every variable keeps its type, and a goroutine inside a transaction always
\* serves a well-formed call.
THEOREM TypeCorrect == Spec => []TypeOK
<1> QED
  BY TypeInit, TypeNext, PTL DEF Spec

-----------------------------------------------------------------------------
(***************************************************************************)
(* What a commit does to the current rows.                                 *)
(***************************************************************************)

\* A commit writes the next version of one Credit row and one log row of the
\* same user: a new one, or a Locked one that it settles.
Effect(u, k, row, dTotal, dLocked) ==
    /\ credit' = [credit EXCEPT ![u] = [total   |-> credit[u].total + dTotal,
                                        locked  |-> credit[u].locked + dLocked,
                                        version |-> credit[u].version + 1]]
    /\ creditLog' = [creditLog EXCEPT ![k] = row]
    /\ row.uid = u
    /\ \/ creditLog[k] = NoRow
       \/ /\ creditLog[k] # NoRow
          /\ creditLog[k].status = "Locked"
          /\ creditLog[k].uid = u
          /\ creditLog[k].change = row.change
          /\ row.status # "Locked"

\* The committing goroutine leaves its transaction; the others go on.
Leaves(p) ==
    /\ pc' = [pc EXCEPT ![p] = "idle"]
    /\ req' = req
    /\ \A q \in Procs \ {p} : snap'[q] = snap[q]

LEMMA CommitLeaves ==
    ASSUME TypeOK, NEW p \in Procs, NEW u, NEW k, NEW row, NEW dTotal, NEW dLocked,
           Commit(p, u, dTotal, dLocked, k, row)
    PROVE  Leaves(p)
BY DEF Commit, Answer, Leaves, TypeOK

LEMMA UpsertEffect ==
    ASSUME TypeOK, SnapshotsAgree, NEW p \in Procs, UpsertCommit(p)
    PROVE  \E u \in Users, k \in Keys, a \in Amounts :
              LET row == [uid |-> u, change |-> a, status |-> "Active"]
              IN  row \in LogRow /\ creditLog[k] = NoRow /\ Effect(u, k, row, a, 0) /\ Leaves(p)
<1> DEFINE u == req[p].uid
           k == req[p].key
           a == req[p].amount
           row == [uid |-> u, change |-> a, status |-> "Active"]
<1>1. /\ u \in Users /\ k \in Keys /\ a \in Amounts /\ a \in Nat /\ row \in LogRow
      /\ pc[p] = "write"
      /\ creditLog[k] = NoRow
      /\ credit[u].version = snap[p].credit.version
      /\ Commit(p, u, a, 0, k, row)
  BY UpsertCommitForm
<1>2. row.uid = u
  OBVIOUS
<1>5. snap[p].credit = credit[u]
  BY <1>1 DEF SnapshotsAgree
<1> HIDE DEF row, a, k, u
<1>3. Effect(u, k, row, a, 0)
  BY <1>1, <1>2, <1>5 DEF Commit, Effect
<1>4. Leaves(p)
  BY <1>1, CommitLeaves
<1> QED
  BY <1>1, <1>3, <1>4 DEF row

LEMMA LockEffect ==
    ASSUME TypeOK, SnapshotsAgree, NEW p \in Procs, LockCommit(p)
    PROVE  \E u \in Users, k \in Keys, a \in Amounts :
              LET row == [uid |-> u, change |-> -a, status |-> "Locked"]
              IN  /\ row \in LogRow /\ creditLog[k] = NoRow /\ credit[u].total >= a
                  /\ Effect(u, k, row, -a, a) /\ Leaves(p)
<1> DEFINE u == req[p].uid
           k == req[p].key
           a == req[p].amount
           row == [uid |-> u, change |-> -a, status |-> "Locked"]
<1>1. /\ u \in Users /\ k \in Keys /\ a \in Amounts /\ a \in Nat /\ row \in LogRow
      /\ pc[p] = "write"
      /\ creditLog[k] = NoRow
      /\ credit[u].version = snap[p].credit.version
      /\ snap[p].credit.total >= a
      /\ Commit(p, u, -a, a, k, row)
  BY LockCommitForm
<1>2. row.uid = u
  OBVIOUS
<1>6. snap[p].credit = credit[u]
  BY <1>1 DEF SnapshotsAgree
<1> HIDE DEF row, a, k, u
<1>3. Effect(u, k, row, -a, a)
  BY <1>1, <1>2, <1>6 DEF Commit, Effect
<1>4. Leaves(p)
  BY <1>1, CommitLeaves
<1>5. credit[u].total >= a
  BY <1>1, <1>6
<1> QED
  BY <1>1, <1>3, <1>4, <1>5 DEF row

LEMMA SettleEffect ==
    ASSUME TypeOK, SnapshotsAgree, NEW p \in Procs, SettleCommit(p)
    PROVE  \E k \in Keys, s \in {"Active", "Inactive"} :
              LET old == creditLog[k]
                  row == [uid |-> old.uid, change |-> old.change, status |-> s]
              IN  /\ old \in LogRow /\ old.status = "Locked" /\ row \in LogRow
                  /\ Effect(old.uid, k, row,
                            IF s = "Inactive" THEN -old.change ELSE 0, old.change)
                  /\ Leaves(p)
<1> DEFINE u == req[p].uid
           k == req[p].key
           l == snap[p].log
           s == Destination(p)
           old == creditLog[k]
           row == [l EXCEPT !.status = s]
           new == [uid |-> old.uid, change |-> old.change, status |-> s]
           d == IF req[p].op = "cancel" THEN -l.change ELSE 0
<1>1. /\ u \in Users /\ k \in Keys /\ l \in LogRow /\ row \in LogRow
      /\ row.status = s
      /\ l.uid = u /\ row.uid = u /\ row.change = l.change
      /\ pc[p] = "write"
      /\ s = IF req[p].op = "cancel" THEN "Inactive" ELSE "Active"
      /\ old.status = "Locked"
      /\ credit[u].version = snap[p].credit.version
      /\ Commit(p, u, d, l.change, k, row)
  BY SettleCommitForm
<1>2. l # NoRow
  BY <1>1, CreditAssumption
<1>3. old # NoRow /\ old.uid = l.uid /\ old.change = l.change
  BY <1>1, <1>2 DEF SnapshotsAgree
<1>4. old \in LogRow
  BY <1>1, <1>3 DEF TypeOK
<1>5. row = new
  BY <1>1, <1>3 DEF LogRow
<1>6. s \in {"Active", "Inactive"}
  BY <1>1
<1>7. d = IF s = "Inactive" THEN -old.change ELSE 0
  BY <1>1, <1>3
<1>8. Leaves(p)
  BY <1>1, CommitLeaves
<1>13. snap[p].credit = credit[u]
  BY <1>1 DEF SnapshotsAgree
<1> HIDE DEF d, s, row
<1>9. /\ credit' = [credit EXCEPT ![u] = [total   |-> credit[u].total + d,
                                          locked  |-> credit[u].locked + l.change,
                                          version |-> credit[u].version + 1]]
      /\ creditLog' = [creditLog EXCEPT ![k] = row]
  BY <1>1, <1>13 DEF Commit
<1>10. old.uid = u
  BY <1>1, <1>3
<1>11. new.uid = u /\ new.change = old.change /\ new.status = s
  BY <1>10
<1>12. Effect(u, k, new, d, old.change)
  BY <1>1, <1>3, <1>5, <1>6, <1>9, <1>10, <1>11 DEF Effect
<1> QED
  BY <1>1, <1>4, <1>5, <1>6, <1>7, <1>8, <1>10, <1>12

\* Any step leaves the rows alone or is one of the three commits.
Commits(p) == UpsertCommit(p) \/ LockCommit(p) \/ SettleCommit(p)

LEMMA OnlyCommitsWrite ==
    ASSUME [Next]_vars
    PROVE  \/ credit' = credit /\ creditLog' = creditLog
           \/ \E p \in Procs : Commits(p)
BY ZenonT(60) DEF Next, vars, AddCredits, TryDeductCredits, ConfirmDeductCredits, CancelDeductCredits,
       Call, Begin, Step, Read, Upsert, CreateCreditLockLog, UpdateCreditLockLog, Commits,
       UpsertDuplicate, UpsertConflict, LockNoAccount, LockNotEnough, LockDuplicate,
       LockConflict, SettleNotFound, SettleRepeated, SettleInvalid, SettleConflict,
       Refuse, StartAgain, DBError, Expire, JobScan, JobCancel

\* A goroutine about to write has just read, or is where it was.
LEMMA WritersHaveRead ==
    ASSUME TypeOK, [Next]_vars, NEW q \in Procs, pc'[q] = "write"
    PROVE  \/ Read(q)
           \/ pc[q] = "write" /\ snap'[q] = snap[q] /\ req'[q] = req[q]
<1> USE DEF TypeOK
<1>1. ASSUME NEW p \in Procs, NEW r, Begin(p, r)
      PROVE  pc[q] = "write" /\ snap'[q] = snap[q] /\ req'[q] = req[q]
  BY <1>1 DEF Begin
<1>2. ASSUME NEW p \in Procs, NEW res, Answer(p, res)
      PROVE  pc[q] = "write" /\ snap'[q] = snap[q] /\ req'[q] = req[q]
  BY <1>2 DEF Answer
<1>3. ASSUME NEW p \in Procs, StartAgain(p) \/ DBError(p)
      PROVE  pc[q] = "write" /\ snap'[q] = snap[q] /\ req'[q] = req[q]
  BY <1>3 DEF StartAgain, DBError
<1>4. ASSUME NEW p \in Procs, Read(p), q # p
      PROVE  pc[q] = "write" /\ snap'[q] = snap[q] /\ req'[q] = req[q]
  BY <1>4 DEF Read
<1>5. ASSUME NEW w \in Workers,
             \/ AddCredits(w) \/ TryDeductCredits(w)
             \/ ConfirmDeductCredits(w) \/ CancelDeductCredits(w)
      PROVE  pc[q] = "write" /\ snap'[q] = snap[q] /\ req'[q] = req[q]
  <2>1. w \in Procs
    BY DEF Procs
  <2>2. \E r : Begin(w, r)
    BY <1>5 DEF AddCredits, TryDeductCredits, ConfirmDeductCredits, CancelDeductCredits, Call
  <2> QED
    BY <2>1, <2>2, <1>1
<1>6. ASSUME NEW p \in Procs, Step(p)
      PROVE  \/ Read(q)
             \/ pc[q] = "write" /\ snap'[q] = snap[q] /\ req'[q] = req[q]
  <2>1. \/ Read(p)
        \/ StartAgain(p)
        \/ \E res : Answer(p, res)
    BY <1>6 DEF Step, Upsert, CreateCreditLockLog, UpdateCreditLockLog, UpsertCommit,
                LockCommit, SettleCommit, UpsertDuplicate, UpsertConflict, LockNoAccount,
                LockNotEnough, LockDuplicate, LockConflict, SettleNotFound, SettleRepeated,
                SettleInvalid, SettleConflict, Commit, Refuse
  <2> QED
    BY <2>1, <1>2, <1>3, <1>4
<1>7. ASSUME (\E k \in Keys : Expire(k)) \/ JobScan \/ UNCHANGED vars
      PROVE  pc[q] = "write" /\ snap'[q] = snap[q] /\ req'[q] = req[q]
  BY <1>7 DEF Expire, JobScan, vars
<1>8. ASSUME JobCancel
      PROVE  pc[q] = "write" /\ snap'[q] = snap[q] /\ req'[q] = req[q]
  <2>1. Job \in Procs
    BY DEF Procs
  <2>2. \E r : Begin(Job, r)
    BY <1>8 DEF JobCancel
  <2> QED
    BY <2>1, <2>2, <1>1
<1> QED
  BY <1>3, <1>5, <1>6, <1>7, <1>8 DEF Next

\* A commit changes one row of each table, and no goroutine that is still
\* about to write has made it.
LEMMA CommitRows ==
    ASSUME TypeOK, SnapshotsAgree, NEW p \in Procs, Commits(p)
    PROVE  \E u \in Users, k \in Keys, row \in LogRow, dTotal \in Int, dLocked \in Int :
              Effect(u, k, row, dTotal, dLocked) /\ Leaves(p)
<1>1. CASE UpsertCommit(p)
  <2>1. PICK u \in Users, k \in Keys, a \in Amounts :
          LET row == [uid |-> u, change |-> a, status |-> "Active"]
          IN  row \in LogRow /\ creditLog[k] = NoRow /\ Effect(u, k, row, a, 0) /\ Leaves(p)
    BY <1>1, UpsertEffect
  <2>2. a \in Int /\ 0 \in Int
    BY CreditAssumption
  <2> QED
    BY <2>1, <2>2
<1>2. CASE LockCommit(p)
  <2>1. PICK u \in Users, k \in Keys, a \in Amounts :
          LET row == [uid |-> u, change |-> -a, status |-> "Locked"]
          IN  /\ row \in LogRow /\ creditLog[k] = NoRow /\ credit[u].total >= a
              /\ Effect(u, k, row, -a, a) /\ Leaves(p)
    BY <1>2, LockEffect
  <2>a. a \in Nat
    BY CreditAssumption
  <2>2. a \in Int /\ -a \in Int
    BY <2>a
  <2> QED
    BY <2>1, <2>2
<1>3. CASE SettleCommit(p)
  <2>1. PICK k \in Keys, s \in {"Active", "Inactive"} :
          LET old == creditLog[k]
              row == [uid |-> old.uid, change |-> old.change, status |-> s]
          IN  /\ old \in LogRow /\ old.status = "Locked" /\ row \in LogRow
              /\ Effect(old.uid, k, row,
                        IF s = "Inactive" THEN -old.change ELSE 0, old.change)
              /\ Leaves(p)
    BY <1>3, SettleEffect
  <2> DEFINE d == IF s = "Inactive" THEN -creditLog[k].change ELSE 0
  <2>2. creditLog[k] \in LogRow
    BY <2>1
  <2>3. creditLog[k].uid \in Users /\ creditLog[k].change \in Int /\ d \in Int
    BY <2>2 DEF LogRow
  <2> QED
    BY <2>1, <2>3
<1> QED
  BY <1>1, <1>2, <1>3 DEF Commits

LEMMA SnapshotsStep ==
    ASSUME TypeOK, SnapshotsAgree, [Next]_vars
    PROVE  SnapshotsAgree'
<1> SUFFICES ASSUME NEW q \in Procs, pc'[q] = "write"
             PROVE  LET c == snap'[q].credit
                        l == snap'[q].log
                        u == req'[q].uid
                        k == req'[q].key
                    IN  /\ c.version <= credit'[u].version
                        /\ c.version = credit'[u].version => c = credit'[u]
                        /\ l # NoRow =>
                             /\ creditLog'[k] # NoRow
                             /\ creditLog'[k].uid = l.uid
                             /\ creditLog'[k].change = l.change
                             /\ l.status # "Locked" => creditLog'[k].status = l.status
  BY DEF SnapshotsAgree
<1> DEFINE c == snap[q].credit
           l == snap[q].log
           u == req[q].uid
           k == req[q].key
<1>1. CASE Read(q)
  <2>1. req[q] \in Request
    BY <1>1 DEF Read, TypeOK
  <2>2. credit[u] \in CreditRow
    BY <2>1 DEF Request, TypeOK
  <2>3. snap'[q].credit = credit[u] /\ (snap'[q].log = NoRow \/ snap'[q].log = creditLog[k])
    BY <1>1 DEF Read, TypeOK
  <2>4. credit' = credit /\ creditLog' = creditLog /\ req' = req
    BY <1>1 DEF Read
  <2>5. credit[u].version <= credit[u].version
    BY <2>2 DEF CreditRow
  <2> QED
    BY <2>3, <2>4, <2>5
<1>2. CASE pc[q] = "write" /\ snap'[q] = snap[q] /\ req'[q] = req[q]
  <2>1. CASE credit' = credit /\ creditLog' = creditLog
    BY <1>2, <2>1 DEF SnapshotsAgree
  <2>2. ASSUME NEW p \in Procs, Commits(p)
        PROVE  /\ c.version <= credit'[u].version
               /\ c.version = credit'[u].version => c = credit'[u]
               /\ l # NoRow =>
                    /\ creditLog'[k] # NoRow
                    /\ creditLog'[k].uid = l.uid
                    /\ creditLog'[k].change = l.change
                    /\ l.status # "Locked" => creditLog'[k].status = l.status
    <3>1. PICK u1 \in Users, k1 \in Keys, row \in LogRow, dTotal \in Int, dLocked \in Int :
            Effect(u1, k1, row, dTotal, dLocked) /\ Leaves(p)
      BY <2>2, CommitRows
    <3>2. req[q] \in Request /\ snap[q] \in Snapshot
      BY <1>2 DEF TypeOK
    <3>3. u \in Users /\ k \in Keys /\ credit[u].version \in Nat /\ c.version \in Nat
      BY <3>2 DEF Request, Snapshot, CreditRow, TypeOK
    <3>4. c.version <= credit[u].version /\ (c.version = credit[u].version => c = credit[u])
      BY <1>2 DEF SnapshotsAgree
    <3>5. credit'[u] = credit[u] \/ credit'[u].version = credit[u].version + 1
      BY <3>1, <3>3 DEF Effect, TypeOK
    <3>6. c.version <= credit'[u].version /\ (c.version = credit'[u].version => c = credit'[u])
      BY <3>3, <3>4, <3>5
    <3>7. ASSUME l # NoRow
          PROVE  /\ creditLog'[k] # NoRow
                 /\ creditLog'[k].uid = l.uid
                 /\ creditLog'[k].change = l.change
                 /\ l.status # "Locked" => creditLog'[k].status = l.status
      <4>1. /\ creditLog[k] # NoRow
            /\ creditLog[k].uid = l.uid
            /\ creditLog[k].change = l.change
            /\ l.status # "Locked" => creditLog[k].status = l.status
        BY <1>2, <3>7 DEF SnapshotsAgree
      <4>2. CASE k # k1
        BY <3>1, <3>3, <4>1, <4>2 DEF Effect, TypeOK
      <4>3. CASE k = k1
        <5>1. creditLog'[k] = row
          BY <3>1, <3>3, <4>3 DEF Effect, TypeOK
        <5>2. row # NoRow
          BY CreditAssumption
        <5>3. creditLog[k].status = "Locked" /\ row.uid = creditLog[k].uid
              /\ row.change = creditLog[k].change
          BY <3>1, <4>1, <4>3 DEF Effect
        <5> QED
          BY <4>1, <5>1, <5>2, <5>3
      <4> QED
        BY <4>2, <4>3
    <3> QED
      BY <3>6, <3>7
  <2> QED
    BY <1>2, <2>1, <2>2, OnlyCommitsWrite
<1> QED
  BY <1>1, <1>2, WritersHaveRead

-----------------------------------------------------------------------------
(***************************************************************************)
(* The balances are sums over the log.                                     *)
(***************************************************************************)

\* What a row adds to a sum is a natural number.
LEMMA ContributionType ==
    ASSUME NEW row \in LogRow \cup {NoRow}, NEW u \in Users
    PROVE  EarnedBy(row, u) \in Nat /\ DeductedBy(row, u) \in Nat /\ HeldBy(row, u) \in Nat
<1>1. CASE row = NoRow
  BY <1>1 DEF EarnedBy, DeductedBy, HeldBy
<1>2. CASE row \in LogRow
  <2>1. row.change \in Int
    BY <1>2 DEF LogRow
  <2> QED
    BY <2>1 DEF EarnedBy, DeductedBy, HeldBy
<1> QED
  BY <1>1, <1>2

LEMMA SumsAreNat ==
    ASSUME TypeOK, NEW u \in Users
    PROVE  Earned(u) \in Nat /\ Deducted(u) \in Nat /\ Held(u) \in Nat
<1> DEFINE e == [k \in Keys |-> EarnedBy(creditLog[k], u)]
           d == [k \in Keys |-> DeductedBy(creditLog[k], u)]
           h == [k \in Keys |-> HeldBy(creditLog[k], u)]
<1>1. \A k \in Keys : e[k] \in Nat /\ d[k] \in Nat /\ h[k] \in Nat
  BY ContributionType DEF TypeOK
<1> HIDE DEF e, d, h
<1>2. SumOver(e, Keys) \in Nat /\ SumOver(d, Keys) \in Nat /\ SumOver(h, Keys) \in Nat
  BY <1>1, SumType, CreditAssumption
<1> QED
  BY <1>2 DEF Earned, Deducted, Held, e, d, h

\* Replacing one log row changes each sum by the difference of two rows.
LEMMA SumsChange ==
    ASSUME TypeOK, NEW u \in Users, NEW k \in Keys, NEW row \in LogRow,
           creditLog' = [creditLog EXCEPT ![k] = row]
    PROVE  /\ Earned(u)' = Earned(u) + EarnedBy(row, u) - EarnedBy(creditLog[k], u)
           /\ Deducted(u)' = Deducted(u) + DeductedBy(row, u) - DeductedBy(creditLog[k], u)
           /\ Held(u)' = Held(u) + HeldBy(row, u) - HeldBy(creditLog[k], u)
<1> DEFINE e1 == [j \in Keys |-> EarnedBy(creditLog[j], u)]
           e2 == [j \in Keys |-> EarnedBy(creditLog'[j], u)]
           d1 == [j \in Keys |-> DeductedBy(creditLog[j], u)]
           d2 == [j \in Keys |-> DeductedBy(creditLog'[j], u)]
           h1 == [j \in Keys |-> HeldBy(creditLog[j], u)]
           h2 == [j \in Keys |-> HeldBy(creditLog'[j], u)]
<1>1. \A j \in Keys : creditLog[j] \in LogRow \cup {NoRow} /\ creditLog'[j] \in LogRow \cup {NoRow}
  BY DEF TypeOK
<1>2. creditLog'[k] = row /\ \A j \in Keys \ {k} : creditLog'[j] = creditLog[j]
  BY DEF TypeOK
<1>3. \A j \in Keys : /\ e1[j] \in Nat /\ e2[j] \in Nat
                      /\ d1[j] \in Nat /\ d2[j] \in Nat
                      /\ h1[j] \in Nat /\ h2[j] \in Nat
  BY <1>1, ContributionType
<1>4. \A j \in Keys \ {k} : e2[j] = e1[j] /\ d2[j] = d1[j] /\ h2[j] = h1[j]
  BY <1>2
<1>5. /\ e1[k] = EarnedBy(creditLog[k], u) /\ e2[k] = EarnedBy(row, u)
      /\ d1[k] = DeductedBy(creditLog[k], u) /\ d2[k] = DeductedBy(row, u)
      /\ h1[k] = HeldBy(creditLog[k], u) /\ h2[k] = HeldBy(row, u)
  BY <1>2
<1>6. /\ Earned(u) = SumOver(e1, Keys) /\ Earned(u)' = SumOver(e2, Keys)
      /\ Deducted(u) = SumOver(d1, Keys) /\ Deducted(u)' = SumOver(d2, Keys)
      /\ Held(u) = SumOver(h1, Keys) /\ Held(u)' = SumOver(h2, Keys)
  BY DEF Earned, Deducted, Held
<1>7. IsFiniteSet(Keys)
  BY CreditAssumption
<1> HIDE DEF e1, e2, d1, d2, h1, h2
<1>8. SumOver(e2, Keys) = SumOver(e1, Keys) + e2[k] - e1[k]
  <2>1. (\A j \in Keys : e1[j] \in Nat) /\ (\A j \in Keys : e2[j] \in Nat)
    BY <1>3
  <2>2. \A j \in Keys \ {k} : e2[j] = e1[j]
    BY <1>4
  <2> QED
    BY ONLY <1>7, <2>1, <2>2, k \in Keys, SumChange
<1>9. SumOver(d2, Keys) = SumOver(d1, Keys) + d2[k] - d1[k]
  <2>1. (\A j \in Keys : d1[j] \in Nat) /\ (\A j \in Keys : d2[j] \in Nat)
    BY <1>3
  <2>2. \A j \in Keys \ {k} : d2[j] = d1[j]
    BY <1>4
  <2> QED
    BY ONLY <1>7, <2>1, <2>2, k \in Keys, SumChange
<1>10. SumOver(h2, Keys) = SumOver(h1, Keys) + h2[k] - h1[k]
  <2>1. (\A j \in Keys : h1[j] \in Nat) /\ (\A j \in Keys : h2[j] \in Nat)
    BY <1>3
  <2>2. \A j \in Keys \ {k} : h2[j] = h1[j]
    BY <1>4
  <2> QED
    BY ONLY <1>7, <2>1, <2>2, k \in Keys, SumChange
<1> QED
  BY <1>5, <1>6, <1>8, <1>9, <1>10

\* The balances still match if they change as the log row's contribution does.
LEMMA BalancesKept ==
    ASSUME TypeOK, BalancesMatchLog,
           NEW u \in Users, NEW k \in Keys, NEW row \in LogRow,
           NEW dTotal \in Int, NEW dLocked \in Int, Effect(u, k, row, dTotal, dLocked),
           dTotal = EarnedBy(row, u) - EarnedBy(creditLog[k], u)
                      - DeductedBy(row, u) + DeductedBy(creditLog[k], u),
           dLocked = HeldBy(row, u) - HeldBy(creditLog[k], u)
    PROVE  BalancesMatchLog'
<1> SUFFICES ASSUME NEW v \in Users
             PROVE  /\ credit'[v].locked = Held(v)'
                    /\ credit'[v].total = Earned(v)' - Deducted(v)'
  BY DEF BalancesMatchLog
<1> DEFINE old == creditLog[k]
<1>1. /\ Earned(v)' = Earned(v) + EarnedBy(row, v) - EarnedBy(old, v)
      /\ Deducted(v)' = Deducted(v) + DeductedBy(row, v) - DeductedBy(old, v)
      /\ Held(v)' = Held(v) + HeldBy(row, v) - HeldBy(old, v)
  BY SumsChange DEF Effect
<1>2. Earned(v) \in Nat /\ Deducted(v) \in Nat /\ Held(v) \in Nat
  BY SumsAreNat
<1>3. old \in LogRow \cup {NoRow} /\ row \in LogRow \cup {NoRow}
  BY DEF TypeOK
<1>4. /\ EarnedBy(row, v) \in Nat /\ DeductedBy(row, v) \in Nat /\ HeldBy(row, v) \in Nat
      /\ EarnedBy(old, v) \in Nat /\ DeductedBy(old, v) \in Nat /\ HeldBy(old, v) \in Nat
  BY <1>3, ContributionType
<1>5. credit[v].locked = Held(v) /\ credit[v].total = Earned(v) - Deducted(v)
  BY DEF BalancesMatchLog
<1>6. CASE v = u
  <2>1. credit'[u].total = credit[u].total + dTotal /\ credit'[u].locked = credit[u].locked + dLocked
    BY DEF Effect, TypeOK
  <2> QED
    BY <1>1, <1>2, <1>4, <1>5, <1>6, <2>1
<1>7. CASE v # u
  <2>1. credit'[v] = credit[v]
    BY <1>7 DEF Effect, TypeOK
  <2>2. /\ EarnedBy(row, v) = 0 /\ DeductedBy(row, v) = 0 /\ HeldBy(row, v) = 0
        /\ EarnedBy(old, v) = 0 /\ DeductedBy(old, v) = 0 /\ HeldBy(old, v) = 0
    BY <1>7 DEF Effect, EarnedBy, DeductedBy, HeldBy
  <2> QED
    BY <1>1, <1>2, <1>5, <2>1, <2>2
<1> QED
  BY <1>6, <1>7

\* The rest of the invariant is kept by each commit.
LEMMA UpsertKeeps ==
    ASSUME CreditInv, NEW p \in Procs, UpsertCommit(p)
    PROVE  HoldsAreDeductions' /\ BalancesMatchLog' /\ TotalsNonNegative'
<1> USE DEF CreditInv
<1>1. PICK u \in Users, k \in Keys, a \in Amounts :
        LET row == [uid |-> u, change |-> a, status |-> "Active"]
        IN  row \in LogRow /\ creditLog[k] = NoRow /\ Effect(u, k, row, a, 0) /\ Leaves(p)
  BY UpsertEffect
<1>a. a \in Nat
  BY CreditAssumption
<1> DEFINE row == [uid |-> u, change |-> a, status |-> "Active"]
<1>2. row \in LogRow /\ row # NoRow /\ row.uid = u /\ row.change = a /\ row.status = "Active"
  BY <1>1, CreditAssumption
<1> HIDE DEF row
<1>3. EarnedBy(row, u) = a /\ DeductedBy(row, u) = 0 /\ HeldBy(row, u) = 0
  BY <1>2, <1>a DEF EarnedBy, DeductedBy, HeldBy
<1>4. EarnedBy(NoRow, u) = 0 /\ DeductedBy(NoRow, u) = 0 /\ HeldBy(NoRow, u) = 0
  BY DEF EarnedBy, DeductedBy, HeldBy
<1>5. Effect(u, k, row, a, 0) /\ creditLog[k] = NoRow
  BY <1>1 DEF row
<1>6. BalancesMatchLog'
  <2>1. a \in Int /\ 0 \in Int
    BY <1>a
  <2>2. a = a - 0 - 0 + 0 /\ 0 = 0 - 0
    BY <1>a
  <2> QED
    BY <1>2, <1>3, <1>4, <1>5, <2>1, <2>2, BalancesKept
<1>7. HoldsAreDeductions'
  BY <1>2, <1>5, <1>a DEF Effect, HoldsAreDeductions, TypeOK
<1>8. TotalsNonNegative'
  BY <1>5, <1>a DEF Effect, TotalsNonNegative, TypeOK, CreditRow
<1> QED
  BY <1>6, <1>7, <1>8

LEMMA LockKeeps ==
    ASSUME CreditInv, NEW p \in Procs, LockCommit(p)
    PROVE  HoldsAreDeductions' /\ BalancesMatchLog' /\ TotalsNonNegative'
<1> USE DEF CreditInv
<1>1. PICK u \in Users, k \in Keys, a \in Amounts :
        LET row == [uid |-> u, change |-> -a, status |-> "Locked"]
        IN  /\ row \in LogRow /\ creditLog[k] = NoRow /\ credit[u].total >= a
            /\ Effect(u, k, row, -a, a) /\ Leaves(p)
  BY LockEffect
<1>a. a \in Nat
  BY CreditAssumption
<1> DEFINE row == [uid |-> u, change |-> -a, status |-> "Locked"]
<1>2. row \in LogRow /\ row # NoRow /\ row.uid = u /\ row.change = -a /\ row.status = "Locked"
  BY <1>1, CreditAssumption
<1>3. Effect(u, k, row, -a, a) /\ creditLog[k] = NoRow /\ credit[u].total >= a
  BY <1>1
<1> HIDE DEF row
<1>4. EarnedBy(row, u) = 0 /\ DeductedBy(row, u) = a /\ HeldBy(row, u) = a
  BY <1>2, <1>a DEF EarnedBy, DeductedBy, HeldBy
<1>5. EarnedBy(NoRow, u) = 0 /\ DeductedBy(NoRow, u) = 0 /\ HeldBy(NoRow, u) = 0
  BY DEF EarnedBy, DeductedBy, HeldBy
<1>6. BalancesMatchLog'
  <2>1. -a \in Int /\ a \in Int
    BY <1>a
  <2>2. -a = 0 - 0 - a + 0 /\ a = a - 0
    BY <1>a
  <2> QED
    BY <1>2, <1>3, <1>4, <1>5, <2>1, <2>2, BalancesKept
<1>7. HoldsAreDeductions'
  BY <1>2, <1>3, <1>a DEF Effect, HoldsAreDeductions, TypeOK
<1>8. TotalsNonNegative'
  BY <1>3, <1>a DEF Effect, TotalsNonNegative, TypeOK, CreditRow
<1> QED
  BY <1>6, <1>7, <1>8

LEMMA SettleKeeps ==
    ASSUME CreditInv, NEW p \in Procs, SettleCommit(p)
    PROVE  HoldsAreDeductions' /\ BalancesMatchLog' /\ TotalsNonNegative'
<1> USE DEF CreditInv
<1>1. PICK k \in Keys, s \in {"Active", "Inactive"} :
        LET old == creditLog[k]
            row == [uid |-> old.uid, change |-> old.change, status |-> s]
        IN  /\ old \in LogRow /\ old.status = "Locked" /\ row \in LogRow
            /\ Effect(old.uid, k, row,
                      IF s = "Inactive" THEN -old.change ELSE 0, old.change)
            /\ Leaves(p)
  BY SettleEffect
<1> DEFINE old == creditLog[k]
           u == old.uid
           n == old.change
           row == [uid |-> u, change |-> n, status |-> s]
           d == IF s = "Inactive" THEN -n ELSE 0
<1>2. /\ old \in LogRow /\ old # NoRow /\ old.status = "Locked"
      /\ row \in LogRow /\ row # NoRow
      /\ row.uid = u /\ row.change = n /\ row.status = s
      /\ Effect(u, k, row, d, n)
  BY <1>1, CreditAssumption
<1>3. u \in Users /\ n \in Int /\ d \in Int
  BY <1>2 DEF LogRow
<1>4. n <= 0
  BY <1>2 DEF HoldsAreDeductions
<1> HIDE DEF row, old
<1>5. /\ EarnedBy(row, u) = 0 /\ EarnedBy(old, u) = 0
      /\ HeldBy(row, u) = 0 /\ HeldBy(old, u) = -n
      /\ DeductedBy(row, u) = (IF s = "Inactive" THEN 0 ELSE -n)
      /\ DeductedBy(old, u) = -n
  BY <1>2, <1>3, <1>4 DEF EarnedBy, DeductedBy, HeldBy
<1>6. /\ d = EarnedBy(row, u) - EarnedBy(old, u) - DeductedBy(row, u) + DeductedBy(old, u)
      /\ n = HeldBy(row, u) - HeldBy(old, u)
  BY <1>3, <1>5
<1>7. BalancesMatchLog'
  BY <1>2, <1>3, <1>6, BalancesKept DEF old
<1>8. HoldsAreDeductions'
  BY <1>2 DEF Effect, HoldsAreDeductions, TypeOK
<1>9. TotalsNonNegative'
  BY <1>2, <1>3, <1>4 DEF Effect, TotalsNonNegative, TypeOK, CreditRow
<1> QED
  BY <1>7, <1>8, <1>9

LEMMA CreditInvInit == Init => CreditInv
<1> SUFFICES ASSUME Init PROVE CreditInv
  OBVIOUS
<1>1. TypeOK
  BY TypeInit
<1>2. SnapshotsAgree /\ HoldsAreDeductions
  BY DEF Init, SnapshotsAgree, HoldsAreDeductions
<1>3. TotalsNonNegative
  BY DEF Init, TotalsNonNegative, NoCredit
<1>4. ASSUME NEW u \in Users
      PROVE  credit[u].locked = Held(u) /\ credit[u].total = Earned(u) - Deducted(u)
  <2> DEFINE e == [k \in Keys |-> EarnedBy(creditLog[k], u)]
             d == [k \in Keys |-> DeductedBy(creditLog[k], u)]
             h == [k \in Keys |-> HeldBy(creditLog[k], u)]
  <2>1. \A k \in Keys : e[k] = 0 /\ d[k] = 0 /\ h[k] = 0
    BY DEF Init, EarnedBy, DeductedBy, HeldBy
  <2>2. credit[u].locked = 0 /\ credit[u].total = 0
    BY DEF Init, NoCredit
  <2> HIDE DEF e, d, h
  <2>3. SumOver(e, Keys) = 0
    BY <2>1, SumZero
  <2>4. SumOver(d, Keys) = 0
    BY <2>1, SumZero
  <2>5. SumOver(h, Keys) = 0
    BY <2>1, SumZero
  <2>6. Earned(u) = 0 /\ Deducted(u) = 0 /\ Held(u) = 0
    BY <2>3, <2>4, <2>5 DEF Earned, Deducted, Held, e, d, h
  <2> QED
    BY <2>2, <2>6
<1> QED
  BY <1>1, <1>2, <1>3, <1>4 DEF CreditInv, BalancesMatchLog

LEMMA CreditInvNext == CreditInv /\ [Next]_vars => CreditInv'
<1> SUFFICES ASSUME CreditInv, [Next]_vars PROVE CreditInv'
  OBVIOUS
<1>1. TypeOK'
  BY TypeNext DEF CreditInv
<1>2. SnapshotsAgree'
  BY SnapshotsStep DEF CreditInv
<1>3. HoldsAreDeductions' /\ BalancesMatchLog' /\ TotalsNonNegative'
  <2>1. CASE credit' = credit /\ creditLog' = creditLog
    BY <2>1 DEF CreditInv, HoldsAreDeductions, TotalsNonNegative, BalancesMatchLog,
                Earned, Deducted, Held
  <2>2. ASSUME NEW p \in Procs, Commits(p)
        PROVE  HoldsAreDeductions' /\ BalancesMatchLog' /\ TotalsNonNegative'
    BY <2>2, UpsertKeeps, LockKeeps, SettleKeeps DEF Commits
  <2> QED
    BY <2>1, <2>2, OnlyCommitsWrite
<1> QED
  BY <1>1, <1>2, <1>3 DEF CreditInv

\* What was written of a row is never rewritten.
Kept(k) ==
    /\ creditLog'[k] # NoRow
    /\ creditLog'[k].uid = creditLog[k].uid
    /\ creditLog'[k].change = creditLog[k].change
    /\ creditLog[k].status # "Locked" => creditLog'[k].status = creditLog[k].status

LEMMA RowsAreKept ==
    ASSUME CreditInv, [Next]_vars, NEW k \in Keys, creditLog[k] # NoRow
    PROVE  Kept(k)
<1>1. CASE creditLog' = creditLog
  BY <1>1 DEF Kept
<1>2. ASSUME NEW p \in Procs, Commits(p)
      PROVE  Kept(k)
  <2>1. PICK u1 \in Users, k1 \in Keys, row \in LogRow, dTotal \in Int, dLocked \in Int :
          Effect(u1, k1, row, dTotal, dLocked) /\ Leaves(p)
    BY <1>2, CommitRows DEF CreditInv
  <2>2. creditLog \in [Keys -> LogRow \cup {NoRow}] /\ row # NoRow
    BY CreditAssumption DEF CreditInv, TypeOK
  <2>3. CASE k = k1
    BY <2>1, <2>2, <2>3 DEF Effect, Kept
  <2>4. CASE k # k1
    BY <2>1, <2>2, <2>4 DEF Effect, Kept
  <2> QED
    BY <2>3, <2>4
<1> QED
  BY <1>1, <1>2, OnlyCommitsWrite

-----------------------------------------------------------------------------
(***************************************************************************)
(* The theorems.                                                           *)
(***************************************************************************)
\* The strengthening of the safety properties that is inductive.
THEOREM CreditInvariant == Spec => []CreditInv
<1> QED
  BY CreditInvInit, CreditInvNext, PTL DEF Spec

\* However many goroutines race, the two balances of every user stay the sums
\* that the log rows give: upsert, createCreditLockLog and
\* updateCreditLockLog lose no update and apply none twice.
THEOREM BalancesCorrect == Spec => []BalancesMatchLog
<1>1. CreditInv => BalancesMatchLog
  BY DEF CreditInv
<1> QED
  BY <1>1, CreditInvariant, PTL

\* Neither uint64 balance is ever taken below zero.
THEOREM BalancesDoNotUnderflow == Spec => []NoUnderflow
<1>1. CreditInv => NoUnderflow
  <2> SUFFICES ASSUME CreditInv, NEW u \in Users
               PROVE  credit[u].total >= 0 /\ credit[u].locked >= 0
    BY DEF NoUnderflow
  <2>1. credit[u].total >= 0 /\ credit[u].locked = Held(u)
    BY DEF CreditInv, TotalsNonNegative, BalancesMatchLog
  <2>2. Held(u) \in Nat
    BY SumsAreNat DEF CreditInv
  <2> QED
    BY <2>1, <2>2
<1> QED
  BY <1>1, CreditInvariant, PTL

\* No step rewrites a settled log row or changes what a row is about.
THEOREM SettledLogsAreFinal == Spec => SettledIsFinal
<1>1. ASSUME CreditInv, [Next]_vars, NEW k \in Keys, creditLog[k] # NoRow
      PROVE  /\ creditLog'[k] # NoRow
             /\ creditLog'[k].uid = creditLog[k].uid
             /\ creditLog'[k].change = creditLog[k].change
             /\ creditLog[k].status # "Locked" => creditLog'[k].status = creditLog[k].status
  BY <1>1, RowsAreKept DEF Kept
<1> DEFINE Final == \A k \in Keys : creditLog[k] # NoRow =>
                      /\ creditLog'[k] # NoRow
                      /\ creditLog'[k].uid = creditLog[k].uid
                      /\ creditLog'[k].change = creditLog[k].change
                      /\ creditLog[k].status # "Locked" =>
                            creditLog'[k].status = creditLog[k].status
<1>2. CreditInv /\ [Next]_vars => [Final]_vars
  BY <1>1
<1> QED
  BY <1>2, CreditInvariant, PTL DEF Spec, SettledIsFinal

-----------------------------------------------------------------------------
(* The refinement of CreditLedger. *)

\* The ledger's two functions.
Totals == [v \in Users |-> credit[v].total]
LockedTotals == [v \in Users |-> credit[v].locked]

LEMMA InitRefines == Init => Ledger!LedgerInit
BY DEF Init, Ledger!LedgerInit, NoCredit

\* A column of the table of which one row is written.
LEMMA ColumnWritten ==
    ASSUME NEW S, NEW f, NEW g, NEW u \in S, NEW x,
           f = [v \in S |-> f[v]], g = [v \in S |-> g[v]],
           g[u] = x, \A v \in S \ {u} : g[v] = f[v]
    PROVE  g = [f EXCEPT ![u] = x]
OBVIOUS

\* The two columns of a Credit row a commit writes.
LEMMA EffectOnBalances ==
    ASSUME TypeOK, NEW u \in Users, NEW k \in Keys, NEW row \in LogRow,
           NEW dTotal \in Int, NEW dLocked \in Int, Effect(u, k, row, dTotal, dLocked)
    PROVE  /\ Totals' = [Totals EXCEPT ![u] = Totals[u] + dTotal]
           /\ LockedTotals' = [LockedTotals EXCEPT ![u] = LockedTotals[u] + dLocked]
           /\ dTotal = 0 => Totals' = Totals
           /\ Totals[u] \in Int
<1> USE DEF Totals, LockedTotals
<1>1. /\ credit'[u].total = credit[u].total + dTotal
      /\ credit'[u].locked = credit[u].locked + dLocked
  BY DEF Effect, TypeOK
<1>2. \A v \in Users \ {u} : credit'[v] = credit[v]
  BY DEF Effect, TypeOK
<1>3. Totals'[u] = Totals[u] + dTotal /\ \A v \in Users \ {u} : Totals'[v] = Totals[v]
  BY <1>1, <1>2
<1>4. LockedTotals'[u] = LockedTotals[u] + dLocked /\ \A v \in Users \ {u} : LockedTotals'[v] = LockedTotals[v]
  BY <1>1, <1>2
<1>5. /\ Totals = [v \in Users |-> Totals[v]] /\ Totals' = [v \in Users |-> Totals'[v]]
      /\ LockedTotals = [v \in Users |-> LockedTotals[v]] /\ LockedTotals' = [v \in Users |-> LockedTotals'[v]]
  OBVIOUS
<1>6. Totals[u] \in Int
  BY DEF TypeOK, CreditRow
<1> HIDE DEF Totals, LockedTotals
<1>7. Totals' = [Totals EXCEPT ![u] = Totals[u] + dTotal]
  BY <1>3, <1>5, ColumnWritten
<1>8. LockedTotals' = [LockedTotals EXCEPT ![u] = LockedTotals[u] + dLocked]
  BY <1>4, <1>5, ColumnWritten
<1>9. ASSUME dTotal = 0
      PROVE  Totals' = Totals
  <2>1. Totals[u] + dTotal = Totals[u]
    BY <1>6, <1>9
  <2>2. \A v \in Users : Totals'[v] = Totals[v]
    BY <1>3, <2>1
  <2> QED
    BY <1>5, <2>2
<1> QED
  BY <1>6, <1>7, <1>8, <1>9

\* A commit that changes only what is available.
LEMMA EffectKeepsLocked ==
    ASSUME TypeOK, NEW u \in Users, NEW k, NEW row, NEW dTotal, Effect(u, k, row, dTotal, 0)
    PROVE  LockedTotals' = LockedTotals
<1>1. credit[u].locked \in Int
  BY DEF TypeOK, CreditRow
<1>2. credit'[u].locked = credit[u].locked + 0
  BY DEF Effect, TypeOK
<1>3. credit'[u].locked = credit[u].locked
  BY <1>1, <1>2
<1>4. \A v \in Users \ {u} : credit'[v] = credit[v]
  BY DEF Effect, TypeOK
<1> QED
  BY <1>3, <1>4 DEF LockedTotals

LEMMA UpsertRefines ==
    ASSUME CreditInv, NEW p \in Procs, UpsertCommit(p)
    PROVE  Ledger!LedgerNext
<1>1. PICK u \in Users, k \in Keys, a \in Amounts :
        LET row == [uid |-> u, change |-> a, status |-> "Active"]
        IN  row \in LogRow /\ creditLog[k] = NoRow /\ Effect(u, k, row, a, 0) /\ Leaves(p)
  BY UpsertEffect DEF CreditInv
<1> DEFINE row == Ledger!LedgerEntry(u, a, "Active")
<1>2. a \in Nat
  BY CreditAssumption
<1>3. a \in Int /\ 0 \in Int
  BY <1>2
<1>4. TypeOK /\ row \in LogRow /\ Effect(u, k, row, a, 0)
  BY <1>1 DEF CreditInv, Ledger!LedgerEntry
<1> HIDE DEF row
<1>5. Totals' = [Totals EXCEPT ![u] = Totals[u] + a] /\ LockedTotals' = [LockedTotals EXCEPT ![u] = LockedTotals[u] + 0]
  BY <1>3, <1>4, EffectOnBalances
<1>6. LockedTotals' = LockedTotals
  BY <1>4, EffectKeepsLocked
<1>7. creditLog' = [creditLog EXCEPT ![k] = row]
  BY <1>4 DEF Effect
<1>8. Ledger!Grant(u, k, a)
  BY <1>1, <1>5, <1>6, <1>7 DEF Ledger!Grant, Totals, LockedTotals, row
<1> QED
  BY <1>8 DEF Ledger!LedgerNext

LEMMA LockRefines ==
    ASSUME CreditInv, NEW p \in Procs, LockCommit(p)
    PROVE  Ledger!LedgerNext
<1>1. PICK u \in Users, k \in Keys, a \in Amounts :
        LET row == [uid |-> u, change |-> -a, status |-> "Locked"]
        IN  /\ row \in LogRow /\ creditLog[k] = NoRow /\ credit[u].total >= a
            /\ Effect(u, k, row, -a, a) /\ Leaves(p)
  BY LockEffect DEF CreditInv
<1> DEFINE row == Ledger!LedgerEntry(u, -a, "Locked")
<1>2. a \in Nat
  BY CreditAssumption
<1>3. a \in Int /\ -a \in Int
  BY <1>2
<1>4. TypeOK /\ row \in LogRow /\ Effect(u, k, row, -a, a)
  BY <1>1 DEF CreditInv, Ledger!LedgerEntry
<1> HIDE DEF row
<1>5. /\ Totals' = [Totals EXCEPT ![u] = Totals[u] + (-a)]
      /\ LockedTotals' = [LockedTotals EXCEPT ![u] = LockedTotals[u] + a]
      /\ Totals[u] \in Int
  BY <1>3, <1>4, EffectOnBalances
<1>6. Totals[u] + (-a) = Totals[u] - a
  BY <1>2, <1>5
<1>7. Totals' = [Totals EXCEPT ![u] = Totals[u] - a]
  BY <1>5, <1>6
<1>8. creditLog' = [creditLog EXCEPT ![k] = row]
  BY <1>4 DEF Effect
<1>9. Totals[u] >= a
  BY <1>1 DEF Totals
<1>10. Ledger!Hold(u, k, a)
  BY <1>1, <1>5, <1>7, <1>8, <1>9 DEF Ledger!Hold, Totals, LockedTotals, row
<1> QED
  BY <1>10 DEF Ledger!LedgerNext

LEMMA SettleRefines ==
    ASSUME CreditInv, NEW p \in Procs, SettleCommit(p)
    PROVE  Ledger!LedgerNext
<1>1. PICK k \in Keys, s \in {"Active", "Inactive"} :
        LET old == creditLog[k]
            row == [uid |-> old.uid, change |-> old.change, status |-> s]
        IN  /\ old \in LogRow /\ old.status = "Locked" /\ row \in LogRow
            /\ Effect(old.uid, k, row,
                      IF s = "Inactive" THEN -old.change ELSE 0, old.change)
            /\ Leaves(p)
  BY SettleEffect DEF CreditInv
<1> DEFINE old == creditLog[k]
           u == old.uid
           n == old.change
           d == IF s = "Inactive" THEN -n ELSE 0
           row == [uid |-> u, change |-> n, status |-> s]
<1>2. old \in LogRow /\ old.status = "Locked" /\ row \in LogRow /\ Effect(u, k, row, d, n)
  BY <1>1
<1>3. u \in Users /\ n \in Int /\ d \in Int /\ old # NoRow
  BY <1>2, CreditAssumption DEF LogRow
<1>4. row = [old EXCEPT !.status = s]
  BY <1>2 DEF LogRow
<1>5. TypeOK
  BY DEF CreditInv
<1>6. (s = "Inactive" => d = -n) /\ (s = "Active" => d = 0)
  OBVIOUS
<1> HIDE DEF row, d
<1>7. /\ Totals' = [Totals EXCEPT ![u] = Totals[u] + d]
      /\ LockedTotals' = [LockedTotals EXCEPT ![u] = LockedTotals[u] + n]
      /\ d = 0 => Totals' = Totals
      /\ Totals[u] \in Int
  BY <1>2, <1>3, <1>5, EffectOnBalances
<1>8. creditLog' = [creditLog EXCEPT ![k].status = s]
  BY <1>2, <1>4 DEF Effect
<1>9. CASE s = "Active"
  <2>1. Ledger!Spend(k)
    BY <1>2, <1>3, <1>6, <1>7, <1>8, <1>9 DEF Ledger!Spend, Totals, LockedTotals
  <2> QED
    BY <2>1 DEF Ledger!LedgerNext
<1>10. CASE s = "Inactive"
  <2>1. Totals[u] + d = Totals[u] - n
    BY <1>3, <1>6, <1>7, <1>10
  <2>2. Totals' = [Totals EXCEPT ![u] = Totals[u] - n]
    BY <1>7, <2>1
  <2>3. Ledger!Release(k)
    BY <1>2, <1>3, <1>7, <1>8, <1>10, <2>2 DEF Ledger!Release, Totals, LockedTotals
  <2> QED
    BY <2>3 DEF Ledger!LedgerNext
<1> QED
  BY <1>9, <1>10

LEMMA NextRefines == CreditInv /\ [Next]_vars => [Ledger!LedgerNext]_(Ledger!ledgerVars)
<1> SUFFICES ASSUME CreditInv, [Next]_vars
             PROVE  Ledger!LedgerNext \/ UNCHANGED Ledger!ledgerVars
  OBVIOUS
<1>1. CASE credit' = credit /\ creditLog' = creditLog
  BY <1>1 DEF Ledger!ledgerVars
<1>2. ASSUME NEW p \in Procs, Commits(p)
      PROVE  Ledger!LedgerNext
  BY <1>2, UpsertRefines, LockRefines, SettleRefines DEF Commits
<1> QED
  BY <1>1, <1>2, OnlyCommitsWrite

\* The versioned and retried transactions of credit.go implement the atomic
\* ledger the rest of the system relies on.
THEOREM CreditImplementsLedger == Spec => LedgerImplemented
<1> QED
  BY InitRefines, NextRefines, CreditInvariant, PTL
     DEF Spec, LedgerImplemented, Ledger!LedgerSpec

-----------------------------------------------------------------------------
(***************************************************************************)
(* Answers.                                                                *)
(***************************************************************************)

\* Whoever has a log row has a Credit row.
RowsHaveAccounts == \A k \in Keys : creditLog[k] # NoRow => credit[creditLog[k].uid].version # 0

\* Whoever settles has the id of a row, and has read it once the transaction
\* is about to write; an owner's Credit row was there with it.
Settling(p) == req[p].op \in {"confirm", "cancel"}

SettlersHaveRows ==
    \A p \in Procs :
        /\ pc[p] # "idle" /\ Settling(p) => creditLog[req[p].key] # NoRow
        /\ pc[p] = "write" /\ Settling(p) =>
              /\ snap[p].log # NoRow
              /\ snap[p].log.uid = req[p].uid => snap[p].credit.version # 0

AnswersInv == CreditInv /\ RowsHaveAccounts /\ SettlersHaveRows /\ AnswersHold

\* No Credit row disappears, and a new log row comes with one.
LEMMA AccountsStep ==
    ASSUME CreditInv, RowsHaveAccounts, [Next]_vars
    PROVE  RowsHaveAccounts'
<1>1. CASE credit' = credit /\ creditLog' = creditLog
  BY <1>1 DEF RowsHaveAccounts
<1>2. ASSUME NEW p \in Procs, Commits(p)
      PROVE  RowsHaveAccounts'
  <2>1. PICK u1 \in Users, k1 \in Keys, row \in LogRow, dTotal \in Int, dLocked \in Int :
          Effect(u1, k1, row, dTotal, dLocked) /\ Leaves(p)
    BY <1>2, CommitRows DEF CreditInv
  <2>2. /\ creditLog \in [Keys -> LogRow \cup {NoRow}]
        /\ credit \in [Users -> CreditRow]
    BY DEF CreditInv, TypeOK
  <2>3. \A u \in Users : credit[u].version \in Nat
    BY <2>2 DEF CreditRow
  <2>4. \A u \in Users : credit[u].version # 0 => credit'[u].version # 0
    BY <2>1, <2>2, <2>3 DEF Effect
  <2>5. credit'[u1].version # 0
    BY <2>1, <2>2, <2>3 DEF Effect
  <2>6. ASSUME NEW k \in Keys, creditLog'[k] # NoRow
        PROVE  credit'[creditLog'[k].uid].version # 0
    <3>1. CASE k = k1
      BY <2>1, <2>2, <2>5, <3>1 DEF Effect
    <3>2. CASE k # k1
      <4>1. creditLog'[k] = creditLog[k]
        BY <2>1, <2>2, <3>2 DEF Effect
      <4>2. creditLog[k].uid \in Users
        BY <2>2, <2>6, <4>1 DEF LogRow
      <4> QED
        BY <2>4, <2>6, <4>1, <4>2 DEF RowsHaveAccounts
    <3> QED
      BY <3>1, <3>2
  <2> QED
    BY <2>6 DEF RowsHaveAccounts
<1> QED
  BY <1>1, <1>2, OnlyCommitsWrite

\* Who starts to settle names a row that is there.
LEMMA CallsStep ==
    ASSUME CreditInv, [Next]_vars, NEW q \in Procs, pc'[q] # "idle", Settling(q)',
           pc[q] = "idle"
    PROVE  req'[q].key \in Keys /\ creditLog[req'[q].key] # NoRow
<1> USE DEF CreditInv, TypeOK
<1>1. ASSUME NEW p \in Procs, NEW r, Begin(p, r)
      PROVE  q = p /\ req'[q] = r
  BY <1>1 DEF Begin
<1>2. ASSUME NEW w \in Workers, AddCredits(w) \/ TryDeductCredits(w)
      PROVE  FALSE
  <2>1. w \in Procs
    BY DEF Procs
  <2>2. PICK op \in {"add", "deduct"}, u \in Users, k \in Keys, a \in Amounts : Call(w, op, u, k, a)
    BY <1>2 DEF AddCredits, TryDeductCredits
  <2>3. req'[q] = [op |-> op, uid |-> u, key |-> k, amount |-> a]
    BY <1>1, <2>1, <2>2 DEF Call
  <2> QED
    BY <2>3 DEF Settling
<1>3. ASSUME NEW w \in Workers, ConfirmDeductCredits(w) \/ CancelDeductCredits(w)
      PROVE  req'[q].key \in Keys /\ creditLog[req'[q].key] # NoRow
  <2>1. w \in Procs
    BY DEF Procs
  <2>2. PICK op \in {"confirm", "cancel"}, u \in Users, k \in Keys :
          creditLog[k] # NoRow /\ Call(w, op, u, k, 0)
    BY <1>3 DEF ConfirmDeductCredits, CancelDeductCredits
  <2>3. req'[q] = [op |-> op, uid |-> u, key |-> k, amount |-> 0]
    BY <1>1, <2>1, <2>2 DEF Call
  <2> QED
    BY <2>2, <2>3
<1>4. ASSUME JobCancel
      PROVE  req'[q].key \in Keys /\ creditLog[req'[q].key] # NoRow
  <2>1. Job \in Procs
    BY DEF Procs
  <2>2. \E r : Begin(Job, r) /\ r.key \in Keys /\ creditLog[r.key] # NoRow
    BY <1>4 DEF JobCancel
  <2> QED
    BY <1>1, <2>1, <2>2
<1>5. ASSUME NEW p \in Procs, Step(p) \/ DBError(p)
      PROVE  FALSE
  <2>1. CASE Read(p) \/ DBError(p)
    BY <2>1 DEF Read, DBError
  <2>2. CASE \/ StartAgain(p) /\ pc[p] = "write"
             \/ \E res : Answer(p, res)
    BY <2>2 DEF StartAgain, Answer
  <2> QED
    BY <1>5, <2>1, <2>2
       DEF Step, Upsert, CreateCreditLockLog, UpdateCreditLockLog, UpsertCommit,
           LockCommit, SettleCommit, UpsertDuplicate, UpsertConflict, LockNoAccount,
           LockNotEnough, LockDuplicate, LockConflict, SettleNotFound, SettleRepeated,
           SettleInvalid, SettleConflict, Commit, Refuse, Writing
<1>6. ASSUME (\E k \in Keys : Expire(k)) \/ JobScan \/ UNCHANGED vars
      PROVE  FALSE
  BY <1>6 DEF Expire, JobScan, vars
<1> QED
  BY <1>2, <1>3, <1>4, <1>5, <1>6 DEF Next

\* Inside a transaction the call stays what it is.
LEMMA CallsGoOn ==
    ASSUME CreditInv, [Next]_vars, NEW q \in Procs, pc[q] # "idle"
    PROVE  req'[q] = req[q]
<1> USE DEF CreditInv, TypeOK
<1>1. ASSUME NEW p \in Procs, NEW r, Begin(p, r)
      PROVE  req'[q] = req[q]
  BY <1>1 DEF Begin
<1>2. ASSUME NEW w \in Workers,
             \/ AddCredits(w) \/ TryDeductCredits(w)
             \/ ConfirmDeductCredits(w) \/ CancelDeductCredits(w)
      PROVE  req'[q] = req[q]
  <2>1. w \in Procs
    BY DEF Procs
  <2>2. \E r : Begin(w, r)
    BY <1>2 DEF AddCredits, TryDeductCredits, ConfirmDeductCredits, CancelDeductCredits, Call
  <2> QED
    BY <1>1, <2>1, <2>2
<1>3. CASE JobCancel
  <2>1. Job \in Procs /\ \E r : Begin(Job, r)
    BY <1>3 DEF JobCancel, Procs
  <2> QED
    BY <1>1, <2>1
<1>4. ASSUME NEW p \in Procs, Step(p) \/ DBError(p)
      PROVE  req' = req
  <2>1. CASE Read(p) \/ DBError(p)
    BY <2>1 DEF Read, DBError
  <2>2. CASE StartAgain(p) \/ \E res : Answer(p, res)
    BY <2>2 DEF StartAgain, Answer
  <2> QED
    BY <1>4, <2>1, <2>2
       DEF Step, Upsert, CreateCreditLockLog, UpdateCreditLockLog, UpsertCommit,
           LockCommit, SettleCommit, UpsertDuplicate, UpsertConflict, LockNoAccount,
           LockNotEnough, LockDuplicate, LockConflict, SettleNotFound, SettleRepeated,
           SettleInvalid, SettleConflict, Commit, Refuse
<1>5. CASE (\E k \in Keys : Expire(k)) \/ JobScan \/ UNCHANGED vars
  BY <1>5 DEF Expire, JobScan, vars
<1> QED
  BY <1>2, <1>3, <1>4, <1>5 DEF Next

LEMMA SettlersStep ==
    ASSUME CreditInv, RowsHaveAccounts, SettlersHaveRows, [Next]_vars
    PROVE  SettlersHaveRows'
<1> SUFFICES ASSUME NEW q \in Procs, Settling(q)'
             PROVE  /\ pc'[q] # "idle" => creditLog'[req'[q].key] # NoRow
                    /\ pc'[q] = "write" =>
                          /\ snap'[q].log # NoRow
                          /\ snap'[q].log.uid = req'[q].uid => snap'[q].credit.version # 0
  BY DEF SettlersHaveRows
<1>1. ASSUME pc'[q] # "idle"
      PROVE  creditLog'[req'[q].key] # NoRow
  <2>1. CASE pc[q] = "idle"
    BY <1>1, <2>1, CallsStep, RowsAreKept DEF Kept
  <2>2. CASE pc[q] # "idle"
    <3>1. req'[q] = req[q] /\ req[q] \in Request
      BY <2>2, CallsGoOn DEF CreditInv, TypeOK
    <3>2. req[q].key \in Keys /\ creditLog[req[q].key] # NoRow
      BY <2>2, <3>1 DEF SettlersHaveRows, Settling, Request
    <3> QED
      BY <3>1, <3>2, RowsAreKept DEF Kept
  <2> QED
    BY <2>1, <2>2
<1>2. ASSUME pc'[q] = "write"
      PROVE  /\ snap'[q].log # NoRow
             /\ snap'[q].log.uid = req'[q].uid => snap'[q].credit.version # 0
  <2>1. CASE Read(q)
    <3>1. req' = req /\ pc[q] # "idle" /\ req[q] \in Request
      BY <2>1 DEF Read, CreditInv, TypeOK
    <3>2. req[q].key \in Keys /\ creditLog[req[q].key] # NoRow
      BY <3>1 DEF SettlersHaveRows, Settling, Request
    <3>3. snap'[q].log = creditLog[req[q].key] /\ snap'[q].credit = credit[req[q].uid]
      BY <2>1, <3>1 DEF Read, CreditInv, TypeOK, Settling
    <3> QED
      BY <3>1, <3>2, <3>3 DEF RowsHaveAccounts
  <2>2. CASE pc[q] = "write" /\ snap'[q] = snap[q] /\ req'[q] = req[q]
    BY <2>2 DEF SettlersHaveRows, Settling
  <2> QED
    BY <1>2, <2>1, <2>2, WritersHaveRead DEF CreditInv
<1> QED
  BY <1>1, <1>2

\* The steps that answer a call with ok.
Accepts(p) ==
    \/ Commits(p)
    \/ LockNotEnough(p) /\ snap[p].log # NoRow
    \/ LockDuplicate(p)
    \/ SettleNotFound(p) /\ req[p].op = "cancel"
    \/ SettleRepeated(p)

\* A call that has been answered was answered before, or is by such a step.
LEMMA NewAnswers ==
    ASSUME CreditInv, [Next]_vars, NEW q \in Procs, answer'[q] = "ok"
    PROVE  \/ answer[q] = "ok" /\ req'[q] = req[q]
           \/ Accepts(q) /\ req'[q] = req[q]
<1> USE DEF CreditInv, TypeOK
<1>1. ASSUME NEW p \in Procs, NEW r, Begin(p, r)
      PROVE  answer[q] = "ok" /\ req'[q] = req[q]
  BY <1>1 DEF Begin
<1>2. ASSUME NEW w \in Workers,
             \/ AddCredits(w) \/ TryDeductCredits(w)
             \/ ConfirmDeductCredits(w) \/ CancelDeductCredits(w)
      PROVE  answer[q] = "ok" /\ req'[q] = req[q]
  <2>1. w \in Procs
    BY DEF Procs
  <2>2. \E r : Begin(w, r)
    BY <1>2 DEF AddCredits, TryDeductCredits, ConfirmDeductCredits, CancelDeductCredits, Call
  <2> QED
    BY <1>1, <2>1, <2>2
<1>3. CASE JobCancel
  <2>1. Job \in Procs /\ \E r : Begin(Job, r)
    BY <1>3 DEF JobCancel, Procs
  <2> QED
    BY <1>1, <2>1
<1>4. ASSUME NEW p \in Procs, StartAgain(p) \/ Read(p) \/ DBError(p)
      PROVE  answer[q] = "ok" /\ req'[q] = req[q]
  BY <1>4 DEF StartAgain, Read, DBError
<1>5. ASSUME NEW p \in Procs, NEW res, res # "ok", Answer(p, res)
      PROVE  answer[q] = "ok" /\ req'[q] = req[q]
  BY <1>5 DEF Answer
<1>6. ASSUME NEW p \in Procs, NEW res, Answer(p, res)
      PROVE  req'[q] = req[q] /\ (q = p \/ answer[q] = "ok")
  BY <1>6 DEF Answer
<1>7. ASSUME NEW p \in Procs, Accepts(p)
      PROVE  req'[q] = req[q] /\ (q = p \/ answer[q] = "ok")
  <2>1. \E res : Answer(p, res)
    BY <1>7 DEF Accepts, Commits, UpsertCommit, LockNotEnough, LockCommit, LockDuplicate,
                SettleNotFound, SettleRepeated, SettleCommit, Commit, Refuse
  <2> QED
    BY <1>6, <2>1
<1>8. ASSUME NEW p \in Procs, Step(p)
      PROVE  Accepts(p) \/ StartAgain(p) \/ Read(p) \/ \E res : res # "ok" /\ Answer(p, res)
  <2>1. CASE Upsert(p)
    BY <2>1 DEF Upsert, Accepts, Commits, UpsertDuplicate, UpsertConflict, Refuse
  <2>2. CASE CreateCreditLockLog(p)
    BY <2>2 DEF CreateCreditLockLog, Accepts, Commits, LockNoAccount, LockNotEnough,
                LockConflict, Refuse
  <2>3. CASE UpdateCreditLockLog(p)
    BY <2>3 DEF UpdateCreditLockLog, Accepts, Commits, SettleNotFound, SettleInvalid,
                SettleConflict, Refuse
  <2> QED
    BY <1>8, <2>1, <2>2, <2>3 DEF Step
<1>9. CASE (\E k \in Keys : Expire(k)) \/ JobScan \/ UNCHANGED vars
  BY <1>9 DEF Expire, JobScan, vars
<1> QED
  BY <1>2, <1>3, <1>4, <1>5, <1>7, <1>8, <1>9 DEF Next

\* What AnswersHold says of one goroutine, with the rows as log has them.
Holds(r, row) ==
    /\ row # NoRow
    /\ r.op = "add" => row.uid = r.uid /\ row.change = r.amount
    /\ r.op = "confirm" => row.uid = r.uid /\ row.status = "Active"
    /\ r.op = "cancel" /\ row.uid = r.uid => row.status = "Inactive"

\* What the three commits and the four refusals that answer ok say is true.
LEMMA AcceptedIsTrue ==
    ASSUME CreditInv, SettlersHaveRows, [Next]_vars, NEW p \in Procs, Accepts(p)
    PROVE  Holds(req[p], creditLog'[req[p].key])
<1> DEFINE r == req[p]
           k == req[p].key
           row == creditLog'[req[p].key]
<1>1. pc[p] = "write" /\ r \in Request /\ k \in Keys
  BY DEF Accepts, Commits, UpsertCommit, LockNotEnough, LockCommit, LockDuplicate, SettleNotFound,
         SettleRepeated, SettleCommit, Writing, CreditInv, TypeOK, Request
<1>2. creditLog \in [Keys -> LogRow \cup {NoRow}] /\ NoRow \notin LogRow
  BY CreditAssumption DEF CreditInv, TypeOK
<1>3. snap[p].log # NoRow =>
        /\ creditLog[k] # NoRow
        /\ creditLog[k].uid = snap[p].log.uid
        /\ snap[p].log.status # "Locked" => creditLog[k].status = snap[p].log.status
  BY <1>1 DEF CreditInv, SnapshotsAgree
<1>4. creditLog[k] # NoRow => Kept(k)
  BY <1>1, RowsAreKept
<1>5. CASE UpsertCommit(p)
  <2>1. /\ row = [uid |-> r.uid, change |-> r.amount, status |-> "Active"]
        /\ r.op = "add"
    BY <1>1, <1>2, <1>5 DEF UpsertCommit, Commit, Writing
  <2>2. row # NoRow
    BY <1>2, <1>5, UpsertCommitForm, <2>1 DEF CreditInv
  <2> QED
    BY <2>1, <2>2 DEF Holds
<1>6. CASE LockCommit(p)
  <2>1. /\ row = [uid |-> r.uid, change |-> -r.amount, status |-> "Locked"]
        /\ r.op = "deduct"
    BY <1>1, <1>2, <1>6 DEF LockCommit, Commit, Writing
  <2>2. row # NoRow
    BY <1>2, <1>6, LockCommitForm, <2>1 DEF CreditInv
  <2> QED
    BY <2>1, <2>2 DEF Holds
<1>7. CASE (LockNotEnough(p) /\ snap[p].log # NoRow) \/ LockDuplicate(p)
  <2>1. r.op = "deduct" /\ creditLog[k] # NoRow
    BY <1>3, <1>7 DEF LockNotEnough, LockDuplicate, Writing
  <2> QED
    BY <1>4, <2>1 DEF Kept, Holds
<1>8. CASE SettleNotFound(p) /\ r.op = "cancel"
  <2>1. snap[p].log # NoRow /\ snap[p].log.uid # r.uid
    BY <1>1, <1>8 DEF SettleNotFound, FoundLog, SettlersHaveRows, Settling
  <2> QED
    BY <1>3, <1>4, <1>8, <2>1 DEF Kept, Holds
<1>9. CASE SettleRepeated(p)
  <2>1. /\ r.op \in {"confirm", "cancel"}
        /\ snap[p].log # NoRow /\ snap[p].log.uid = r.uid
        /\ snap[p].log.status = IF r.op = "confirm" THEN "Active" ELSE "Inactive"
    BY <1>9 DEF SettleRepeated, FoundLog, Destination, Writing
  <2> QED
    BY <1>3, <1>4, <2>1 DEF Kept, Holds
<1>10. CASE SettleCommit(p)
  <2>1. /\ row = [snap[p].log EXCEPT !.status = Destination(p)]
        /\ r.op \in {"confirm", "cancel"}
    BY <1>1, <1>2, <1>10 DEF SettleCommit, Commit, Writing
  <2>2. row \in LogRow /\ row.uid = r.uid /\ row.status = Destination(p)
    BY <1>10, <2>1, SettleCommitForm DEF CreditInv
  <2> QED
    BY <1>2, <2>1, <2>2 DEF Destination, Holds
<1> QED
  BY <1>5, <1>6, <1>7, <1>8, <1>9, <1>10 DEF Accepts, Commits

LEMMA AnswersStep ==
    ASSUME AnswersInv, [Next]_vars
    PROVE  AnswersHold'
<1> SUFFICES ASSUME NEW q \in Procs, answer'[q] = "ok"
             PROVE  Holds(req'[q], creditLog'[req'[q].key])
  BY DEF AnswersHold, Holds
<1>1. CASE answer[q] = "ok" /\ req'[q] = req[q]
  <2>1. Holds(req[q], creditLog[req[q].key])
    BY <1>1 DEF AnswersInv, AnswersHold, Holds
  <2>2. req[q].key \in Keys
    BY <1>1 DEF AnswersInv, CreditInv, TypeOK, Request
  <2>3. Kept(req[q].key)
    BY <2>1, <2>2, RowsAreKept DEF AnswersInv, Holds
  <2> QED
    BY <1>1, <2>1, <2>3 DEF Kept, Holds
<1>2. CASE Accepts(q) /\ req'[q] = req[q]
  BY <1>2, AcceptedIsTrue DEF AnswersInv
<1> QED
  BY <1>1, <1>2, NewAnswers DEF AnswersInv

\* Whatever a caller of AddCredits, TryDeductCredits, ConfirmDeductCredits or
\* CancelDeductCredits was told stays true, whoever calls afterwards.
THEOREM AnswersStayTrue == Spec => []AnswersHold
<1>1. Init => AnswersInv
  <2>1. Init => RowsHaveAccounts /\ SettlersHaveRows /\ AnswersHold
    BY DEF Init, RowsHaveAccounts, SettlersHaveRows, AnswersHold
  <2> QED
    BY <2>1, CreditInvInit DEF AnswersInv
<1>2. AnswersInv /\ [Next]_vars => AnswersInv'
  BY CreditInvNext, AccountsStep, SettlersStep, AnswersStep DEF AnswersInv
<1>3. AnswersInv => AnswersHold
  BY DEF AnswersInv
<1> QED
  BY <1>1, <1>2, <1>3, PTL DEF Spec

=============================================================================
