------------------------------- MODULE Credit -------------------------------
(***************************************************************************)
(* The credit (积分) module: one Credit row per user, one CreditLog row per *)
(* idempotence key, and four operations that change both in a database     *)
(* transaction guarded by the row's Version, repeated until no concurrent  *)
(* transaction has interfered.  Callers run concurrently: HTTP handlers,   *)
(* the consumer of credit_increase_events, the payment module, and the job *)
(* that releases holds older than the timeout.                             *)
(*                                                                         *)
(* A transaction is two steps.  Read takes the snapshot its SELECTs see    *)
(* (MySQL's REPEATABLE READ: all of them see the same one).  The step that *)
(* follows stands for its writes and its commit: an UPDATE ... WHERE       *)
(* Version or status sees the latest committed row and keeps it locked up  *)
(* to the commit, so nothing can come between.                             *)
(***************************************************************************)
EXTENDS Integers, FiniteSets, KeySum, TLC

CONSTANTS
    Users,      \* uid
    Keys,       \* CreditLog.Key; also stands for the row's auto-increment id
    Amounts,    \* the amounts callers ask for
    Workers,    \* goroutines that call the service
    Job,        \* the goroutine of CloseTimeoutLockedCreditsJob
    Limit,      \* the job's page size
    MaxCalls,   \* bound: calls the workers make
    MaxFaults,  \* bound: database errors and lost replies
    NoRow       \* the absence of a CreditLog row

VARIABLES
    credit,     \* the Credit row of each user; version 0: there is no row
    creditLog,  \* the CreditLog row with each key, or NoRow
    expired,    \* keys of the rows whose ctime is past the timeout
    pc,         \* where each goroutine is in its transaction
    req,        \* the call each goroutine is serving, or served last
    snap,       \* what the running transaction has read
    answer,     \* what the last call returned
    batch,      \* the page of logs the job has still to cancel
    calls,      \* calls made so far
    faults      \* errors so far

vars == <<credit, creditLog, expired, pc, req, snap, answer, batch, calls, faults>>

Procs == Workers \cup {Job}

CreditRow == [total : Int, locked : Int, version : Nat]
NoCredit == [total |-> 0, locked |-> 0, version |-> 0]

LogStatus == {"Active", "Locked", "Inactive"}
LogRow == [uid : Users, change : Int, status : LogStatus]

Request == [op : {"add", "deduct"}, uid : Users, key : Keys, amount : Amounts]
             \cup [op : {"confirm", "cancel"}, uid : Users, key : Keys, amount : {0}]

Snapshot == [credit : CreditRow, log : LogRow \cup {NoRow}]
NoSnapshot == [credit |-> NoCredit, log |-> NoRow]

Answers == {"none", "ok", "duplicate", "notFound", "notEnough", "invalid", "error"}

ASSUME CreditAssumption ==
    /\ IsFiniteSet(Keys)
    /\ Amounts \subseteq Nat
    /\ Limit \in Nat \ {0}
    /\ MaxCalls \in Nat
    /\ MaxFaults \in Nat
    /\ Job \notin Workers
    /\ NoRow \notin LogRow
    /\ NoRow \notin Request

Init ==
    /\ credit = [u \in Users |-> NoCredit]
    /\ creditLog = [k \in Keys |-> NoRow]
    /\ expired = {}
    /\ pc = [p \in Procs |-> "idle"]
    /\ req = [p \in Procs |-> NoRow]
    /\ snap = [p \in Procs |-> NoSnapshot]
    /\ answer = [p \in Procs |-> "none"]
    /\ batch = {}
    /\ calls = 0
    /\ faults = 0

-----------------------------------------------------------------------------
(***************************************************************************)
(* Calls.                                                                  *)
(***************************************************************************)
Begin(p, r) ==
    /\ pc[p] = "idle"
    /\ pc' = [pc EXCEPT ![p] = "begin"]
    /\ req' = [req EXCEPT ![p] = r]
    /\ answer' = [answer EXCEPT ![p] = "none"]
    /\ UNCHANGED <<credit, creditLog, expired, snap, faults>>

Call(w, op, u, k, a) ==
    /\ calls < MaxCalls
    /\ Begin(w, [op |-> op, uid |-> u, key |-> k, amount |-> a])
    /\ calls' = calls + 1
    /\ UNCHANGED batch

\* The same event may be delivered twice and the same order paid twice: any
\* key may be used again, by any goroutine.
AddCredits(w) ==
    \E u \in Users, k \in Keys, a \in Amounts : Call(w, "add", u, k, a)

TryDeductCredits(w) ==
    \E u \in Users, k \in Keys, a \in Amounts : Call(w, "deduct", u, k, a)

\* The caller has the id from an earlier TryDeductCredits; the uid it passes
\* need not be the owner's.
ConfirmDeductCredits(w) ==
    \E u \in Users, k \in Keys :
        creditLog[k] # NoRow /\ Call(w, "confirm", u, k, 0)

CancelDeductCredits(w) ==
    \E u \in Users, k \in Keys :
        creditLog[k] # NoRow /\ Call(w, "cancel", u, k, 0)

-----------------------------------------------------------------------------
(***************************************************************************)
(* Steps of a transaction.                                                 *)
(***************************************************************************)
Read(p) ==
    /\ pc[p] = "begin"
    /\ pc' = [pc EXCEPT ![p] = "write"]
    /\ snap' = [snap EXCEPT ![p] =
                  [credit |-> credit[req[p].uid],
                   log    |-> IF req[p].op = "add" THEN NoRow ELSE creditLog[req[p].key]]]
    /\ UNCHANGED <<credit, creditLog, expired, req, answer, batch, calls, faults>>

\* The call returns.  The reply of a transaction that did commit may be lost:
\* its caller gets a timeout.  Run gives up its page at the first error.
Answer(p, res) ==
    /\ \/ /\ answer' = [answer EXCEPT ![p] = res]
          /\ faults' = faults
       \/ /\ faults < MaxFaults
          /\ answer' = [answer EXCEPT ![p] = "error"]
          /\ faults' = faults + 1
    /\ pc' = [pc EXCEPT ![p] = "idle"]
    /\ snap' = [snap EXCEPT ![p] = NoSnapshot]
    /\ batch' = IF p = Job /\ answer'[p] # "ok" THEN {} ELSE batch
    /\ UNCHANGED <<expired, req, calls>>

\* The call returns and its transaction has written nothing.
Refuse(p, res) == Answer(p, res) /\ UNCHANGED <<credit, creditLog>>

\* The transaction commits: user u's balances change by dTotal and dLocked
\* in a row of the next version, and the log row with key k becomes row.
Commit(p, u, dTotal, dLocked, k, row) ==
    /\ credit' = [credit EXCEPT ![u] =
                    [total   |-> snap[p].credit.total + dTotal,
                     locked  |-> snap[p].credit.locked + dLocked,
                     version |-> snap[p].credit.version + 1]]
    /\ creditLog' = [creditLog EXCEPT ![k] = row]
    /\ Answer(p, "ok")

\* Mutant: UPDATE without WHERE Version.
VersionIgnored(p) == TRUE

\* No transaction has changed, or created, the Credit row since it was read.
VersionMatches(p) == credit[req[p].uid].version = snap[p].credit.version

Writing(p, ops) == pc[p] = "write" /\ req[p].op \in ops

\* Mutant: the loop repeats the write without reading again.
StartAgainUnread(p) ==
    /\ pc' = [pc EXCEPT ![p] = "write"]
    /\ UNCHANGED <<credit, creditLog, expired, req, snap, answer, batch, calls, faults>>

\* ErrUpdateCreditConflict, ErrCreateCreditConflict: roll back and start again.
StartAgain(p) ==
    /\ pc' = [pc EXCEPT ![p] = "begin"]
    /\ snap' = [snap EXCEPT ![p] = NoSnapshot]
    /\ UNCHANGED <<credit, creditLog, expired, req, answer, batch, calls, faults>>

\* A statement fails for a reason of its own (deadlock victim, timeout, lost
\* connection): the transaction rolls back and the caller gets the error.
DBError(p) ==
    /\ pc[p] \in {"begin", "write"}
    /\ faults < MaxFaults
    /\ faults' = faults + 1
    /\ answer' = [answer EXCEPT ![p] = "error"]
    /\ pc' = [pc EXCEPT ![p] = "idle"]
    /\ snap' = [snap EXCEPT ![p] = NoSnapshot]
    /\ batch' = IF p = Job THEN {} ELSE batch
    /\ UNCHANGED <<credit, creditLog, expired, req, calls>>

-----------------------------------------------------------------------------
(***************************************************************************)
(* AddCredits: upsert.                                                     *)
(***************************************************************************)
\* Mutant: no unique index on the key.
UpsertAnyKey(p) ==
    /\ Writing(p, {"add"})
    /\ VersionMatches(p)
    /\ Commit(p, req[p].uid, req[p].amount, 0, req[p].key,
              [uid |-> req[p].uid, change |-> req[p].amount, status |-> "Active"])

UpsertCommit(p) ==
    /\ Writing(p, {"add"})
    /\ VersionMatches(p)
    /\ creditLog[req[p].key] = NoRow
    /\ Commit(p, req[p].uid, req[p].amount, 0, req[p].key,
              [uid |-> req[p].uid, change |-> req[p].amount, status |-> "Active"])

\* The log's unique key is taken: the balance update is rolled back too.  The
\* consumer takes the error for success.
UpsertDuplicate(p) ==
    /\ Writing(p, {"add"})
    /\ VersionMatches(p)
    /\ creditLog[req[p].key] # NoRow
    /\ Refuse(p, "duplicate")

UpsertConflict(p) ==
    /\ Writing(p, {"add"})
    /\ ~VersionMatches(p)
    /\ StartAgain(p)

-----------------------------------------------------------------------------
(***************************************************************************)
(* TryDeductCredits: createCreditLockLog.                                  *)
(***************************************************************************)
\* Mutant: what is locked counts as available.
EnoughWithLocked(p) == snap[p].credit.total + snap[p].credit.locked >= req[p].amount

Enough(p) == snap[p].credit.total >= req[p].amount

LockNoAccount(p) ==
    /\ Writing(p, {"deduct"})
    /\ snap[p].credit.version = 0
    /\ Refuse(p, "notFound")

\* Too little is left: an earlier call with the key may be the reason.
LockNotEnough(p) ==
    /\ Writing(p, {"deduct"})
    /\ snap[p].credit.version # 0
    /\ ~Enough(p)
    /\ Refuse(p, IF snap[p].log # NoRow THEN "ok" ELSE "notEnough")

LockCommit(p) ==
    /\ Writing(p, {"deduct"})
    /\ snap[p].credit.version # 0
    /\ Enough(p)
    /\ VersionMatches(p)
    /\ creditLog[req[p].key] = NoRow
    /\ Commit(p, req[p].uid, -req[p].amount, req[p].amount, req[p].key,
              [uid |-> req[p].uid, change |-> -req[p].amount, status |-> "Locked"])

\* The key is taken: roll back and return the id of the row that has it,
\* whatever became of that row.
LockDuplicate(p) ==
    /\ Writing(p, {"deduct"})
    /\ snap[p].credit.version # 0
    /\ Enough(p)
    /\ VersionMatches(p)
    /\ creditLog[req[p].key] # NoRow
    /\ Refuse(p, "ok")

LockConflict(p) ==
    /\ Writing(p, {"deduct"})
    /\ snap[p].credit.version # 0
    /\ Enough(p)
    /\ ~VersionMatches(p)
    /\ StartAgain(p)

-----------------------------------------------------------------------------
(***************************************************************************)
(* ConfirmDeductCredits and CancelDeductCredits: updateCreditLockLog.      *)
(***************************************************************************)
Destination(p) == IF req[p].op = "confirm" THEN "Active" ELSE "Inactive"

\* Mutant: the log is looked up by id alone.
FoundLogOfAnyone(p) == snap[p].credit.version # 0 /\ snap[p].log # NoRow

\* The transaction has found both rows, the log under the caller's uid.
FoundLog(p) ==
    /\ snap[p].credit.version # 0
    /\ snap[p].log # NoRow
    /\ snap[p].log.uid = req[p].uid

\* Cancelling what is not there is no error.
SettleNotFound(p) ==
    /\ Writing(p, {"confirm", "cancel"})
    /\ ~FoundLog(p)
    /\ Refuse(p, IF req[p].op = "cancel" THEN "ok" ELSE "notFound")

SettleRepeated(p) ==
    /\ Writing(p, {"confirm", "cancel"})
    /\ FoundLog(p)
    /\ snap[p].log.status = Destination(p)
    /\ Refuse(p, "ok")

SettleInvalid(p) ==
    /\ Writing(p, {"confirm", "cancel"})
    /\ FoundLog(p)
    /\ snap[p].log.status \notin {Destination(p), "Locked"}
    /\ Refuse(p, "invalid")

\* Mutant: the log's status is not checked for Locked.
SettleAny(p) ==
    /\ Writing(p, {"confirm", "cancel"})
    /\ FoundLog(p)
    /\ snap[p].log.status # Destination(p)
    /\ VersionMatches(p)
    /\ Commit(p, req[p].uid,
              IF req[p].op = "cancel" THEN -snap[p].log.change ELSE 0,
              snap[p].log.change,
              req[p].key,
              [snap[p].log EXCEPT !.status = Destination(p)])

\* Both conditional UPDATEs hit their row: WHERE status, then WHERE Version.
SettleCommit(p) ==
    /\ Writing(p, {"confirm", "cancel"})
    /\ FoundLog(p)
    /\ snap[p].log.status = "Locked"
    /\ creditLog[req[p].key].status = "Locked"
    /\ VersionMatches(p)
    /\ Commit(p, req[p].uid,
              IF req[p].op = "cancel" THEN -snap[p].log.change ELSE 0,
              snap[p].log.change,
              req[p].key,
              [snap[p].log EXCEPT !.status = Destination(p)])

SettleConflict(p) ==
    /\ Writing(p, {"confirm", "cancel"})
    /\ FoundLog(p)
    /\ snap[p].log.status = "Locked"
    /\ \/ creditLog[req[p].key].status # "Locked"
       \/ ~VersionMatches(p)
    /\ StartAgain(p)

-----------------------------------------------------------------------------
(***************************************************************************)
(* CloseTimeoutLockedCreditsJob.                                           *)
(***************************************************************************)
\* Time passes: the row's ctime is now past the timeout of 30 min 10 s.
Expire(k) ==
    /\ creditLog[k] # NoRow
    /\ creditLog[k].status = "Locked"
    /\ k \notin expired
    /\ expired' = expired \cup {k}
    /\ UNCHANGED <<credit, creditLog, pc, req, snap, answer, batch, calls, faults>>

ExpiredLocked == {k \in expired : creditLog[k] # NoRow /\ creditLog[k].status = "Locked"}

\* Mutant: Run looks for a short page before it handles the page.
JobScanFullPages ==
    /\ pc[Job] = "idle"
    /\ batch = {}
    /\ \E page \in SUBSET ExpiredLocked :
         /\ Cardinality(page) = Limit
         /\ batch' = page
    /\ UNCHANGED <<credit, creditLog, expired, pc, req, snap, answer, calls, faults>>

\* One page of FindExpiredLockedCreditLogs, by the cron or by Run's loop.
JobScan ==
    /\ pc[Job] = "idle"
    /\ batch = {}
    /\ \E page \in (SUBSET ExpiredLocked) \ {{}} :
         /\ Cardinality(page) = LET n == Cardinality(ExpiredLocked)
                                IN  IF n < Limit THEN n ELSE Limit
         /\ batch' = page
    /\ UNCHANGED <<credit, creditLog, expired, pc, req, snap, answer, calls, faults>>

\* Mutant: the job passes the change on.
JobCancelChange ==
    /\ \E k \in batch :
         /\ Begin(Job, [op |-> "cancel", uid |-> creditLog[k].uid, key |-> k,
                       amount |-> creditLog[k].change])
         /\ batch' = batch \ {k}
    /\ UNCHANGED calls

JobCancel ==
    /\ \E k \in batch :
         /\ Begin(Job, [op |-> "cancel", uid |-> creditLog[k].uid, key |-> k, amount |-> 0])
         /\ batch' = batch \ {k}
    /\ UNCHANGED calls

-----------------------------------------------------------------------------
Upsert(p) == UpsertCommit(p) \/ UpsertDuplicate(p) \/ UpsertConflict(p)

CreateCreditLockLog(p) ==
    LockNoAccount(p) \/ LockNotEnough(p) \/ LockCommit(p) \/ LockDuplicate(p) \/ LockConflict(p)

UpdateCreditLockLog(p) ==
    \/ SettleNotFound(p) \/ SettleRepeated(p) \/ SettleInvalid(p)
    \/ SettleCommit(p) \/ SettleConflict(p)

\* What a goroutine does without waiting for anybody.
Step(p) == Read(p) \/ Upsert(p) \/ CreateCreditLockLog(p) \/ UpdateCreditLockLog(p)

Next ==
    \/ \E w \in Workers :
         AddCredits(w) \/ TryDeductCredits(w) \/ ConfirmDeductCredits(w) \/ CancelDeductCredits(w)
    \/ \E p \in Procs : Step(p) \/ DBError(p)
    \/ \E k \in Keys : Expire(k)
    \/ JobScan
    \/ JobCancel

Spec == Init /\ [][Next]_vars

-----------------------------------------------------------------------------
(***************************************************************************)
(* Properties.                                                             *)
(***************************************************************************)

\* Rows have their types; a goroutine in a transaction is serving a call.
TypeOK ==
    /\ credit \in [Users -> CreditRow]
    /\ creditLog \in [Keys -> LogRow \cup {NoRow}]
    /\ expired \subseteq Keys
    /\ pc \in [Procs -> {"idle", "begin", "write"}]
    /\ req \in [Procs -> Request \cup {NoRow}]
    /\ snap \in [Procs -> Snapshot]
    /\ answer \in [Procs -> Answers]
    /\ batch \subseteq {k \in Keys : creditLog[k] # NoRow}
    /\ calls \in Nat
    /\ faults \in Nat
    /\ \A p \in Procs : pc[p] # "idle" \/ answer[p] # "none" => req[p] \in Request

\* What log row adds to the sums of user u.
EarnedBy(row, u) ==
    IF row # NoRow /\ row.uid = u /\ row.status = "Active" /\ row.change > 0
    THEN row.change ELSE 0
DeductedBy(row, u) ==
    IF row # NoRow /\ row.uid = u /\ row.status # "Inactive" /\ row.change < 0
    THEN -row.change ELSE 0
HeldBy(row, u) ==
    IF row # NoRow /\ row.uid = u /\ row.status = "Locked" /\ row.change < 0
    THEN -row.change ELSE 0

Earned(u) == SumOver([k \in Keys |-> EarnedBy(creditLog[k], u)], Keys)
Deducted(u) == SumOver([k \in Keys |-> DeductedBy(creditLog[k], u)], Keys)
Held(u) == SumOver([k \in Keys |-> HeldBy(creditLog[k], u)], Keys)

\* The balances agree with the log: what is locked is the sum of the Locked
\* deductions, and what is available is what was earned less what is locked
\* or spent.  A lost update, a key applied twice or a hold released twice by
\* two racing transactions would break it.
BalancesMatchLog ==
    \A u \in Users :
        /\ credit[u].locked = Held(u)
        /\ credit[u].total = Earned(u) - Deducted(u)

\* TotalCredits and LockedTotalCredits are uint64: a subtraction below zero
\* would wrap around to a fortune.
NoUnderflow == \A u \in Users : credit[u].total >= 0 /\ credit[u].locked >= 0

\* What a caller was told stays true whatever the others do: a confirmed
\* deduction is spent for good, a cancelled one given back for good, and an
\* accepted key is on record.
AnswersHold ==
    \A p \in Procs :
        LET r == req[p]
            row == creditLog[r.key]
        IN  answer[p] = "ok" =>
              /\ row # NoRow
              /\ r.op = "add" => row.uid = r.uid /\ row.change = r.amount
              /\ r.op = "confirm" => row.uid = r.uid /\ row.status = "Active"
              /\ r.op = "cancel" /\ row.uid = r.uid => row.status = "Inactive"

\* A log row is written once, settled at most once, and never rewritten:
\* no retry, timeout job or late caller revives a spent or released hold.
SettledIsFinal ==
    [][\A k \in Keys : creditLog[k] # NoRow =>
          /\ creditLog'[k] # NoRow
          /\ creditLog'[k].uid = creditLog[k].uid
          /\ creditLog'[k].change = creditLog[k].change
          /\ creditLog[k].status # "Locked" => creditLog'[k].status = creditLog[k].status]_vars

\* Racing, retried transactions look like single steps of the ledger.
Ledger == INSTANCE CreditLedger WITH
    available <- [u \in Users |-> credit[u].total],
    held      <- [u \in Users |-> credit[u].locked],
    entry     <- creditLog

LedgerImplemented == Ledger!LedgerSpec

\* A hold past the timeout is settled or released, even when the job's page
\* is stale and Run gives up at the first log it cannot cancel.
HoldsAreReleased == \A k \in Keys : k \in ExpiredLocked ~> k \notin ExpiredLocked
-----------------------------------------------------------------------------
\* For model checking: callers are alike, and so are keys.
Symmetry == Permutations(Workers) \cup Permutations(Keys)
=============================================================================
