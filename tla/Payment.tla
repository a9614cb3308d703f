------------------------------ MODULE Payment ------------------------------
(***************************************************************************)
(* The payment module, for the payment of one order: one row of payments,  *)
(* one row of payment_records per channel, and the goroutines that work on *)
(* them: HTTP handlers that execute the payment, WeChat's notifications,   *)
(* and the job that asks WeChat about payments past the timeout.  The      *)
(* reconciliation job calls it too (module Trade).                         *)
(*                                                                         *)
(* Every call to the database, to the credit module, to WeChat or to Kafka *)
(* is a step, and what a goroutine has read goes stale between its steps:  *)
(* UpdateByOrderSN writes back whatever the goroutine holds, over whatever *)
(* is there.  Credits are what module CreditLedger promises.               *)
(***************************************************************************)
EXTENDS Integers, FiniteSets

CONSTANTS
    Handlers,   \* goroutines that serve HTTP requests
    SyncJob,    \* the goroutine of SyncWechatOrderJob
    ReconJob,   \* the goroutine of SyncPaymentAndOrderJob
    Buyer,      \* PayerID
    SN,         \* the order's SN: OutTradeNo for WeChat, Key for the credit log
    Price,      \* the amount of the credit record
    NoRow,      \* the absence of a row
    MaxFaults   \* bound: failed calls, lost replies and crashes

VARIABLES
    channels,   \* the channels of the payment's records
    payment,    \* the row and its credit record, or NoRow
    trade,      \* WeChat's state of the trade with this OutTradeNo
    coded,      \* the buyer has been given a code to pay with
    available,  \* the buyer's credits (CreditLedger)
    held,       \* (CreditLedger)
    entry,      \* the credit log (CreditLedger)
    events,     \* payment_events not consumed yet, by status
    aged,       \* what was created more than 30 min 10 s ago
    pc,         \* the next call of each goroutine
    loc,        \* the domain.Payment each goroutine holds
    faults      \* faults so far

Ledger == INSTANCE CreditLedger WITH Users <- {Buyer}, Keys <- {SN}, Amounts <- {Price}

tradeVars == <<trade, coded>>
creditVars == <<available, held, entry>>
paymentVars == <<channels, payment, tradeVars, creditVars, events, aged, pc, loc, faults>>

Procs == Handlers \cup {SyncJob, ReconJob}

PaymentStatus == {"unpaid", "processing", "success", "failed", "closed"}

\* "none" before Prepay; CLOSED stands for every state mapped to PaidFailed.
TradeState == {"none", "NOTPAY", "SUCCESS", "CLOSED"}

\* PaidAt 0 is Go's zero value; the record's PaymentNO3rd is empty or the id
\* of the credit log.
PaymentRow == [status : PaymentStatus, paidAt : Nat,
               tid : BOOLEAN, creditStatus : PaymentStatus, creditPaidAt : Nat]
NewPayment == [status |-> "unpaid", paidAt |-> 0,
               tid |-> FALSE, creditStatus |-> "unpaid", creditPaidAt |-> 0]

CreditStates == IF entry[SN] = NoRow THEN "None" ELSE entry[SN].status

PaymentInit ==
    /\ channels = {}
    /\ payment = NoRow
    /\ trade = "none"
    /\ coded = FALSE
    /\ \E balance \in {0, Price} : available = [u \in {Buyer} |-> balance]
    /\ held = [u \in {Buyer} |-> 0]
    /\ entry = [k \in {SN} |-> NoRow]
    /\ events = [s \in {"success", "failed"} |-> 0]
    /\ aged = {}
    /\ pc = [p \in Procs |-> "idle"]
    /\ loc = [p \in Procs |-> NewPayment]
    /\ faults = 0

-----------------------------------------------------------------------------
(***************************************************************************)
(* Goroutines.                                                             *)
(***************************************************************************)
\* What a goroutine still has to know at a label: a field that is assigned
\* before it is read again is forgotten, and makes no difference.
Kept(p, label, pmt) ==
    IF label \in {"idle", "find", "undo"} THEN NewPayment
    ELSE IF label \in {"deduct", "confirm", "prepay", "close", "closeCancel", "failCancel", "failUpdate"}
    THEN [pmt EXCEPT !.status = "unpaid", !.creditStatus = "unpaid"]
    ELSE IF label = "query" THEN [pmt EXCEPT !.status = "unpaid"]
    ELSE IF label \in {"settle", "record"} /\ p # ReconJob
    THEN [pmt EXCEPT !.creditStatus = "unpaid", !.creditPaidAt = 0]
    ELSE pmt

GotoWith(p, label, pmt) ==
    /\ pc' = [pc EXCEPT ![p] = label]
    /\ loc' = [loc EXCEPT ![p] = Kept(p, label, pmt)]

Goto(p, label) == GotoWith(p, label, loc[p])

\* The call fails, or its reply is lost, and the goroutine takes its error
\* path.
Fail(p, label) ==
    /\ faults < MaxFaults
    /\ faults' = faults + 1
    /\ Goto(p, label)

\* The process dies.
Crash(p) ==
    /\ pc[p] # "idle"
    /\ Fail(p, "idle")
    /\ UNCHANGED <<channels, payment, tradeVars, creditVars, events, aged>>

\* time.Now().UnixMilli(): only whether two stamps are equal is ever used, so
\* a stamp nobody holds will do.
Now == CHOOSE n \in 1 .. 2 * Cardinality(Procs) + 3 :
          n \notin {payment.paidAt, payment.creditPaidAt}
                     \cup UNION {{loc[p].paidAt, loc[p].creditPaidAt} : p \in Procs}

-----------------------------------------------------------------------------
(***************************************************************************)
(* UpdatePayment: gorm's Updates skips zero values and looks at nothing    *)
(* that is there.                                                          *)
(***************************************************************************)
NonZero(new, old) == IF new = 0 THEN old ELSE new

\* The payment row alone.
MainWritten(pmt) ==
    [payment EXCEPT !.status = pmt.status, !.paidAt = NonZero(pmt.paidAt, @)]

\* The payment row and, when there is one, the credit record.
AllWritten(pmt) ==
    IF "credit" \in channels
    THEN [MainWritten(pmt) EXCEPT !.creditStatus = pmt.creditStatus,
                                  !.creditPaidAt = NonZero(pmt.creditPaidAt, @),
                                  !.tid = @ \/ pmt.tid]
    ELSE MainWritten(pmt)

UpdatePayment(p, row, ok, failed) ==
    /\ \/ payment' = row /\ Goto(p, ok) /\ faults' = faults
       \/ payment' \in {payment, row} /\ Fail(p, failed)
    /\ UNCHANGED <<channels, tradeVars, creditVars, events, aged>>

\* UpdatePayment, then sendPaymentEvent, whose error is logged.  One step,
\* since an event may wait in Kafka as long as it could have waited here.
UpdateAndSend(p, row, ok, failed) ==
    /\ LET sent == [events EXCEPT ![loc[p].status] = @ + 1]
       IN  \/ payment' = row /\ events' = sent /\ Goto(p, ok) /\ faults' = faults
           \/ payment' = row /\ UNCHANGED events /\ Fail(p, ok)
           \/ payment' \in {payment, row} /\ UNCHANGED events /\ Fail(p, failed)
    /\ UNCHANGED <<channels, tradeVars, creditVars, aged>>

\* FindPaymentByID reads the two tables concurrently, each at its own moment.
Find(p) ==
    /\ pc[p] = "find"
    /\ \/ GotoWith(p, "findRecords", [loc[p] EXCEPT !.status = payment.status,
                                                    !.paidAt = payment.paidAt])
       \/ GotoWith(p, "findMain", [payment EXCEPT !.status = "unpaid", !.paidAt = 0])
    /\ UNCHANGED <<channels, payment, tradeVars, creditVars, events, aged, faults>>

\* What the second read completes.
Found(p) ==
    IF pc[p] = "findMain"
    THEN [loc[p] EXCEPT !.status = payment.status, !.paidAt = payment.paidAt]
    ELSE [payment EXCEPT !.status = loc[p].status, !.paidAt = loc[p].paidAt]

-----------------------------------------------------------------------------
(***************************************************************************)
(* Calls to the credit module.                                             *)
(***************************************************************************)
\* The hold is confirmed if it is still there; CanConfirm: no error is due.
ConfirmDeductCredits ==
    IF CreditStates = "Locked" THEN Ledger!Spend(SN) ELSE UNCHANGED creditVars
\* Mutant: confirming a cancelled log is no error.
InactiveIsConfirmed == CreditStates # "None"

CanConfirm == CreditStates \in {"Locked", "Active"}

\* The hold is released if it is still there.
CancelDeductCredits ==
    IF CreditStates = "Locked" THEN Ledger!Release(SN) ELSE UNCHANGED creditVars

\* A call whose error is only logged.
CreditCall(p, Effect, label) ==
    /\ \/ Effect /\ Goto(p, label) /\ faults' = faults
       \/ (Effect \/ UNCHANGED creditVars) /\ Fail(p, label)
    /\ UNCHANGED <<channels, payment, tradeVars, events, aged>>

-----------------------------------------------------------------------------
(***************************************************************************)
(* PayByID.                                                                *)
(***************************************************************************)
\* executePayment, by the channels: credits come first.
ExecutePayment(h) ==
    /\ h \in Handlers
    /\ pc[h] \in {"findMain", "findRecords"}
    /\ GotoWith(h, IF "credit" \in channels THEN "deduct" ELSE "prepay", Found(h))
    /\ UNCHANGED <<channels, payment, tradeVars, creditVars, events, aged, faults>>

\* Mutant: credits are confirmed at once, whatever else is to be paid.
ConfirmAnyCredits == IF "credit" \in channels THEN "confirm" ELSE "prepay"

\* Credits alone pay at once, credits and money are prepaid.
AfterDeduct == IF channels = {"credit"} THEN "confirm" ELSE "prepay"

\* getCreditIndexAndDeductID: the id of the log with the order's SN, held now
\* or by an earlier attempt, even one that was cancelled.
Deduct(h) ==
    /\ pc[h] = "deduct"
    /\ LET enough == CreditStates # "None" \/ available[Buyer] >= Price
           Try == IF CreditStates = "None" THEN Ledger!Hold(Buyer, SN, Price)
                  ELSE UNCHANGED creditVars
       IN  \/ /\ enough /\ Try
              /\ Goto(h, AfterDeduct)
              /\ faults' = faults
           \/ ~enough /\ UNCHANGED <<creditVars, faults>> /\ Goto(h, "idle")
           \/ (Try \/ UNCHANGED creditVars) /\ Fail(h, "idle")
    /\ UNCHANGED <<channels, payment, tradeVars, events, aged>>

\* payByCredit.
Confirm(h) ==
    /\ pc[h] = "confirm"
    /\ \/ /\ CanConfirm /\ ConfirmDeductCredits
          /\ GotoWith(h, "paid", [loc[h] EXCEPT !.status = "success", !.paidAt = Now, !.tid = TRUE,
                                                !.creditStatus = "success", !.creditPaidAt = Now])
          /\ faults' = faults
       \/ ~CanConfirm /\ UNCHANGED <<creditVars, faults>> /\ Goto(h, "undo")
       \/ (ConfirmDeductCredits \/ UNCHANGED creditVars) /\ Fail(h, "undo")
    /\ UNCHANGED <<channels, payment, tradeVars, events, aged>>

Paid(h) ==
    pc[h] = "paid" /\ UpdateAndSend(h, AllWritten(loc[h]), "idle", "undo")

\* CancelDeductCredits on an error path, its result ignored.
Undo(h) ==
    pc[h] = "undo" /\ CreditCall(h, CancelDeductCredits, "idle")

\* prepay, prepayByCreditAnd3rdPayment: the same OutTradeNo may be prepaid
\* again until it is paid or closed.
PrepayFailed == IF "credit" \in channels THEN "undo" ELSE "idle"

Prepay(h) ==
    /\ pc[h] = "prepay"
    /\ LET pmt == [loc[h] EXCEPT !.status = "processing",
                                 !.tid = "credit" \in channels,
                                 !.creditStatus = IF "credit" \in channels THEN "processing" ELSE @]
       IN  \/ /\ trade \in {"none", "NOTPAY"}
              /\ trade' = "NOTPAY"
              /\ \/ GotoWith(h, "processing", pmt) /\ faults' = faults
                 \/ Fail(h, PrepayFailed)
           \/ /\ trade \notin {"none", "NOTPAY"}
              /\ Goto(h, PrepayFailed)
              /\ UNCHANGED <<tradeVars, faults>>
           \/ UNCHANGED trade /\ Fail(h, PrepayFailed)
    /\ UNCHANGED <<channels, payment, coded, creditVars, events, aged>>

\* Only when all went well does the buyer see the code.
Processing(h) ==
    /\ pc[h] = "processing"
    /\ \/ payment' = AllWritten(loc[h]) /\ coded' = TRUE /\ Goto(h, "idle") /\ faults' = faults
       \/ payment' \in {payment, AllWritten(loc[h])} /\ UNCHANGED coded /\ Fail(h, PrepayFailed)
    /\ UNCHANGED <<channels, trade, creditVars, events, aged>>

-----------------------------------------------------------------------------
(***************************************************************************)
(* The credit record.                                                      *)
(***************************************************************************)
\* HandleCreditCallback: where it starts, and where it returns to.
AfterCredit(p) == IF p = ReconJob THEN "setOrder" ELSE "idle"

HandleCreditCallback(p, pmt) ==
    IF \/ "credit" \notin channels
       \/ pmt.creditStatus = pmt.status /\ pmt.creditPaidAt = pmt.paidAt
    THEN AfterCredit(p)
    ELSE IF pmt.tid THEN "settle" ELSE "record"

\* Confirm or cancel; an error is logged and the record written all the same.
Settle(p) ==
    /\ pc[p] = "settle"
    /\ CreditCall(p, IF loc[p].status = "success" THEN ConfirmDeductCredits ELSE CancelDeductCredits,
                  "record")

\* The record gets the status and the time of the payment.
Record(p) ==
    /\ pc[p] = "record"
    /\ UpdatePayment(p, AllWritten([loc[p] EXCEPT !.creditStatus = loc[p].status,
                                                  !.creditPaidAt = loc[p].paidAt]),
                     AfterCredit(p),
                     IF p = ReconJob THEN HandleCreditCallback(p, loc[p]) ELSE "idle")

-----------------------------------------------------------------------------
(***************************************************************************)
(* WeChat: a buyer with a code pays, or the trade ends unpaid (external,   *)
(* as the trade states the code maps imply).                               *)
(***************************************************************************)
Wechat ==
    /\ trade = "NOTPAY"
    /\ trade' \in {"CLOSED"} \cup (IF coded THEN {"SUCCESS"} ELSE {})
    /\ UNCHANGED <<channels, payment, coded, creditVars, events, aged, pc, loc, faults>>

\* Mutant: WeChat's state is stored as it comes.
TradeStatusUnmapped(state) == state
\* Mutant: every notification is taken for a payment.
TradeStatusPaid(state) == "success"

\* TradeState2PaymentStatus, for the final states.
TradeStatus(state) == IF state = "SUCCESS" THEN "success" ELSE "failed"

\* HandleWechatCallback: WeChat notifies until it is answered, so a
\* notification of a final state may come at any time, twice, or never.
\* FindPaymentByOrderSN reads both tables in one transaction.
Notified(h) ==
    /\ pc[h] = "idle"
    /\ trade \in {"SUCCESS", "CLOSED"}
    /\ LET status == TradeStatus(trade)
       IN  GotoWith(h, "notified", [payment EXCEPT !.status = status,
                                                   !.paidAt = IF status = "success" THEN Now ELSE 0])
    /\ UNCHANGED <<channels, payment, tradeVars, creditVars, events, aged, faults>>

\* Mutant: no event is sent.
CallbackUnsent(h) ==
    pc[h] = "notified" /\ UpdatePayment(h, AllWritten(loc[h]), HandleCreditCallback(h, loc[h]), "idle")

CallbackUpdate(h) ==
    pc[h] = "notified" /\ UpdateAndSend(h, AllWritten(loc[h]), HandleCreditCallback(h, loc[h]), "idle")

-----------------------------------------------------------------------------
(***************************************************************************)
(* SyncWechatOrderJob, for a payment past the timeout.                     *)
(***************************************************************************)
\* Mutant: WHERE status < instead of <=.
FindUnpaidPayments ==
    /\ pc[SyncJob] = "idle"
    /\ "payment" \in aged
    /\ payment.status = "unpaid"
    /\ Goto(SyncJob, "find")
    /\ UNCHANGED <<channels, payment, tradeVars, creditVars, events, aged, faults>>

FindTimeoutPayments ==
    /\ pc[SyncJob] = "idle"
    /\ "payment" \in aged
    /\ payment.status \in {"unpaid", "processing"}
    /\ Goto(SyncJob, "find")
    /\ UNCHANGED <<channels, payment, tradeVars, creditVars, events, aged, faults>>

\* CloseTimeoutPayment starts by releasing the credits of a record it knows
\* to be Processing.
CloseTimeoutPayment(pmt) ==
    IF "credit" \in channels /\ pmt.creditStatus = "processing" THEN "closeCancel" ELSE "close"

SyncFound ==
    /\ pc[SyncJob] \in {"findMain", "findRecords"}
    /\ LET pmt == Found(SyncJob)
       IN  GotoWith(SyncJob, IF "wechat" \in channels THEN "query" ELSE CloseTimeoutPayment(pmt), pmt)
    /\ UNCHANGED <<channels, payment, tradeVars, creditVars, events, aged, faults>>

\* The error of FindPaymentByID is ignored: without records, any payment
\* looks like one that WeChat knows nothing about.
SyncFindFailed ==
    /\ pc[SyncJob] = "findRecords"
    /\ Fail(SyncJob, "closeMain")
    /\ UNCHANGED <<channels, payment, tradeVars, creditVars, events, aged>>

CloseMain ==
    /\ pc[SyncJob] = "closeMain"
    /\ UpdatePayment(SyncJob, MainWritten([loc[SyncJob] EXCEPT !.status = "closed"]), "idle", "idle")

\* SyncWechatInfo: QueryOrderBySN fails for a trade WeChat has never seen.
SyncWechatInfo ==
    /\ pc[SyncJob] = "query"
    /\ LET pmt == loc[SyncJob]
           status == TradeStatus(trade)
       IN  \/ trade = "none" /\ Goto(SyncJob, "idle") /\ faults' = faults
           \/ trade = "NOTPAY" /\ Goto(SyncJob, CloseTimeoutPayment(pmt)) /\ faults' = faults
           \/ /\ trade \in {"SUCCESS", "CLOSED"}
              /\ GotoWith(SyncJob, "syncUpdate",
                          [pmt EXCEPT !.status = status,
                                      !.paidAt = IF status = "success" THEN Now ELSE 0])
              /\ faults' = faults
           \/ Fail(SyncJob, "idle")
    /\ UNCHANGED <<channels, payment, tradeVars, creditVars, events, aged>>

SyncUpdate ==
    pc[SyncJob] = "syncUpdate" /\ UpdateAndSend(SyncJob, MainWritten(loc[SyncJob]),
                                             HandleCreditCallback(SyncJob, loc[SyncJob]), "idle")

CloseCancel ==
    pc[SyncJob] = "closeCancel" /\ CreditCall(SyncJob, CancelDeductCredits, "close")

Close ==
    /\ pc[SyncJob] = "close"
    /\ UpdatePayment(SyncJob,
                     AllWritten([loc[SyncJob] EXCEPT !.status = "closed", !.creditStatus = "closed"]),
                     "idle", "idle")

-----------------------------------------------------------------------------
(***************************************************************************)
(* SetPaymentStatusPaidFailed, called by the reconciliation.               *)
(***************************************************************************)
FailCancel ==
    pc[ReconJob] = "failCancel" /\ CreditCall(ReconJob, CancelDeductCredits, "failUpdate")

FailUpdate ==
    /\ pc[ReconJob] = "failUpdate"
    /\ LET pmt == [loc[ReconJob] EXCEPT !.status = "failed", !.creditStatus = "failed"]
           next == HandleCreditCallback(ReconJob, pmt)
       IN  \/ /\ payment' = AllWritten(pmt)
              /\ GotoWith(ReconJob, next, pmt)
              /\ faults' = faults
           \/ payment' \in {payment, AllWritten(pmt)} /\ Fail(ReconJob, "idle")
    /\ UNCHANGED <<channels, tradeVars, creditVars, events, aged>>

-----------------------------------------------------------------------------
PaymentStep(p) ==
    \/ Find(p) \/ ExecutePayment(p) \/ Deduct(p) \/ Confirm(p) \/ Paid(p) \/ Undo(p)
    \/ Prepay(p) \/ Processing(p) \/ CallbackUpdate(p)
    \/ Settle(p) \/ Record(p)

SyncStep == SyncFound \/ SyncFindFailed \/ CloseMain \/ SyncWechatInfo \/ SyncUpdate \/ CloseCancel \/ Close

SetPaymentStatusPaidFailed == FailCancel \/ FailUpdate
=============================================================================
