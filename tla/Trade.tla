------------------------------- MODULE Trade -------------------------------
(***************************************************************************)
(* One order, its payment (module Payment), the credits it holds (the      *)
(* credit ledger) and WeChat's trade.  Of the order module: the handlers   *)
(* that create, repay and cancel the order, the job that closes it after   *)
(* the timeout, and the consumer of payment_events; creating an order and  *)
(* paying for it are several calls of one handler.  Around it: the         *)
(* reconciliation job, the passing of time, the credit module's own        *)
(* timeout job, and WeChat.                                                *)
(***************************************************************************)
EXTENDS Payment, TLC

CONSTANTS
    MaxCalls,   \* bound: requests of the buyer
    Timeouts,   \* bound: what may grow old, of "order", "payment", "credit"
    MaxNotices  \* bound: WeChat's notifications

VARIABLES
    order,      \* the order's status; "none" before it is created
    completed,  \* an order_events message has been produced
    calls,      \* requests so far
    notices     \* notifications so far

orderVars == <<order, completed, calls>>

vars == <<paymentVars, orderVars, notices>>

ASSUME TradeAssumption ==
    /\ IsFiniteSet(Handlers)
    /\ SyncJob \notin Handlers
    /\ ReconJob \notin Handlers \cup {SyncJob}
    /\ Price \in Nat \ {0}
    /\ {MaxFaults, MaxCalls, MaxNotices} \subseteq Nat
    /\ NoRow \notin PaymentRow
    /\ NoRow \notin [uid : {Buyer}, change : Int, status : {"Active", "Locked", "Inactive"}]
    /\ Timeouts \subseteq {"order", "payment", "credit"}

Terminal == {"success", "failed", "canceled", "closed"}
OrderStatus == {"none", "init", "processing"} \cup Terminal

OrderInit ==
    /\ order = "none"
    /\ completed = FALSE
    /\ calls = 0

Init ==
    /\ PaymentInit
    /\ OrderInit
    /\ notices = 0

-----------------------------------------------------------------------------
(***************************************************************************)
(* The order module.  Requests of the buyer:                               *)
(***************************************************************************)
Request(h) ==
    /\ pc[h] = "idle"
    /\ calls < MaxCalls
    /\ calls' = calls + 1

CreateOrder(h) ==
    /\ Request(h)
    /\ order = "none"
    /\ \/ order' = "init" /\ Goto(h, "createPayment") /\ faults' = faults
       \/ order' \in {"none", "init"} /\ Fail(h, "idle")
    /\ UNCHANGED <<channels, payment, tradeVars, creditVars, events, aged, completed>>

\* createPayment, for the channels the request asks for, or refused because
\* the amounts do not add up.
CreatePayment(h) ==
    /\ pc[h] = "createPayment"
    /\ \/ /\ channels' \in (SUBSET {"credit", "wechat"}) \ {{}}
          /\ payment' = NewPayment
          /\ \/ Goto(h, "link") /\ faults' = faults
             \/ Fail(h, "idle")
       \/ /\ UNCHANGED <<channels, payment>>
          /\ \/ Goto(h, "idle") /\ faults' = faults
             \/ Fail(h, "idle")
    /\ UNCHANGED <<tradeVars, creditVars, events, aged, orderVars>>

\* Mutant: UPDATE without WHERE status.
LinkedAnyway == "processing"

Linked == IF order = "init" THEN "processing" ELSE order

\* UpdateUnpaidOrderPaymentInfo: WHERE status = init.  No row is no error.
LinkPayment(h) ==
    /\ pc[h] = "link"
    /\ \/ order' = Linked /\ Goto(h, "find") /\ faults' = faults
       \/ order' \in {order, Linked} /\ Fail(h, "idle")
    /\ UNCHANGED <<channels, payment, tradeVars, creditVars, events, aged, completed, calls>>

\* The payment is executed again, whatever became of the first attempt.
RepayOrder(h) ==
    /\ Request(h)
    /\ order = "processing"
    /\ Goto(h, "find")
    /\ UNCHANGED <<channels, payment, tradeVars, creditVars, events, aged, faults, order, completed>>

\* Mutant: the status is not checked.
CancelAnyOrder(h) ==
    /\ Request(h)
    /\ order \notin {"none", "init"}
    /\ order' = "canceled"
    /\ UNCHANGED <<paymentVars, completed>>

\* SetOrderCanceled repeats, WHERE status = processing, what was checked.
CancelOrder(h) ==
    /\ Request(h)
    /\ order = "processing"
    /\ order' = "canceled"
    /\ UNCHANGED <<paymentVars, completed>>

-----------------------------------------------------------------------------
(***************************************************************************)
(* CloseTimeoutOrdersJob: SetOrdersTimeoutClosed repeats the conditions    *)
(* under which FindTimeoutOrders chose the ids.                            *)
(***************************************************************************)
CloseTimeoutOrders ==
    /\ "order" \in aged
    /\ order \in {"init", "processing"}
    /\ order' = "closed"
    /\ UNCHANGED <<paymentVars, completed, calls>>

-----------------------------------------------------------------------------
(***************************************************************************)
(* PaymentConsumer.  Messages carry no key, so two events of one order may *)
(* come in any order; an event whose handling fails is not seen again.     *)
(***************************************************************************)
\* SucceedOrder, FailOrder: whatever the order's status is.
SetOrderStatus(status) == order' = status

Consume ==
    \E s \in DOMAIN events :
      /\ events[s] > 0
      /\ events' = [events EXCEPT ![s] = @ - 1]
      /\ \/ /\ SetOrderStatus(s)
            /\ completed' = (completed \/ s = "success")
            /\ faults' = faults
         \/ /\ faults < MaxFaults
            /\ faults' = faults + 1
            /\ \/ UNCHANGED <<order, completed>>
               \/ SetOrderStatus(s) /\ completed' \in {completed, completed \/ s = "success"}
      /\ UNCHANGED <<channels, payment, tradeVars, creditVars, aged, pc, loc, calls>>

OrderStep(h) == CreatePayment(h) \/ LinkPayment(h)
-----------------------------------------------------------------------------
(***************************************************************************)
(* The reconciliation job: it looks for orders still 支付中 after the      *)
(* timeout and makes payment, credits and order agree, with calls to the   *)
(* other modules' services.                                                *)
(***************************************************************************)
\* FindTimeoutOrders.  An order without a payment is skipped: nothing is
\* found under its payment id.
FindTimeoutOrders ==
    /\ pc[ReconJob] = "idle"
    /\ "order" \in aged
    /\ order = "processing"
    /\ Goto(ReconJob, "find")
    /\ UNCHANGED <<channels, payment, tradeVars, creditVars, events, aged, faults, orderVars>>

\* The switch on the payment's status; a closed payment is nobody's case.
Reconcile ==
    /\ pc[ReconJob] \in {"findMain", "findRecords"}
    /\ LET pmt == Found(ReconJob)
       IN  \/ /\ pmt.status \in {"unpaid", "processing"}
              /\ GotoWith(ReconJob,
                          IF "credit" \in channels /\ pmt.creditStatus = "processing"
                          THEN "failCancel" ELSE "failUpdate", pmt)
           \/ /\ pmt.status \in {"success", "failed"}
              /\ GotoWith(ReconJob, HandleCreditCallback(ReconJob, pmt), pmt)
           \/ pmt.status = "closed" /\ Goto(ReconJob, "idle")
    /\ UNCHANGED <<channels, payment, tradeVars, creditVars, events, aged, faults, orderVars>>

\* SucceedOrder or FailOrder; after an error both calls are made again.
ReconSetOrder ==
    /\ pc[ReconJob] = "setOrder"
    /\ LET pmt == loc[ReconJob]
           status == IF pmt.status = "success" THEN "success" ELSE "failed"
       IN  \/ SetOrderStatus(status) /\ Goto(ReconJob, "idle") /\ faults' = faults
           \/ /\ SetOrderStatus(status) \/ UNCHANGED order
              /\ Fail(ReconJob, HandleCreditCallback(ReconJob, pmt))
    /\ UNCHANGED <<channels, payment, tradeVars, creditVars, events, aged, completed, calls>>

ReconStep == Reconcile \/ ReconSetOrder

-----------------------------------------------------------------------------
(* Time, and what comes by itself. *)

\* More than 30 minutes and 10 seconds pass, for what there is by now.
Age ==
    /\ aged' = {x \in Timeouts :
                   \/ x = "order" /\ order # "none"
                   \/ x = "payment" /\ payment # NoRow
                   \/ x = "credit" /\ entry[SN] # NoRow}
    /\ aged' # aged
    /\ UNCHANGED <<channels, payment, tradeVars, creditVars, events, pc, loc, faults, orderVars, notices>>

\* CloseTimeoutLockedCreditsJob.
ReleaseTimeoutCredits ==
    /\ "credit" \in aged
    /\ Ledger!Release(SN)
    /\ UNCHANGED <<channels, payment, tradeVars, events, aged, pc, loc, faults, orderVars, notices>>

HandleWechatCallback(h) ==
    /\ notices < MaxNotices
    /\ notices' = notices + 1
    /\ Notified(h)
    /\ UNCHANGED orderVars

HandlerStep(h) ==
    \/ PaymentStep(h) /\ UNCHANGED <<orderVars, notices>>
    \/ OrderStep(h) /\ UNCHANGED notices

SyncWechatOrderJob ==
    (FindTimeoutPayments \/ PaymentStep(SyncJob) \/ SyncStep) /\ UNCHANGED <<orderVars, notices>>

SyncPaymentAndOrderJob ==
    \/ (FindTimeoutOrders \/ ReconStep) /\ UNCHANGED notices
    \/ (PaymentStep(ReconJob) \/ SetPaymentStatusPaidFailed) /\ UNCHANGED <<orderVars, notices>>

Next ==
    \/ \E h \in Handlers :
         \/ (CreateOrder(h) \/ RepayOrder(h) \/ CancelOrder(h)) /\ UNCHANGED notices
         \/ HandleWechatCallback(h)
         \/ HandlerStep(h)
    \/ SyncWechatOrderJob
    \/ SyncPaymentAndOrderJob
    \/ (CloseTimeoutOrders \/ Consume) /\ UNCHANGED notices
    \/ ReleaseTimeoutCredits
    \/ Wechat /\ UNCHANGED <<orderVars, notices>>
    \/ Age
    \/ \E p \in Procs : Crash(p) /\ UNCHANGED <<orderVars, notices>>

Spec == Init /\ [][Next]_vars

\* Goroutines are not starved, jobs run again and again (cron, every minute),
\* WeChat notifies until it is answered, time passes.  WeChat's users and the
\* buyer owe nothing.
Fairness ==
    /\ \A h \in Handlers : WF_vars(HandlerStep(h)) /\ WF_vars(HandleWechatCallback(h))
    /\ WF_vars(SyncWechatOrderJob)
    /\ WF_vars(SyncPaymentAndOrderJob)
    /\ WF_vars(CloseTimeoutOrders /\ UNCHANGED notices)
    /\ WF_vars(ReleaseTimeoutCredits)
    /\ WF_vars(Consume /\ UNCHANGED notices)
    /\ WF_vars(Age)

FairSpec == Spec /\ Fairness

-----------------------------------------------------------------------------
\* The variables have their types (credits: module Credit's business).
TypeOK ==
    /\ channels \subseteq {"credit", "wechat"}
    /\ payment \in PaymentRow \cup {NoRow}
    /\ trade \in TradeState
    /\ coded \in BOOLEAN
    /\ aged \subseteq {"order", "payment", "credit"}
    /\ loc \in [Procs -> PaymentRow]
    /\ order \in OrderStatus
    /\ completed \in BOOLEAN

\* The money an order's channels ask for has come in.
MoneyReceived ==
    /\ "wechat" \in channels => trade = "SUCCESS"
    /\ channels = {"credit"} => CreditStates = "Active"

\* No order is a success, no order_events message is sent and no payment is
\* recorded as paid before WeChat has the money or, for a payment in credits
\* alone, the credits are spent: whatever goes stale on the way from
\* executePayment, HandleWechatCallback and the jobs to SucceedOrder.
SuccessIsPaid ==
    /\ order = "success" \/ completed => MoneyReceived
    /\ payment # NoRow /\ payment.status = "success" => MoneyReceived

\* What waits in payment_events is true: a success has been paid for, and a
\* failure is told of no trade that WeChat may still see paid.
EventsAreTrue ==
    /\ events["success"] > 0 => MoneyReceived
    /\ events["failed"] > 0 => trade = "CLOSED"

\* The credits of a payment in credits and money are spent only once the money
\* has come in (HandleCreditCallback confirms; every error path cancels).
CreditsSpentOnlyIfPaid ==
    CreditStates = "Active" /\ "wechat" \in channels => trade = "SUCCESS"

\* An order that has ended is never open for payment again, whichever of
\* UpdateUnpaidOrderPaymentInfo, CancelOrder, SucceedOrder, FailOrder and
\* SetOrdersTimeoutClosed comes last.
TerminalStays == [][(order \in Terminal) => (order' \in Terminal)]_vars

\* An order that was paid for stays a success (SucceedOrder: 已收到用户付款,
\* 不管订单状态为什么一律标记为“已完成”).
SuccessIsFinal == [][(order = "success") => (order' = "success")]_vars

\* As long as nothing has timed out, so that no job has anything to do, that is
\* what the code does: handlers, notifications and events alone, late and in any
\* order, never undo a success.
SuccessIsFinalInTime ==
    [][(aged = {} /\ order = "success") => (order' = "success")]_vars

\* CloseTimeoutPayment is for payments whose status is at most 支付中: none that
\* is recorded as paid becomes closed.
PaidIsNotClosed ==
    [][payment # NoRow /\ payment.status = "success" => payment'.status # "closed"]_vars

\* A credit record that says 支付成功 has spent its credits (Reconcile: 如果pmt =
\* “支付成功”, 确认扣减积分).
CreditRecordIsSpent ==
    payment # NoRow /\ payment.creditStatus = "success" => CreditStates = "Active"

\* Money that WeChat received and credits that were spent are answered by an
\* order_events message, unless a call failed or a process died: through a
\* notification or a job, and whatever became of the order meanwhile.
PaidIsDelivered ==
    (trade = "SUCCESS" \/ CreditStates = "Active") ~> (completed \/ faults > 0)

\* A payment that WeChat knows of, or that WeChat has no part in, does not stay
\* unpaid or processing for ever, even when calls fail: SyncWechatOrderJob
\* closes it, or records what WeChat says.
PaymentsEnd ==
    (trade # "none" \/ channels = {"credit"}) ~>
        (payment # NoRow /\ payment.status \in {"success", "failed", "closed"})
-----------------------------------------------------------------------------
\* For model checking: two handlers while nothing has timed out; once something
\* has, the jobs race with one handler and two of: a request, a notification, a
\* fault.
Scope ==
    \/ aged = {}
    \/ /\ calls + faults + notices <= 2
       /\ Cardinality({h \in Handlers : pc[h] # "idle"}) <= 1

Symmetry == Permutations(Handlers)
=============================================================================
