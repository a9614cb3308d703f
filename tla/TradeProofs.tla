---------------------------- MODULE TradeProofs ----------------------------
(***************************************************************************)
(* Proofs about Trade, for any number of handlers, requests, notifications *)
(* and faults.  The inductive invariant is TradeInv: what a goroutine      *)
(* holds, at the label where it stands, and what waits in payment_events   *)
(* are as true as what has been written.                                   *)
(***************************************************************************)
EXTENDS Trade, FiniteSetTheorems, TLAPS

Labels == {"idle", "createPayment", "link", "find", "findMain", "findRecords", "deduct",
           "confirm", "paid", "undo", "prepay", "processing", "notified", "settle", "record",
           "closeMain", "query", "syncUpdate", "closeCancel", "close", "failCancel",
           "failUpdate", "setOrder"}

CreditLog == [uid : {Buyer}, change : Int, status : {"Active", "Locked", "Inactive"}]

\* The types of TypeOK, and of what it leaves out.
Typed ==
    /\ TypeOK
    /\ pc \in [Procs -> Labels]
    /\ events \in [{"success", "failed"} -> Nat]
    /\ entry \in [{SN} -> CreditLog \cup {NoRow}]

\* Before the payment exists nothing has been paid, read or told, and at most
\* one handler is about to create it.
BeforePayment ==
    /\ order = "none" => payment = NoRow /\ \A p \in Procs : pc[p] # "createPayment"
    /\ payment = NoRow =>
         /\ channels = {}
         /\ CreditStates = "None"
         /\ "payment" \notin aged
         /\ order \notin {"processing", "success"}
         /\ ~completed
         /\ events["success"] = 0 /\ events["failed"] = 0
         /\ \A p \in Procs : pc[p] \in {"idle", "createPayment"} /\ loc[p].status = "unpaid"
    /\ payment # NoRow => channels # {} /\ \A p \in Procs : pc[p] # "createPayment"
    /\ \A p, q \in Procs : pc[p] = "createPayment" /\ pc[q] = "createPayment" => p = q
    /\ trade # "none" => "wechat" \in channels

\* What a goroutine's label says about the channels and about what it holds.
Standing(p) ==
    /\ pc[p] = "confirm" => channels = {"credit"}
    /\ pc[p] \in {"prepay", "processing"} => "wechat" \in channels
    /\ pc[p] = "paid" => loc[p].status = "success"
    /\ pc[p] \in {"notified", "syncUpdate"} =>
         \/ loc[p].status = "success"
         \/ loc[p].status = "failed" /\ trade = "CLOSED"

\* Nobody believes in a success before the money is there.
Believed ==
    \/ order = "success"
    \/ completed
    \/ payment # NoRow /\ payment.status = "success"
    \/ events["success"] > 0
    \/ \E p \in Procs : loc[p].status = "success"

TradeInv ==
    /\ Typed
    /\ BeforePayment
    /\ \A p \in Procs : Standing(p)
    /\ Believed => MoneyReceived
    /\ events["failed"] > 0 => trade = "CLOSED"
    /\ CreditsSpentOnlyIfPaid

-----------------------------------------------------------------------------
(***************************************************************************)
(* What a call of a goroutine may do, whichever call it is.                *)
(***************************************************************************)
\* The credit log: what is spent stays spent.
CreditKept ==
    /\ entry' \in [{SN} -> CreditLog \cup {NoRow}]
    /\ CreditStates = "Active" => CreditStates' = "Active"

\* A step of goroutine p on a payment that exists.
Move(p) ==
    /\ payment # NoRow /\ payment' \in PaymentRow
    /\ channels' = channels /\ aged' = aged /\ coded' \in BOOLEAN
    /\ pc' = [pc EXCEPT ![p] = pc'[p]] /\ pc'[p] \in Labels \ {"createPayment"}
    /\ loc' = [loc EXCEPT ![p] = loc'[p]] /\ loc'[p] \in PaymentRow
    /\ trade' \in TradeState
    /\ trade' # trade => trade \in {"none", "NOTPAY"} /\ "wechat" \in channels
    /\ events' \in [{"success", "failed"} -> Nat]
    /\ order' \in OrderStatus \ {"none"} /\ completed' = completed
    /\ CreditKept
    /\ CreditStates # "Active" /\ CreditStates' = "Active" /\ "wechat" \in channels => trade = "SUCCESS"
    /\ Believed' => Believed \/ MoneyReceived'
    /\ events'["failed"] > 0 => events["failed"] > 0 \/ trade' = "CLOSED"
    /\ Standing(p)'

\* Such a step keeps the invariant.
LEMMA MoveKeeps ==
    ASSUME TradeInv, NEW p \in Procs, Move(p)
    PROVE  TradeInv'
<1> USE DEF TradeInv
<1>1. Typed'
  BY DEF Move, CreditKept, Typed, TypeOK
<1>2. pc \in [Procs -> Labels] /\ loc \in [Procs -> PaymentRow]
  BY DEF Typed, TypeOK
<1>3. payment' # NoRow
  BY TradeAssumption DEF Move
<1>4. \A q \in Procs : pc'[q] # "createPayment"
  BY <1>2 DEF Move, BeforePayment
<1>5. BeforePayment'
  BY <1>3, <1>4 DEF Move, BeforePayment
<1>6. \A q \in Procs : Standing(q)'
  BY <1>2 DEF Move, Standing
<1>7. MoneyReceived => MoneyReceived'
  BY DEF MoneyReceived, Move, CreditKept
<1>8. Believed' => MoneyReceived'
  BY <1>7 DEF Move
<1>9. events'["failed"] > 0 => trade' = "CLOSED"
  BY DEF Move
<1>10. CreditsSpentOnlyIfPaid'
  BY DEF CreditsSpentOnlyIfPaid, Move
<1> QED
  BY <1>1, <1>5, <1>6, <1>8, <1>9, <1>10

-----------------------------------------------------------------------------
(***************************************************************************)
(* The operators that the calls are made of.                               *)
(***************************************************************************)
\* What a goroutine keeps is a payment, and no more of a success than before.
LEMMA KeptType ==
    ASSUME NEW p, NEW label \in Labels, NEW pmt \in PaymentRow
    PROVE  /\ Kept(p, label, pmt) \in PaymentRow
           /\ Kept(p, label, pmt).status = "success" => pmt.status = "success"
           /\ label \in {"paid", "notified", "syncUpdate"} => Kept(p, label, pmt).status = pmt.status
<1> QED
  BY DEF Kept, NewPayment, PaymentRow, PaymentStatus

LEMMA Going ==
    ASSUME TradeInv, NEW p \in Procs, NEW label \in Labels, NEW pmt \in PaymentRow,
           GotoWith(p, label, pmt)
    PROVE  /\ pc' = [pc EXCEPT ![p] = pc'[p]] /\ pc'[p] = label
           /\ loc' = [loc EXCEPT ![p] = loc'[p]] /\ loc'[p] \in PaymentRow
           /\ loc'[p].status = "success" => pmt.status = "success"
           /\ label \in {"paid", "notified", "syncUpdate"} => loc'[p].status = pmt.status
<1>1. pc \in [Procs -> Labels] /\ loc \in [Procs -> PaymentRow]
  BY DEF TradeInv, Typed, TypeOK
<1> DEFINE kept == Kept(p, label, pmt)
<1>2. /\ kept \in PaymentRow
      /\ kept.status = "success" => pmt.status = "success"
      /\ label \in {"paid", "notified", "syncUpdate"} => kept.status = pmt.status
  BY KeptType
<1>3. pc' = [pc EXCEPT ![p] = label] /\ loc' = [loc EXCEPT ![p] = kept]
  BY DEF GotoWith
<1> HIDE DEF kept
<1> QED
  BY <1>1, <1>2, <1>3

\* A goroutine holds one payment, so few stamps are in use and Now finds one.
LEMMA NowIsNat ==
    ASSUME TradeInv
    PROVE  Now \in Nat
<1> DEFINE n == Cardinality(Procs)
           P == [p \in Procs |-> loc[p].paidAt]
           C == [p \in Procs |-> loc[p].creditPaidAt]
           A == {loc[p].paidAt : p \in Procs}
           B == {loc[p].creditPaidAt : p \in Procs}
           U == {payment.paidAt, payment.creditPaidAt}
                  \cup UNION {{loc[p].paidAt, loc[p].creditPaidAt} : p \in Procs}
           N == 1 .. 2 * n + 3
<1>1. IsFiniteSet(Procs) /\ n \in Nat
  <2>1. IsFiniteSet({SyncJob}) /\ IsFiniteSet({ReconJob})
    BY FS_Singleton
  <2>2. IsFiniteSet({SyncJob} \cup {ReconJob})
    BY <2>1, FS_Union
  <2>3. IsFiniteSet(Handlers \cup ({SyncJob} \cup {ReconJob}))
    BY <2>2, FS_Union, TradeAssumption
  <2>4. Procs = Handlers \cup ({SyncJob} \cup {ReconJob})
    BY DEF Procs
  <2> QED
    BY <2>3, <2>4, FS_CardinalityType
<1>2. /\ IsFiniteSet(A) /\ Cardinality(A) <= n
      /\ IsFiniteSet(B) /\ Cardinality(B) <= n
  <2>1. P \in Surjection(Procs, A) /\ C \in Surjection(Procs, B)
    BY DEF Surjection
  <2> HIDE DEF P, C, A, B
  <2> QED
    BY <1>1, <2>1, FS_Surjection
<1>3. U = ({payment.paidAt} \cup {payment.creditPaidAt}) \cup (A \cup B)
  OBVIOUS
<1>4. IsFiniteSet(U) /\ Cardinality(U) <= 2 * n + 2
  <2> HIDE DEF A, B, n
  <2> DEFINE X == {payment.paidAt}
             Y == {payment.creditPaidAt}
  <2>1. IsFiniteSet(X) /\ Cardinality(X) = 1 /\ IsFiniteSet(Y) /\ Cardinality(Y) = 1
    BY FS_Singleton
  <2> HIDE DEF X, Y
  <2>2. IsFiniteSet(X \cup Y) /\ Cardinality(X \cup Y) = Cardinality(X) + Cardinality(Y) - Cardinality(X \cap Y)
    BY <2>1, FS_Union
  <2>3. IsFiniteSet(X \cap Y) /\ Cardinality(X \cap Y) \in Nat
    BY <2>1, FS_Intersection, FS_CardinalityType
  <2>4. IsFiniteSet(A \cup B) /\ Cardinality(A \cup B) = Cardinality(A) + Cardinality(B) - Cardinality(A \cap B)
    BY <1>2, FS_Union
  <2>5. IsFiniteSet(A \cap B) /\ Cardinality(A \cap B) \in Nat
    BY <1>2, FS_Intersection, FS_CardinalityType
  <2> DEFINE V == X \cup Y
             W == A \cup B
  <2>6. IsFiniteSet(V \cup W) /\ Cardinality(V \cup W) = Cardinality(V) + Cardinality(W) - Cardinality(V \cap W)
    BY <2>2, <2>4, FS_Union
  <2>7. Cardinality(V \cap W) \in Nat
    BY <2>2, <2>4, FS_Intersection, FS_CardinalityType
  <2>8. Cardinality(V) <= 2 /\ Cardinality(V) \in Nat
    BY <2>1, <2>2, <2>3, FS_CardinalityType
  <2>9. Cardinality(W) <= 2 * n /\ Cardinality(W) \in Nat
    BY <1>1, <1>2, <2>4, <2>5, FS_CardinalityType
  <2>10. U = V \cup W
    BY <1>3 DEF X, Y
  <2> HIDE DEF V, W, U
  <2> QED
    BY <1>1, <2>6, <2>7, <2>8, <2>9, <2>10
<1>5. IsFiniteSet(N) /\ Cardinality(N) = 2 * n + 3
  <2> HIDE DEF n
  <2>1. 1 \in Int /\ 2 * n + 3 \in Int /\ ~(1 > 2 * n + 3)
    BY <1>1
  <2> HIDE DEF N
  <2>2. IsFiniteSet(1 .. 2 * n + 3) /\ Cardinality(1 .. 2 * n + 3) = (2 * n + 3) - 1 + 1
    BY <2>1, FS_Interval
  <2> QED
    BY <1>1, <2>2 DEF N
<1>6. ~(N \subseteq U)
  <2> HIDE DEF N, U, n
  <2> SUFFICES ASSUME N \subseteq U PROVE FALSE
    OBVIOUS
  <2>1. Cardinality(N) <= Cardinality(U)
    BY <1>4, FS_Subset
  <2>2. Cardinality(U) \in Nat
    BY <1>4, FS_CardinalityType
  <2> QED
    BY <1>1, <1>4, <1>5, <2>1, <2>2
<1>7. PICK m \in N : m \notin U
  BY <1>6
<1>8. Now \in N
  BY <1>7 DEF Now
<1>9. \A x \in N : x \in Nat
  <2> HIDE DEF n
  <2> QED
    BY <1>1
<1> QED
  BY <1>8, <1>9

\* What the calls of the credit module do to the log.
LEMMA CreditMoves ==
    ASSUME TradeInv
    PROVE  /\ UNCHANGED creditVars => CreditKept /\ CreditStates' = CreditStates
           /\ CancelDeductCredits => CreditKept /\ (CreditStates' = "Active" => CreditStates = "Active")
           /\ Ledger!Hold(Buyer, SN, Price)
                 => CreditKept /\ (CreditStates' = "Active" => CreditStates = "Active")
           /\ ConfirmDeductCredits => CreditKept
           /\ ConfirmDeductCredits /\ CanConfirm => CreditStates' = "Active"
<1>1. entry \in [{SN} -> CreditLog \cup {NoRow}] /\ NoRow \notin CreditLog
  BY TradeAssumption DEF TradeInv, Typed, CreditLog
<1>2. UNCHANGED creditVars => CreditKept /\ CreditStates' = CreditStates
  BY <1>1 DEF creditVars, CreditKept, CreditStates
<1>3. Ledger!Release(SN) => CreditKept /\ (CreditStates' = "Active" => CreditStates = "Active")
  BY <1>1 DEF Ledger!Release, CreditKept, CreditStates, CreditLog
<1>4. Ledger!Hold(Buyer, SN, Price)
         => CreditKept /\ (CreditStates' = "Active" => CreditStates = "Active")
  BY <1>1, TradeAssumption DEF Ledger!Hold, Ledger!LedgerEntry, CreditKept, CreditStates, CreditLog
<1>5. Ledger!Spend(SN) => CreditKept /\ CreditStates' = "Active"
  BY <1>1 DEF Ledger!Spend, CreditKept, CreditStates, CreditLog
<1> QED
  BY <1>2, <1>3, <1>4, <1>5 DEF CancelDeductCredits, ConfirmDeductCredits, CanConfirm

\* What is written has the status of what the goroutine holds.
LEMMA RowsWritten ==
    ASSUME TradeInv, payment # NoRow, NEW pmt \in PaymentRow
    PROVE  /\ MainWritten(pmt) \in PaymentRow /\ MainWritten(pmt).status = pmt.status
           /\ AllWritten(pmt) \in PaymentRow /\ AllWritten(pmt).status = pmt.status
<1>1. payment \in PaymentRow
  BY DEF TradeInv, Typed, TypeOK
<1>2. MainWritten(pmt) \in PaymentRow /\ MainWritten(pmt).status = pmt.status
  BY <1>1 DEF MainWritten, NonZero, PaymentRow
<1>3. (MainWritten(pmt).tid \/ pmt.tid) \in BOOLEAN
  OBVIOUS
<1>4. NonZero(pmt.creditPaidAt, MainWritten(pmt).creditPaidAt) \in Nat
  BY <1>2 DEF NonZero, PaymentRow
<1> HIDE DEF MainWritten
<1>5. AllWritten(pmt) \in PaymentRow /\ AllWritten(pmt).status = pmt.status
  BY <1>2, <1>3, <1>4 DEF AllWritten, PaymentRow
<1> QED
  BY <1>2, <1>5

\* Labels that say nothing.
Plain == {"idle", "link", "find", "findMain", "findRecords", "deduct", "undo", "settle", "record",
          "closeMain", "query", "closeCancel", "close", "failCancel", "failUpdate", "setOrder"}

LEMMA PlainStanding ==
    ASSUME NEW p \in Procs, pc'[p] \in Plain
    PROVE  Standing(p)'
<1> QED
  BY DEF Plain, Standing

\* A step that goes on to a label with a payment is a move.
LEMMA Acting ==
    ASSUME TradeInv, NEW p \in Procs, NEW label \in Labels \ {"createPayment"},
           NEW pmt \in PaymentRow, GotoWith(p, label, pmt),
           pmt.status = "success" => Believed \/ MoneyReceived',
           payment # NoRow, payment' \in PaymentRow,
           payment'.status = "success" => Believed \/ MoneyReceived',
           channels' = channels, aged' = aged, coded' \in BOOLEAN,
           trade' \in TradeState,
           trade' # trade => trade \in {"none", "NOTPAY"} /\ "wechat" \in channels,
           events' \in [{"success", "failed"} -> Nat],
           events'["success"] > 0 => Believed \/ MoneyReceived',
           events'["failed"] > 0 => events["failed"] > 0 \/ trade' = "CLOSED",
           completed' = completed,
           \/ order' = order
           \/ order' \in OrderStatus \ {"none"} /\ (order' = "success" => Believed \/ MoneyReceived'),
           CreditKept,
           CreditStates # "Active" /\ CreditStates' = "Active" /\ "wechat" \in channels
             => trade = "SUCCESS",
           Standing(p)'
    PROVE  Move(p)
<1>1. /\ pc' = [pc EXCEPT ![p] = pc'[p]] /\ pc'[p] = label
      /\ loc' = [loc EXCEPT ![p] = loc'[p]] /\ loc'[p] \in PaymentRow
      /\ loc'[p].status = "success" => pmt.status = "success"
  BY Going
<1>2. loc \in [Procs -> PaymentRow] /\ order \in OrderStatus /\ order # "none"
  BY DEF TradeInv, Typed, TypeOK, BeforePayment
<1>3. Believed' => Believed \/ MoneyReceived'
  <2>1. ASSUME NEW q \in Procs, loc'[q].status = "success"
        PROVE  Believed \/ MoneyReceived'
    <3>1. CASE q = p
      BY <1>1, <2>1, <3>1
    <3>2. CASE q # p
      BY <1>1, <1>2, <2>1, <3>2 DEF Believed
    <3> QED
      BY <3>1, <3>2
  <2> QED
    BY <2>1 DEF Believed
<1> QED
  BY <1>1, <1>2, <1>3 DEF Move

\* A step that only goes on.
LEMMA Turning ==
    ASSUME TradeInv, NEW p \in Procs, NEW label \in Labels \ {"createPayment"},
           NEW pmt \in PaymentRow, GotoWith(p, label, pmt), Standing(p)',
           pmt.status = "success" => Believed \/ MoneyReceived',
           payment # NoRow,
           UNCHANGED <<channels, payment, tradeVars, creditVars, events, aged, order, completed>>
    PROVE  Move(p)
<1>1. /\ channels' = channels /\ payment' = payment /\ trade' = trade /\ coded' = coded
      /\ events' = events /\ aged' = aged /\ order' = order /\ completed' = completed
      /\ UNCHANGED creditVars
  BY DEF tradeVars
<1>2. CreditKept /\ CreditStates' = CreditStates
  BY <1>1, CreditMoves
<1>3. /\ payment \in PaymentRow /\ coded \in BOOLEAN /\ trade \in TradeState
      /\ events \in [{"success", "failed"} -> Nat]
  BY DEF TradeInv, Typed, TypeOK
<1>4. /\ payment.status = "success" => Believed
      /\ events["success"] > 0 => Believed
  BY DEF Believed
<1> QED
  BY <1>1, <1>2, <1>3, <1>4, Acting

\* The same with what it holds.
LEMMA Continuing ==
    ASSUME TradeInv, NEW p \in Procs, NEW label \in Plain, Goto(p, label),
           payment # NoRow,
           UNCHANGED <<channels, payment, tradeVars, creditVars, events, aged, order, completed>>
    PROVE  Move(p)
<1>1. loc[p] \in PaymentRow /\ (loc[p].status = "success" => Believed)
  BY DEF TradeInv, Typed, TypeOK, Believed
<1>2. label \in Labels \ {"createPayment"} /\ GotoWith(p, label, loc[p])
  BY DEF Plain, Labels, Goto
<1>3. Standing(p)'
  BY <1>1, <1>2, Going, PlainStanding
<1> QED
  BY <1>1, <1>2, <1>3, Turning

\* A step that writes or leaves the payment, the credit log and the events as
\* its caller says, and goes on with what it holds.
LEMMA Writing ==
    ASSUME TradeInv, NEW p \in Procs, NEW label \in Plain, Goto(p, label), payment # NoRow,
           payment' \in PaymentRow, payment'.status = "success" => Believed \/ MoneyReceived',
           UNCHANGED <<channels, tradeVars, aged, order, completed>>,
           \/ UNCHANGED events
           \/ /\ events' = [events EXCEPT ![loc[p].status] = @ + 1]
              /\ loc[p].status = "failed" => trade = "CLOSED",
           CreditKept,
           CreditStates # "Active" /\ CreditStates' = "Active" /\ "wechat" \in channels
             => trade = "SUCCESS"
    PROVE  Move(p)
<1>1. loc[p] \in PaymentRow /\ (loc[p].status = "success" => Believed)
  BY DEF TradeInv, Typed, TypeOK, Believed
<1>2. label \in Labels \ {"createPayment"} /\ GotoWith(p, label, loc[p])
  BY DEF Plain, Labels, Goto
<1>3. Standing(p)'
  BY <1>1, <1>2, Going, PlainStanding
<1>4. /\ channels' = channels /\ trade' = trade /\ coded' = coded
      /\ aged' = aged /\ order' = order /\ completed' = completed
  BY DEF tradeVars
<1>5. coded \in BOOLEAN /\ trade \in TradeState /\ events \in [{"success", "failed"} -> Nat]
  BY DEF TradeInv, Typed, TypeOK
<1>6. /\ events' \in [{"success", "failed"} -> Nat]
      /\ events'["success"] > 0 => events["success"] > 0 \/ loc[p].status = "success"
      /\ events'["failed"] > 0 => events["failed"] > 0 \/ trade = "CLOSED"
  BY <1>1, <1>5
<1>7. events["success"] > 0 => Believed
  BY DEF Believed
<1> QED
  BY <1>1, <1>2, <1>3, <1>4, <1>5, <1>6, <1>7, Acting

LEMMA Updating ==
    ASSUME TradeInv, NEW p \in Procs, NEW ok \in Plain, NEW failed \in Plain, payment # NoRow,
           NEW row \in PaymentRow, row.status = "success" => Believed,
           UpdatePayment(p, row, ok, failed), UNCHANGED <<order, completed>>
    PROVE  Move(p)
<1>1. CreditKept /\ CreditStates' = CreditStates
  BY CreditMoves DEF UpdatePayment
<1>2. payment' \in {payment, row} /\ \E label \in Plain : Goto(p, label)
  BY DEF UpdatePayment, Fail
<1>3. payment \in PaymentRow /\ (payment.status = "success" => Believed)
  BY DEF TradeInv, Typed, TypeOK, Believed
<1>4. UNCHANGED <<channels, tradeVars, aged, order, completed>> /\ UNCHANGED events
  BY DEF UpdatePayment
<1> QED
  BY <1>1, <1>2, <1>3, <1>4, Writing

LEMMA Sending ==
    ASSUME TradeInv, NEW p \in Procs, NEW ok \in Plain, NEW failed \in Plain, payment # NoRow,
           NEW row \in PaymentRow, row.status = "success" => Believed,
           loc[p].status = "failed" => trade = "CLOSED",
           UpdateAndSend(p, row, ok, failed), UNCHANGED <<order, completed>>
    PROVE  Move(p)
<1>1. CreditKept /\ CreditStates' = CreditStates
  BY CreditMoves DEF UpdateAndSend
<1>2. payment' \in {payment, row} /\ \E label \in Plain : Goto(p, label)
  BY DEF UpdateAndSend, Fail
<1>3. payment \in PaymentRow /\ (payment.status = "success" => Believed)
  BY DEF TradeInv, Typed, TypeOK, Believed
<1>4. /\ UNCHANGED <<channels, tradeVars, aged, order, completed>>
      /\ \/ UNCHANGED events
         \/ events' = [events EXCEPT ![loc[p].status] = @ + 1]
  BY DEF UpdateAndSend
<1> QED
  BY <1>1, <1>2, <1>3, <1>4, Writing

LEMMA Cancelling ==
    ASSUME TradeInv, NEW p \in Procs, NEW label \in Plain, payment # NoRow,
           CreditCall(p, CancelDeductCredits, label), UNCHANGED <<order, completed>>
    PROVE  Move(p)
<1>1. CreditKept /\ (CreditStates' = "Active" => CreditStates = "Active")
  BY CreditMoves DEF CreditCall
<1>2. Goto(p, label)
  BY DEF CreditCall, Fail
<1>3. payment \in PaymentRow /\ (payment.status = "success" => Believed)
  BY DEF TradeInv, Typed, TypeOK, Believed
<1>4. UNCHANGED <<channels, payment, tradeVars, events, aged, order, completed>>
  BY DEF CreditCall
<1> QED
  BY <1>1, <1>2, <1>3, <1>4, Writing

-----------------------------------------------------------------------------
(***************************************************************************)
(* Every call of a goroutine is a move.                                    *)
(***************************************************************************)
\* What a goroutine holds is a payment, and a success only if there is one.
LEMMA HoldsPayment ==
    ASSUME TradeInv, NEW p \in Procs
    PROVE  /\ loc[p] \in PaymentRow /\ (loc[p].status = "success" => Believed)
           /\ pc[p] \notin {"idle", "createPayment"} => payment # NoRow
           /\ payment # NoRow => payment \in PaymentRow /\ (payment.status = "success" => Believed)
           /\ Believed => MoneyReceived
<1> QED
  BY DEF TradeInv, Typed, TypeOK, Believed, BeforePayment

LEMMA FoundType ==
    ASSUME TradeInv, NEW p \in Procs, pc[p] \in {"findMain", "findRecords"}
    PROVE  /\ Found(p) \in PaymentRow
           /\ Found(p).status = "success" => Believed
<1>1. payment \in PaymentRow /\ loc[p] \in PaymentRow
  BY HoldsPayment
<1>2. Found(p) \in PaymentRow /\ Found(p).status \in {payment.status, loc[p].status}
  BY <1>1 DEF Found, PaymentRow
<1> QED
  BY <1>2, HoldsPayment

\* HandleCreditCallback goes on to a label that says nothing.
LEMMA CallbackIsPlain ==
    ASSUME NEW p, NEW pmt
    PROVE  HandleCreditCallback(p, pmt) \in Plain /\ AfterCredit(p) \in Plain
<1> QED
  BY DEF HandleCreditCallback, AfterCredit, Plain

LEMMA FindMoves ==
    ASSUME TradeInv, NEW p \in Procs, Find(p), UNCHANGED <<order, completed>>
    PROVE  Move(p)
<1>1. payment # NoRow /\ payment \in PaymentRow /\ loc[p] \in PaymentRow
  BY HoldsPayment DEF Find
<1>2. UNCHANGED <<channels, payment, tradeVars, creditVars, events, aged, order, completed>>
  BY DEF Find
<1> DEFINE main == [loc[p] EXCEPT !.status = payment.status, !.paidAt = payment.paidAt]
           records == [payment EXCEPT !.status = "unpaid", !.paidAt = 0]
<1>3. /\ main \in PaymentRow /\ main.status = payment.status
      /\ records \in PaymentRow /\ records.status = "unpaid"
  BY <1>1 DEF PaymentRow, PaymentStatus
<1>4. \/ GotoWith(p, "findRecords", main)
      \/ GotoWith(p, "findMain", records)
  BY DEF Find
<1>5. payment.status = "success" => Believed
  BY <1>1, HoldsPayment
<1> HIDE DEF main, records
<1>6. PICK label \in {"findRecords", "findMain"}, pmt \in PaymentRow :
         GotoWith(p, label, pmt) /\ (pmt.status = "success" => Believed)
  BY <1>3, <1>4, <1>5
<1>7. label \in Labels \ {"createPayment"} /\ label \in Plain
  BY DEF Labels, Plain
<1>8. Standing(p)'
  BY <1>6, <1>7, Going, PlainStanding
<1> QED
  BY <1>1, <1>2, <1>6, <1>7, <1>8, Turning

LEMMA ExecutePaymentMoves ==
    ASSUME TradeInv, NEW p \in Procs, ExecutePayment(p), UNCHANGED <<order, completed>>
    PROVE  Move(p)
<1> DEFINE label == IF "credit" \in channels THEN "deduct" ELSE "prepay"
<1>1. payment # NoRow /\ Found(p) \in PaymentRow /\ (Found(p).status = "success" => Believed)
  BY FoundType, HoldsPayment DEF ExecutePayment
<1>2. /\ GotoWith(p, label, Found(p))
      /\ UNCHANGED <<channels, payment, tradeVars, creditVars, events, aged, order, completed>>
  BY DEF ExecutePayment
<1>3. label \in Labels \ {"createPayment"} /\ label \in {"deduct", "prepay"}
  BY DEF Labels
<1>4. label = "prepay" => "wechat" \in channels
  BY <1>1 DEF TradeInv, Typed, TypeOK, BeforePayment
<1> HIDE DEF label
<1>5. pc'[p] = label
  BY <1>1, <1>2, <1>3, Going
<1>6. Standing(p)'
  BY <1>2, <1>3, <1>4, <1>5 DEF Standing
<1> QED
  BY <1>1, <1>2, <1>3, <1>6, Turning

LEMMA DeductMoves ==
    ASSUME TradeInv, NEW p \in Procs, Deduct(p), UNCHANGED <<order, completed>>
    PROVE  Move(p)
<1>1. payment # NoRow /\ payment \in PaymentRow /\ (payment.status = "success" => Believed)
      /\ loc[p] \in PaymentRow /\ (loc[p].status = "success" => Believed)
  BY HoldsPayment DEF Deduct
<1>2. CreditKept /\ (CreditStates' = "Active" => CreditStates = "Active")
  BY CreditMoves DEF Deduct
<1>3. UNCHANGED <<channels, payment, tradeVars, events, aged, order, completed>>
  BY DEF Deduct
<1>4. Goto(p, "idle") \/ Goto(p, AfterDeduct)
  BY DEF Deduct, Fail
<1>5. CASE Goto(p, "idle")
  <2>1. "idle" \in Plain
    BY DEF Plain
  <2> QED
    BY <1>1, <1>2, <1>3, <1>5, <2>1, Writing
<1>6. CASE Goto(p, AfterDeduct)
  <2>1. /\ AfterDeduct \in Labels \ {"createPayment"} /\ AfterDeduct \in {"confirm", "prepay"}
        /\ AfterDeduct = "confirm" => channels = {"credit"}
        /\ AfterDeduct = "prepay" => "wechat" \in channels
    <3>1. channels \subseteq {"credit", "wechat"} /\ channels # {}
      BY <1>1 DEF TradeInv, Typed, TypeOK, BeforePayment
    <3>2. channels # {"credit"} => "wechat" \in channels
      BY <3>1
    <3> QED
      BY <3>2 DEF AfterDeduct, Labels
  <2>2. GotoWith(p, AfterDeduct, loc[p])
    BY <1>6 DEF Goto
  <2>3. pc'[p] = AfterDeduct
    BY <1>1, <2>1, <2>2, Going
  <2>4. Standing(p)'
    BY <1>3, <2>1, <2>3 DEF Standing
  <2>5. /\ channels' = channels /\ payment' = payment /\ trade' = trade /\ coded' = coded
        /\ events' = events /\ aged' = aged /\ order' = order /\ completed' = completed
    BY <1>3 DEF tradeVars
  <2>6. /\ coded \in BOOLEAN /\ trade \in TradeState
        /\ events \in [{"success", "failed"} -> Nat] /\ (events["success"] > 0 => Believed)
    BY DEF TradeInv, Typed, TypeOK, Believed
  <2> QED
    BY <1>1, <1>2, <2>1, <2>2, <2>4, <2>5, <2>6, Acting
<1> QED
  BY <1>4, <1>5, <1>6

LEMMA ConfirmMoves ==
    ASSUME TradeInv, NEW p \in Procs, Confirm(p), UNCHANGED <<order, completed>>
    PROVE  Move(p)
<1>1. /\ payment # NoRow /\ payment \in PaymentRow /\ (payment.status = "success" => Believed)
      /\ loc[p] \in PaymentRow
  BY HoldsPayment DEF Confirm
<1>2. CreditKept
  BY CreditMoves DEF Confirm
<1>3. channels = {"credit"} /\ "wechat" \notin channels
  BY DEF Confirm, TradeInv, Standing
<1>4. UNCHANGED <<channels, payment, tradeVars, events, aged, order, completed>>
  BY DEF Confirm
<1> DEFINE pmt == [loc[p] EXCEPT !.status = "success", !.paidAt = Now, !.tid = TRUE,
                                 !.creditStatus = "success", !.creditPaidAt = Now]
<1>5. pmt \in PaymentRow /\ pmt.status = "success"
  BY <1>1, NowIsNat DEF PaymentRow, PaymentStatus
<1>6. \/ GotoWith(p, "paid", pmt) /\ ConfirmDeductCredits /\ CanConfirm
      \/ Goto(p, "undo")
  BY DEF Confirm, Fail
<1> HIDE DEF pmt
<1>7. CASE GotoWith(p, "paid", pmt) /\ ConfirmDeductCredits /\ CanConfirm
  <2>1. CreditStates' = "Active"
    BY <1>7, CreditMoves
  <2>2. MoneyReceived'
    BY <1>3, <1>4, <2>1 DEF MoneyReceived
  <2>3. "paid" \in Labels \ {"createPayment"}
    BY DEF Labels
  <2>4. pc'[p] = "paid" /\ loc'[p].status = "success"
    BY <1>5, <1>7, <2>3, Going
  <2>5. Standing(p)'
    BY <2>4 DEF Standing
  <2>6. /\ channels' = channels /\ payment' = payment /\ trade' = trade /\ coded' = coded
        /\ events' = events /\ aged' = aged /\ order' = order /\ completed' = completed
    BY <1>4 DEF tradeVars
  <2>7. coded \in BOOLEAN /\ trade \in TradeState /\ events \in [{"success", "failed"} -> Nat]
    BY DEF TradeInv, Typed, TypeOK
  <2>8. events["success"] > 0 => Believed
    BY DEF Believed
  <2> QED
    BY <1>1, <1>2, <1>3, <1>5, <1>7, <2>2, <2>3, <2>5, <2>6, <2>7, <2>8, Acting
<1>8. CASE Goto(p, "undo")
  <2>1. "undo" \in Plain
    BY DEF Plain
  <2> QED
    BY <1>1, <1>2, <1>3, <1>4, <1>8, <2>1, Writing
<1> QED
  BY <1>6, <1>7, <1>8

LEMMA PrepayMoves ==
    ASSUME TradeInv, NEW p \in Procs, Prepay(p), UNCHANGED <<order, completed>>
    PROVE  Move(p)
<1>1. /\ payment # NoRow /\ payment \in PaymentRow /\ (payment.status = "success" => Believed)
      /\ loc[p] \in PaymentRow /\ (loc[p].status = "success" => Believed)
  BY HoldsPayment DEF Prepay
<1>2. CreditKept /\ CreditStates' = CreditStates
  BY CreditMoves DEF Prepay
<1>3. "wechat" \in channels
  BY DEF Prepay, TradeInv, Standing
<1>4. /\ channels' = channels /\ payment' = payment /\ coded' = coded
      /\ events' = events /\ aged' = aged /\ order' = order /\ completed' = completed
  BY DEF Prepay
<1>5. /\ coded \in BOOLEAN /\ trade \in TradeState /\ events \in [{"success", "failed"} -> Nat]
      /\ events["success"] > 0 => Believed
  BY DEF TradeInv, Typed, TypeOK, Believed
<1>6. trade' \in TradeState /\ (trade' # trade => trade \in {"none", "NOTPAY"})
  BY <1>5 DEF Prepay, TradeState, tradeVars
<1> DEFINE pmt == [loc[p] EXCEPT !.status = "processing",
                                 !.tid = "credit" \in channels,
                                 !.creditStatus = IF "credit" \in channels THEN "processing" ELSE @]
<1>7. ("credit" \in channels) \in BOOLEAN
  OBVIOUS
<1>8. pmt \in PaymentRow /\ pmt.status = "processing"
  BY <1>1, <1>7 DEF PaymentRow, PaymentStatus
<1>9. GotoWith(p, "processing", pmt) \/ GotoWith(p, PrepayFailed, loc[p])
  BY DEF Prepay, Fail, Goto
<1> HIDE DEF pmt
<1>10. PICK label \in {"processing", "undo", "idle"}, held0 \in PaymentRow :
          GotoWith(p, label, held0) /\ (held0.status = "success" => Believed)
  BY <1>1, <1>8, <1>9 DEF PrepayFailed
<1>11. label \in Labels \ {"createPayment"}
  BY DEF Labels
<1>12. pc'[p] = label
  BY <1>10, <1>11, Going
<1>13. Standing(p)'
  BY <1>3, <1>4, <1>12 DEF Standing
<1> QED
  BY <1>1, <1>2, <1>3, <1>4, <1>5, <1>6, <1>10, <1>11, <1>13, Acting

LEMMA ProcessingMoves ==
    ASSUME TradeInv, NEW p \in Procs, Processing(p), UNCHANGED <<order, completed>>
    PROVE  Move(p)
<1>1. /\ payment # NoRow /\ payment \in PaymentRow /\ (payment.status = "success" => Believed)
      /\ loc[p] \in PaymentRow /\ (loc[p].status = "success" => Believed)
  BY HoldsPayment DEF Processing
<1>2. CreditKept /\ CreditStates' = CreditStates
  BY CreditMoves DEF Processing
<1>3. payment' \in {payment, AllWritten(loc[p])}
  BY DEF Processing
<1>4. payment' \in PaymentRow /\ (payment'.status = "success" => Believed)
  BY <1>1, <1>3, RowsWritten
<1>5. /\ channels' = channels /\ trade' = trade
      /\ events' = events /\ aged' = aged /\ order' = order /\ completed' = completed
  BY DEF Processing
<1>6. /\ coded \in BOOLEAN /\ trade \in TradeState /\ events \in [{"success", "failed"} -> Nat]
      /\ events["success"] > 0 => Believed
  BY DEF TradeInv, Typed, TypeOK, Believed
<1>7. coded' \in BOOLEAN
  BY <1>6 DEF Processing
<1>8. PICK label \in {"undo", "idle"} : GotoWith(p, label, loc[p])
  BY DEF Processing, Fail, Goto, PrepayFailed
<1>9. label \in Labels \ {"createPayment"} /\ label \in Plain
  BY DEF Labels, Plain
<1>10. Standing(p)'
  BY <1>1, <1>8, <1>9, Going, PlainStanding
<1> QED
  BY <1>1, <1>2, <1>4, <1>5, <1>6, <1>7, <1>8, <1>9, <1>10, Acting

LEMMA PaidMoves ==
    ASSUME TradeInv, NEW p \in Procs, Paid(p), UNCHANGED <<order, completed>>
    PROVE  Move(p)
<1>1. payment # NoRow /\ loc[p] \in PaymentRow /\ (loc[p].status = "success" => Believed)
  BY HoldsPayment DEF Paid
<1>2. loc[p].status = "success"
  BY DEF Paid, TradeInv, Standing
<1>3. AllWritten(loc[p]) \in PaymentRow /\ AllWritten(loc[p]).status = loc[p].status
  BY <1>1, RowsWritten
<1>4. "idle" \in Plain /\ "undo" \in Plain
  BY DEF Plain
<1>5. UpdateAndSend(p, AllWritten(loc[p]), "idle", "undo")
  BY DEF Paid
<1> QED
  BY <1>1, <1>2, <1>3, <1>4, <1>5, Sending

LEMMA CallbackUpdateMoves ==
    ASSUME TradeInv, NEW p \in Procs, CallbackUpdate(p), UNCHANGED <<order, completed>>
    PROVE  Move(p)
<1>1. payment # NoRow /\ loc[p] \in PaymentRow /\ (loc[p].status = "success" => Believed)
  BY HoldsPayment DEF CallbackUpdate
<1>2. loc[p].status = "failed" => trade = "CLOSED"
  BY DEF CallbackUpdate, TradeInv, Standing
<1>3. AllWritten(loc[p]) \in PaymentRow /\ AllWritten(loc[p]).status = loc[p].status
  BY <1>1, RowsWritten
<1>4. "idle" \in Plain /\ HandleCreditCallback(p, loc[p]) \in Plain
  BY CallbackIsPlain DEF Plain
<1>5. UpdateAndSend(p, AllWritten(loc[p]), HandleCreditCallback(p, loc[p]), "idle")
  BY DEF CallbackUpdate
<1> QED
  BY <1>1, <1>2, <1>3, <1>4, <1>5, Sending

LEMMA SyncUpdateMoves ==
    ASSUME TradeInv, SyncUpdate, UNCHANGED <<order, completed>>
    PROVE  Move(SyncJob)
<1>1. /\ SyncJob \in Procs /\ pc[SyncJob] = "syncUpdate"
      /\ UpdateAndSend(SyncJob, MainWritten(loc[SyncJob]),
                       HandleCreditCallback(SyncJob, loc[SyncJob]), "idle")
  BY DEF SyncUpdate, Procs
<1>2. /\ payment # NoRow /\ loc[SyncJob] \in PaymentRow
      /\ loc[SyncJob].status = "success" => Believed
  BY <1>1, HoldsPayment
<1>3. loc[SyncJob].status = "failed" => trade = "CLOSED"
  BY <1>1 DEF TradeInv, Standing
<1>4. MainWritten(loc[SyncJob]) \in PaymentRow /\ MainWritten(loc[SyncJob]).status = loc[SyncJob].status
  BY <1>2, RowsWritten
<1>5. "idle" \in Plain /\ HandleCreditCallback(SyncJob, loc[SyncJob]) \in Plain
  BY CallbackIsPlain DEF Plain
<1> QED
  BY <1>1, <1>2, <1>3, <1>4, <1>5, Sending

LEMMA CancelsMove ==
    ASSUME TradeInv, NEW p \in Procs, UNCHANGED <<order, completed>>,
           \/ Undo(p)
           \/ CloseCancel /\ p = SyncJob
           \/ FailCancel /\ p = ReconJob
    PROVE  Move(p)
<1>1. \E label \in Plain : CreditCall(p, CancelDeductCredits, label)
  BY DEF Undo, CloseCancel, FailCancel, Plain
<1>2. payment # NoRow
  BY HoldsPayment DEF Undo, CloseCancel, FailCancel
<1> QED
  BY <1>1, <1>2, Cancelling

LEMMA SettleMoves ==
    ASSUME TradeInv, NEW p \in Procs, Settle(p), UNCHANGED <<order, completed>>
    PROVE  Move(p)
<1>1. /\ payment # NoRow /\ payment \in PaymentRow /\ (payment.status = "success" => Believed)
      /\ loc[p].status = "success" => MoneyReceived
  BY HoldsPayment DEF Settle
<1>2. "record" \in Plain
  BY DEF Plain
<1>3. CASE loc[p].status = "success"
  <2>1. CreditCall(p, ConfirmDeductCredits, "record")
    BY <1>3 DEF Settle
  <2>2. CreditKept /\ Goto(p, "record")
    BY <2>1, CreditMoves DEF CreditCall, Fail
  <2>3. "wechat" \in channels => trade = "SUCCESS"
    BY <1>1, <1>3 DEF MoneyReceived
  <2>4. UNCHANGED <<channels, payment, tradeVars, events, aged, order, completed>>
    BY <2>1 DEF CreditCall
  <2> QED
    BY <1>1, <1>2, <2>2, <2>3, <2>4, Writing
<1>4. CASE loc[p].status # "success"
  BY <1>1, <1>2, <1>4, Cancelling DEF Settle
<1> QED
  BY <1>3, <1>4

LEMMA RecordMoves ==
    ASSUME TradeInv, NEW p \in Procs, Record(p), UNCHANGED <<order, completed>>
    PROVE  Move(p)
<1> DEFINE pmt == [loc[p] EXCEPT !.creditStatus = loc[p].status, !.creditPaidAt = loc[p].paidAt]
<1>1. payment # NoRow /\ loc[p] \in PaymentRow /\ (loc[p].status = "success" => Believed)
  BY HoldsPayment DEF Record
<1>2. pmt \in PaymentRow /\ pmt.status = loc[p].status
  BY <1>1 DEF PaymentRow
<1>3. PICK ok \in Plain, failed \in Plain : UpdatePayment(p, AllWritten(pmt), ok, failed)
  BY CallbackIsPlain DEF Record, Plain
<1> HIDE DEF pmt
<1>4. AllWritten(pmt) \in PaymentRow /\ AllWritten(pmt).status = pmt.status
  BY <1>1, <1>2, RowsWritten
<1> QED
  BY <1>1, <1>2, <1>3, <1>4, Updating

LEMMA CloseMoves ==
    ASSUME TradeInv, Close \/ CloseMain, UNCHANGED <<order, completed>>
    PROVE  Move(SyncJob)
<1> DEFINE main == [loc[SyncJob] EXCEPT !.status = "closed"]
           all == [loc[SyncJob] EXCEPT !.status = "closed", !.creditStatus = "closed"]
<1>1. SyncJob \in Procs /\ "idle" \in Plain
  BY DEF Procs, Plain
<1>2. payment # NoRow /\ loc[SyncJob] \in PaymentRow
  BY <1>1, HoldsPayment DEF Close, CloseMain
<1>3. main \in PaymentRow /\ main.status = "closed" /\ all \in PaymentRow /\ all.status = "closed"
  BY <1>2 DEF PaymentRow, PaymentStatus
<1>4. \/ UpdatePayment(SyncJob, MainWritten(main), "idle", "idle")
      \/ UpdatePayment(SyncJob, AllWritten(all), "idle", "idle")
  BY DEF Close, CloseMain
<1> HIDE DEF main, all
<1>5. /\ MainWritten(main) \in PaymentRow /\ MainWritten(main).status = "closed"
      /\ AllWritten(all) \in PaymentRow /\ AllWritten(all).status = "closed"
  BY <1>2, <1>3, RowsWritten
<1> QED
  BY <1>1, <1>2, <1>4, <1>5, Updating

\* WeChat's final word is as good as the money.
LEMMA FinalTrade ==
    ASSUME TradeInv, trade \in {"SUCCESS", "CLOSED"}
    PROVE  /\ payment # NoRow
           /\ TradeStatus(trade) \in {"success", "failed"}
           /\ TradeStatus(trade) = "success" => MoneyReceived
           /\ TradeStatus(trade) = "failed" => trade = "CLOSED"
<1>1. "wechat" \in channels
  BY DEF TradeInv, BeforePayment
<1>2. payment # NoRow
  BY <1>1 DEF TradeInv, BeforePayment
<1>3. channels # {"credit"}
  BY <1>1
<1> QED
  BY <1>1, <1>2, <1>3 DEF TradeStatus, MoneyReceived

LEMMA NotifiedMoves ==
    ASSUME TradeInv, NEW p \in Procs, Notified(p), UNCHANGED <<order, completed>>
    PROVE  Move(p)
<1> DEFINE pmt == [payment EXCEPT !.status = TradeStatus(trade),
                                  !.paidAt = IF TradeStatus(trade) = "success" THEN Now ELSE 0]
<1>1. /\ payment # NoRow /\ payment \in PaymentRow
      /\ TradeStatus(trade) \in {"success", "failed"}
      /\ TradeStatus(trade) = "success" => MoneyReceived
      /\ TradeStatus(trade) = "failed" => trade = "CLOSED"
  BY HoldsPayment, FinalTrade DEF Notified
<1>2. pmt \in PaymentRow /\ pmt.status = TradeStatus(trade)
  BY <1>1, NowIsNat DEF PaymentRow, PaymentStatus
<1>3. /\ GotoWith(p, "notified", pmt)
      /\ UNCHANGED <<channels, payment, tradeVars, creditVars, events, aged, order, completed>>
  BY DEF Notified
<1> HIDE DEF pmt
<1>4. "notified" \in Labels \ {"createPayment"}
  BY DEF Labels
<1>5. pc'[p] = "notified" /\ loc'[p].status = TradeStatus(trade)
  BY <1>2, <1>3, <1>4, Going
<1>6. trade' = trade /\ channels' = channels /\ CreditStates' = CreditStates
  BY <1>3 DEF tradeVars, creditVars, CreditStates
<1>7. Standing(p)'
  BY <1>1, <1>5, <1>6 DEF Standing
<1>8. MoneyReceived => MoneyReceived'
  BY <1>6 DEF MoneyReceived
<1> QED
  BY <1>1, <1>2, <1>3, <1>4, <1>7, <1>8, Turning

LEMMA SyncWechatInfoMoves ==
    ASSUME TradeInv, SyncWechatInfo, UNCHANGED <<order, completed>>
    PROVE  Move(SyncJob)
<1> DEFINE held0 == loc[SyncJob]
           pmt == [held0 EXCEPT !.status = TradeStatus(trade),
                                !.paidAt = IF TradeStatus(trade) = "success" THEN Now ELSE 0]
<1>1. SyncJob \in Procs
  BY DEF Procs
<1>2. payment # NoRow /\ held0 \in PaymentRow
  BY <1>1, HoldsPayment DEF SyncWechatInfo
<1>3. UNCHANGED <<channels, payment, tradeVars, creditVars, events, aged, order, completed>>
  BY DEF SyncWechatInfo
<1>4. \/ \E label \in Plain : Goto(SyncJob, label)
      \/ trade \in {"SUCCESS", "CLOSED"} /\ GotoWith(SyncJob, "syncUpdate", pmt)
  BY DEF SyncWechatInfo, Fail, Plain, CloseTimeoutPayment
<1>5. CASE \E label \in Plain : Goto(SyncJob, label)
  BY <1>1, <1>2, <1>3, <1>5, Continuing
<1>6. CASE trade \in {"SUCCESS", "CLOSED"} /\ GotoWith(SyncJob, "syncUpdate", pmt)
  <2>1. /\ TradeStatus(trade) \in {"success", "failed"}
        /\ TradeStatus(trade) = "success" => MoneyReceived
        /\ TradeStatus(trade) = "failed" => trade = "CLOSED"
    BY <1>6, FinalTrade
  <2>2. pmt \in PaymentRow /\ pmt.status = TradeStatus(trade)
    BY <1>2, <2>1, NowIsNat DEF PaymentRow, PaymentStatus
  <2> HIDE DEF pmt, held0
  <2>3. "syncUpdate" \in Labels \ {"createPayment"}
    BY DEF Labels
  <2>4. pc'[SyncJob] = "syncUpdate" /\ loc'[SyncJob].status = TradeStatus(trade)
    BY <1>1, <1>6, <2>2, <2>3, Going
  <2>5. trade' = trade /\ channels' = channels /\ CreditStates' = CreditStates
    BY <1>3 DEF tradeVars, creditVars, CreditStates
  <2>6. Standing(SyncJob)'
    BY <2>1, <2>4, <2>5 DEF Standing
  <2>7. MoneyReceived => MoneyReceived'
    BY <2>5 DEF MoneyReceived
  <2> QED
    BY <1>1, <1>2, <1>3, <1>6, <2>1, <2>2, <2>3, <2>6, <2>7, Turning
<1> QED
  BY <1>4, <1>5, <1>6

LEMMA SyncFindMoves ==
    ASSUME TradeInv, SyncFound \/ SyncFindFailed, UNCHANGED <<order, completed>>
    PROVE  Move(SyncJob)
<1>1. SyncJob \in Procs /\ pc[SyncJob] \in {"findMain", "findRecords"}
  BY DEF Procs, SyncFound, SyncFindFailed
<1>2. payment # NoRow
  BY <1>1, HoldsPayment
<1>3. UNCHANGED <<channels, payment, tradeVars, creditVars, events, aged, order, completed>>
  BY DEF SyncFound, SyncFindFailed
<1>4. \/ Goto(SyncJob, "closeMain")
      \/ \E label \in Plain : GotoWith(SyncJob, label, Found(SyncJob))
  BY DEF SyncFound, SyncFindFailed, Fail, CloseTimeoutPayment, Plain
<1>5. CASE Goto(SyncJob, "closeMain")
  <2>1. "closeMain" \in Plain
    BY DEF Plain
  <2> QED
    BY <1>1, <1>2, <1>3, <1>5, <2>1, Continuing
<1>6. ASSUME NEW label \in Plain, GotoWith(SyncJob, label, Found(SyncJob))
      PROVE  Move(SyncJob)
  <2>1. label \in Labels \ {"createPayment"}
    BY DEF Plain, Labels
  <2>2. Found(SyncJob) \in PaymentRow /\ (Found(SyncJob).status = "success" => Believed)
    BY <1>1, FoundType
  <2>3. Standing(SyncJob)'
    BY <1>1, <1>6, <2>1, <2>2, Going, PlainStanding
  <2> QED
    BY <1>1, <1>2, <1>3, <1>6, <2>1, <2>2, <2>3, Turning
<1> QED
  BY <1>4, <1>5, <1>6

\* A job finds a payment that is there, and a repaid order has one.
LEMMA StartsMove ==
    ASSUME TradeInv, NEW p \in Procs,
           \/ FindTimeoutPayments /\ p = SyncJob /\ UNCHANGED orderVars
           \/ FindTimeoutOrders /\ p = ReconJob
           \/ RepayOrder(p)
    PROVE  Move(p)
<1>1. Goto(p, "find") /\ "find" \in Plain
  BY DEF FindTimeoutPayments, FindTimeoutOrders, RepayOrder, Plain
<1>2. payment # NoRow
  BY DEF FindTimeoutPayments, FindTimeoutOrders, RepayOrder, TradeInv, BeforePayment
<1>3. UNCHANGED <<channels, payment, tradeVars, creditVars, events, aged, order, completed>>
  BY DEF FindTimeoutPayments, FindTimeoutOrders, RepayOrder, orderVars
<1> QED
  BY <1>1, <1>2, <1>3, Continuing

LEMMA ReconcileMoves ==
    ASSUME TradeInv, Reconcile
    PROVE  Move(ReconJob)
<1>1. ReconJob \in Procs /\ pc[ReconJob] \in {"findMain", "findRecords"}
  BY DEF Procs, Reconcile
<1>2. payment # NoRow
  BY <1>1, HoldsPayment
<1>3. UNCHANGED <<channels, payment, tradeVars, creditVars, events, aged, order, completed>>
  BY DEF Reconcile, orderVars
<1>4. \/ Goto(ReconJob, "idle")
      \/ \E label \in Plain : GotoWith(ReconJob, label, Found(ReconJob))
  BY CallbackIsPlain DEF Reconcile, Plain
<1>5. CASE Goto(ReconJob, "idle")
  <2>1. "idle" \in Plain
    BY DEF Plain
  <2> QED
    BY <1>1, <1>2, <1>3, <1>5, <2>1, Continuing
<1>6. ASSUME NEW label \in Plain, GotoWith(ReconJob, label, Found(ReconJob))
      PROVE  Move(ReconJob)
  <2>1. label \in Labels \ {"createPayment"}
    BY DEF Plain, Labels
  <2>2. Found(ReconJob) \in PaymentRow /\ (Found(ReconJob).status = "success" => Believed)
    BY <1>1, FoundType
  <2>3. Standing(ReconJob)'
    BY <1>1, <1>6, <2>1, <2>2, Going, PlainStanding
  <2> QED
    BY <1>1, <1>2, <1>3, <1>6, <2>1, <2>2, <2>3, Turning
<1> QED
  BY <1>4, <1>5, <1>6

LEMMA FailUpdateMoves ==
    ASSUME TradeInv, FailUpdate, UNCHANGED <<order, completed>>
    PROVE  Move(ReconJob)
<1> DEFINE pmt == [loc[ReconJob] EXCEPT !.status = "failed", !.creditStatus = "failed"]
<1>1. ReconJob \in Procs /\ pc[ReconJob] = "failUpdate"
  BY DEF Procs, FailUpdate
<1>2. /\ payment # NoRow /\ payment \in PaymentRow /\ (payment.status = "success" => Believed)
      /\ loc[ReconJob] \in PaymentRow /\ (loc[ReconJob].status = "success" => Believed)
  BY <1>1, HoldsPayment
<1>3. pmt \in PaymentRow /\ pmt.status = "failed"
  BY <1>2 DEF PaymentRow, PaymentStatus
<1>4. /\ payment' \in {payment, AllWritten(pmt)}
      /\ \/ \E label \in Plain : GotoWith(ReconJob, label, pmt)
         \/ GotoWith(ReconJob, "idle", loc[ReconJob])
      /\ UNCHANGED <<channels, tradeVars, creditVars, events, aged, order, completed>>
  BY CallbackIsPlain DEF FailUpdate, Fail, Goto
<1> HIDE DEF pmt
<1>5. payment' \in PaymentRow /\ (payment'.status = "success" => Believed)
  BY <1>2, <1>3, <1>4, RowsWritten
<1>6. PICK label \in Plain, held0 \in PaymentRow :
         GotoWith(ReconJob, label, held0) /\ (held0.status = "success" => Believed)
  BY <1>2, <1>3, <1>4 DEF Plain
<1>7. label \in Labels \ {"createPayment"}
  BY DEF Plain, Labels
<1>8. Standing(ReconJob)'
  BY <1>1, <1>6, <1>7, Going, PlainStanding
<1>9. /\ channels' = channels /\ trade' = trade /\ coded' = coded
      /\ events' = events /\ aged' = aged /\ order' = order /\ completed' = completed
      /\ UNCHANGED creditVars
  BY <1>4 DEF tradeVars
<1>10. CreditKept /\ CreditStates' = CreditStates
  BY <1>9, CreditMoves
<1>11. /\ coded \in BOOLEAN /\ trade \in TradeState /\ events \in [{"success", "failed"} -> Nat]
       /\ events["success"] > 0 => Believed
  BY DEF TradeInv, Typed, TypeOK, Believed
<1> QED
  BY <1>1, <1>2, <1>5, <1>6, <1>7, <1>8, <1>9, <1>10, <1>11, Acting

\* The order follows what the job holds, or the payment that was made.
LEMMA OrderMoves ==
    ASSUME TradeInv, NEW p \in Procs,
           \/ ReconSetOrder /\ p = ReconJob
           \/ LinkPayment(p)
    PROVE  Move(p)
<1>1. /\ payment # NoRow /\ payment \in PaymentRow /\ (payment.status = "success" => Believed)
      /\ loc[p] \in PaymentRow /\ (loc[p].status = "success" => Believed)
  BY HoldsPayment DEF ReconSetOrder, LinkPayment
<1>2. \/ order' = order
      \/ order' \in OrderStatus \ {"none"} /\ (order' = "success" => Believed)
  BY <1>1 DEF ReconSetOrder, LinkPayment, SetOrderStatus, Linked, OrderStatus, Terminal
<1>3. /\ channels' = channels /\ payment' = payment /\ trade' = trade /\ coded' = coded
      /\ events' = events /\ aged' = aged /\ completed' = completed /\ UNCHANGED creditVars
  BY DEF ReconSetOrder, LinkPayment, tradeVars
<1>4. PICK label \in Plain : GotoWith(p, label, loc[p])
  BY CallbackIsPlain DEF ReconSetOrder, LinkPayment, Fail, Goto, Plain
<1>5. label \in Labels \ {"createPayment"}
  BY DEF Plain, Labels
<1>6. Standing(p)'
  BY <1>1, <1>4, <1>5, Going, PlainStanding
<1>7. CreditKept /\ CreditStates' = CreditStates
  BY <1>3, CreditMoves
<1>8. /\ coded \in BOOLEAN /\ trade \in TradeState /\ events \in [{"success", "failed"} -> Nat]
      /\ events["success"] > 0 => Believed
  BY DEF TradeInv, Typed, TypeOK, Believed
<1> QED
  BY <1>1, <1>2, <1>3, <1>4, <1>5, <1>6, <1>7, <1>8, Acting

-----------------------------------------------------------------------------
(***************************************************************************)
(* The other steps.                                                        *)
(***************************************************************************)
\* A step before the payment exists.
LEMMA EarlyKeeps ==
    ASSUME TradeInv, payment = NoRow, NEW p \in Procs, NEW label \in {"idle", "createPayment"},
           Goto(p, label),
           label = "createPayment" => order = "none",
           order' \in OrderStatus \ {"processing", "success"},
           order' = "none" => order = "none" /\ label = "idle",
           UNCHANGED <<channels, payment, tradeVars, creditVars, events, aged, completed>>
    PROVE  TradeInv'
<1>1. /\ channels' = channels /\ payment' = payment /\ trade' = trade /\ coded' = coded
      /\ events' = events /\ aged' = aged /\ completed' = completed
      /\ UNCHANGED creditVars
  BY DEF tradeVars
<1>2. entry' = entry /\ CreditStates' = CreditStates
  BY <1>1 DEF creditVars, CreditStates
<1>3. pc \in [Procs -> Labels] /\ loc \in [Procs -> PaymentRow] /\ loc[p] \in PaymentRow
  BY DEF TradeInv, Typed, TypeOK
<1>4. label \in Labels /\ GotoWith(p, label, loc[p])
  BY DEF Labels, Goto
<1>5. /\ pc' = [pc EXCEPT ![p] = label]
      /\ loc' = [loc EXCEPT ![p] = loc'[p]] /\ loc'[p] \in PaymentRow
  BY <1>3, <1>4, Going
<1>6. loc'[p].status = "unpaid"
  <2>1. loc[p].status = "unpaid"
    BY DEF TradeInv, BeforePayment
  <2>2. loc'[p] = Kept(p, label, loc[p])
    BY <1>3, <1>4 DEF GotoWith
  <2> QED
    BY <2>1, <2>2 DEF Kept, NewPayment
<1>7. Typed'
  BY <1>1, <1>2, <1>3, <1>4, <1>5 DEF TradeInv, Typed, TypeOK
<1>8. \A q \in Procs : pc'[q] \in {"idle", "createPayment"} /\ loc'[q].status = "unpaid"
  BY <1>3, <1>5, <1>6 DEF TradeInv, BeforePayment
<1>9. \A q, r \in Procs : pc'[q] = "createPayment" /\ pc'[r] = "createPayment" => q = r
  BY <1>3, <1>5 DEF TradeInv, BeforePayment
<1>10. order' = "none" => \A q \in Procs : pc'[q] # "createPayment"
  BY <1>3, <1>5 DEF TradeInv, BeforePayment
<1>11. BeforePayment'
  BY <1>1, <1>2, <1>8, <1>9, <1>10 DEF TradeInv, BeforePayment
<1>12. \A q \in Procs : Standing(q)'
  BY <1>8 DEF Standing
<1>13. ~Believed' /\ events'["failed"] = 0
  BY <1>1, <1>8 DEF Believed, TradeInv, BeforePayment
<1>14. CreditsSpentOnlyIfPaid'
  BY <1>1 DEF CreditsSpentOnlyIfPaid, TradeInv, BeforePayment
<1> QED
  BY <1>7, <1>11, <1>12, <1>13, <1>14 DEF TradeInv

\* A process that dies.
LEMMA CrashKeeps ==
    ASSUME TradeInv, NEW p \in Procs, Crash(p), UNCHANGED <<orderVars, notices>>
    PROVE  TradeInv'
<1>1. Goto(p, "idle") /\ "idle" \in Plain
  BY DEF Crash, Fail, Plain
<1>2. UNCHANGED <<channels, payment, tradeVars, creditVars, events, aged, order, completed>>
  BY DEF Crash, orderVars
<1>3. CASE payment # NoRow
  BY <1>1, <1>2, <1>3, Continuing, MoveKeeps
<1>4. CASE payment = NoRow
  <2>1. order' = order /\ order \in OrderStatus \ {"processing", "success"}
    BY <1>2, <1>4 DEF TradeInv, Typed, TypeOK, BeforePayment
  <2> QED
    BY <1>1, <1>2, <1>4, <2>1, EarlyKeeps
<1> QED
  BY <1>3, <1>4

LEMMA CreateOrderKeeps ==
    ASSUME TradeInv, NEW p \in Procs, CreateOrder(p)
    PROVE  TradeInv'
<1>1. payment = NoRow /\ order = "none" /\ order \in OrderStatus
  BY DEF CreateOrder, TradeInv, Typed, TypeOK, BeforePayment
<1>2. UNCHANGED <<channels, payment, tradeVars, creditVars, events, aged, completed>>
  BY DEF CreateOrder
<1>3. \/ order' = "init" /\ Goto(p, "createPayment")
      \/ order' \in {"none", "init"} /\ Goto(p, "idle")
  BY DEF CreateOrder, Fail
<1>4. "init" \in OrderStatus /\ "none" \in OrderStatus
  BY DEF OrderStatus
<1>5. CASE order' = "init" /\ Goto(p, "createPayment")
  BY <1>1, <1>2, <1>4, <1>5, EarlyKeeps
<1>6. CASE order' \in {"none", "init"} /\ Goto(p, "idle")
  BY <1>1, <1>2, <1>4, <1>6, EarlyKeeps
<1> QED
  BY <1>3, <1>5, <1>6

LEMMA CreatePaymentKeeps ==
    ASSUME TradeInv, NEW p \in Procs, CreatePayment(p)
    PROVE  TradeInv'
<1>1. payment = NoRow /\ order # "none" /\ pc[p] = "createPayment"
  BY DEF CreatePayment, TradeInv, BeforePayment
<1>2. order' = order /\ order \in OrderStatus \ {"processing", "success"}
  BY <1>1 DEF CreatePayment, orderVars, TradeInv, Typed, TypeOK, BeforePayment
<1>3. /\ UNCHANGED <<tradeVars, creditVars, events, aged, completed>>
      /\ trade' = trade /\ coded' = coded /\ events' = events /\ aged' = aged
      /\ completed' = completed /\ entry' = entry /\ CreditStates' = CreditStates
  BY DEF CreatePayment, orderVars, tradeVars, creditVars, CreditStates
<1>4. CASE UNCHANGED <<channels, payment>> /\ Goto(p, "idle")
  BY <1>1, <1>2, <1>3, <1>4, EarlyKeeps
<1>5. ASSUME channels' \in (SUBSET {"credit", "wechat"}) \ {{}}, payment' = NewPayment,
             NEW label \in {"link", "idle"}, Goto(p, label)
      PROVE  TradeInv'
  <2>1. pc \in [Procs -> Labels] /\ loc \in [Procs -> PaymentRow] /\ loc[p] \in PaymentRow
    BY DEF TradeInv, Typed, TypeOK
  <2>2. label \in Labels /\ GotoWith(p, label, loc[p])
    BY <1>5 DEF Labels, Goto
  <2>3. /\ pc' = [pc EXCEPT ![p] = label]
        /\ loc' = [loc EXCEPT ![p] = loc'[p]] /\ loc'[p] \in PaymentRow
    BY <2>1, <2>2, Going
  <2>4. loc'[p].status = "unpaid"
    <3>1. loc[p].status = "unpaid"
      BY <1>1 DEF TradeInv, BeforePayment
    <3>2. loc'[p] = Kept(p, label, loc[p])
      BY <2>1, <2>2 DEF GotoWith
    <3> QED
      BY <3>1, <3>2 DEF Kept, NewPayment
  <2>5. payment' \in PaymentRow /\ payment'.status = "unpaid" /\ payment' # NoRow
    <3>1. NewPayment \in PaymentRow /\ NewPayment.status = "unpaid"
      BY DEF NewPayment, PaymentRow, PaymentStatus
    <3>2. NoRow \notin PaymentRow
      BY TradeAssumption
    <3> QED
      BY <1>5, <3>1, <3>2
  <2>6. Typed'
    BY <1>2, <1>3, <1>5, <2>1, <2>2, <2>3, <2>5 DEF TradeInv, Typed, TypeOK
  <2>7. \A q \in Procs : pc'[q] \in {"idle", "link"} /\ loc'[q].status = "unpaid"
    BY <1>1, <2>1, <2>3, <2>4 DEF TradeInv, BeforePayment
  <2>8. trade = "none"
    BY <1>1 DEF TradeInv, BeforePayment
  <2>9. BeforePayment'
    <3>1. order' # "none" /\ payment' # NoRow /\ channels' # {} /\ trade' = "none"
      BY <1>1, <1>2, <1>3, <1>5, <2>5, <2>8
    <3>2. \A q \in Procs : pc'[q] # "createPayment"
      BY <2>7
    <3> QED
      BY <3>1, <3>2 DEF BeforePayment
  <2>10. \A q \in Procs : Standing(q)'
    BY <2>7 DEF Standing
  <2>11. ~Believed' /\ events'["failed"] = 0
    BY <1>1, <1>2, <1>3, <2>5, <2>7 DEF Believed, TradeInv, BeforePayment
  <2>12. CreditsSpentOnlyIfPaid'
    BY <1>1, <1>3 DEF CreditsSpentOnlyIfPaid, TradeInv, BeforePayment
  <2> QED
    BY <2>6, <2>9, <2>10, <2>11, <2>12 DEF TradeInv
<1> QED
  BY <1>4, <1>5 DEF CreatePayment, Fail

\* Every step of a goroutine on the payment, whoever calls it.
LEMMA PaymentStepMoves ==
    ASSUME TradeInv, NEW p \in Procs, PaymentStep(p), UNCHANGED <<order, completed>>
    PROVE  Move(p)
<1> QED
  BY FindMoves, ExecutePaymentMoves, DeductMoves, ConfirmMoves, PaidMoves, CancelsMove, PrepayMoves,
     ProcessingMoves, CallbackUpdateMoves, SettleMoves, RecordMoves DEF PaymentStep

LEMMA JobStepMoves ==
    ASSUME TradeInv, SyncStep \/ SetPaymentStatusPaidFailed, UNCHANGED <<order, completed>>
    PROVE  \E p \in Procs : Move(p)
<1> QED
  BY SyncFindMoves, SyncWechatInfoMoves, SyncUpdateMoves, CancelsMove, CloseMoves, FailUpdateMoves
     DEF SyncStep, SetPaymentStatusPaidFailed, Procs

\* A step of nobody's goroutine: of time, of WeChat, of a job on the orders or
\* on the credits, or of the consumer of payment_events.
LEMMA OutsideKeeps ==
    ASSUME TradeInv, UNCHANGED <<channels, payment, coded, pc, loc>>,
           trade' \in TradeState, trade' # trade => trade = "NOTPAY",
           events' \in [{"success", "failed"} -> Nat],
           events'["success"] > 0 => Believed,
           events'["failed"] > 0 => events["failed"] > 0,
           aged' \subseteq {"order", "payment", "credit"},
           "payment" \in aged' => payment # NoRow,
           order' \in OrderStatus, completed' \in BOOLEAN,
           order = "none" => order' = "none" \/ Believed,
           order' \in {"none", "processing"} => order' = order,
           order' = "success" \/ completed' => Believed,
           CreditKept, CreditStates' = "Active" => CreditStates = "Active",
           CreditStates = "None" => CreditStates' = "None"
    PROVE  TradeInv'
<1>1. /\ channels' = channels /\ payment' = payment /\ coded' = coded
      /\ pc' = pc /\ loc' = loc
  OBVIOUS
<1>2. Typed'
  BY <1>1 DEF TradeInv, Typed, TypeOK, CreditKept
<1>3. payment = NoRow => ~Believed
  BY DEF TradeInv, BeforePayment, Believed
<1>4. BeforePayment'
  BY <1>1, <1>3 DEF TradeInv, BeforePayment
<1>5. \A q \in Procs : Standing(q)'
  BY <1>1 DEF TradeInv, Standing
<1>6. Believed' => Believed
  BY <1>1 DEF Believed
<1>7. MoneyReceived => MoneyReceived'
  BY <1>1 DEF MoneyReceived, CreditKept
<1>8. events'["failed"] > 0 => trade' = "CLOSED"
  BY DEF TradeInv
<1>9. CreditsSpentOnlyIfPaid'
  BY <1>1 DEF TradeInv, CreditsSpentOnlyIfPaid
<1> QED
  BY <1>2, <1>4, <1>5, <1>6, <1>7, <1>8, <1>9 DEF TradeInv

\* What a step leaves alone.
LEMMA Unmoved ==
    ASSUME TradeInv
    PROVE  /\ trade \in TradeState /\ coded \in BOOLEAN
           /\ events \in [{"success", "failed"} -> Nat]
           /\ events["success"] > 0 => Believed
           /\ aged \subseteq {"order", "payment", "credit"}
           /\ "payment" \in aged => payment # NoRow
           /\ order \in OrderStatus /\ completed \in BOOLEAN
           /\ order = "success" \/ completed => Believed
           /\ UNCHANGED creditVars => CreditKept /\ CreditStates' = CreditStates
<1> QED
  BY CreditMoves DEF TradeInv, Typed, TypeOK, BeforePayment, Believed

LEMMA OutsideSteps ==
    ASSUME TradeInv,
           \/ \E h \in Handlers : CancelOrder(h)
           \/ CloseTimeoutOrders
           \/ Consume
           \/ ReleaseTimeoutCredits
           \/ Wechat /\ UNCHANGED <<orderVars, notices>>
           \/ Age
    PROVE  TradeInv'
<1>1. CASE (\E h \in Handlers : CancelOrder(h)) \/ CloseTimeoutOrders
  <2>1. /\ UNCHANGED <<channels, payment, coded, pc, loc>> /\ UNCHANGED creditVars
        /\ trade' = trade /\ events' = events /\ aged' = aged /\ completed' = completed
    BY <1>1 DEF CancelOrder, CloseTimeoutOrders, paymentVars, tradeVars, creditVars
  <2>2. order' \in {"canceled", "closed"} /\ order # "none"
    BY <1>1 DEF CancelOrder, CloseTimeoutOrders
  <2>3. order' \in OrderStatus
    BY <2>2 DEF OrderStatus, Terminal
  <2> QED
    BY <2>1, <2>2, <2>3, Unmoved, OutsideKeeps
<1>2. CASE Consume
  <2>1. PICK s \in DOMAIN events :
          /\ events[s] > 0
          /\ events' = [events EXCEPT ![s] = @ - 1]
          /\ order' \in {order, s}
          /\ completed' \in {completed, completed \/ s = "success"}
          /\ UNCHANGED <<channels, payment, tradeVars, creditVars, aged, pc, loc>>
    BY <1>2 DEF Consume, SetOrderStatus
  <2>2. events \in [{"success", "failed"} -> Nat] /\ s \in {"success", "failed"}
    BY <2>1, Unmoved
  <2>3. /\ events' \in [{"success", "failed"} -> Nat]
        /\ events'["success"] > 0 => events["success"] > 0
        /\ events'["failed"] > 0 => events["failed"] > 0
    BY <2>1, <2>2
  <2>4. s = "success" => Believed
    BY <2>1, Unmoved
  <2>5. payment # NoRow /\ order # "none"
    BY <2>1, <2>2 DEF TradeInv, BeforePayment
  <2>6. order' \in OrderStatus /\ completed' \in BOOLEAN
    BY <2>1, <2>2, Unmoved DEF OrderStatus, Terminal
  <2>7. /\ UNCHANGED <<channels, payment, coded, pc, loc>> /\ UNCHANGED creditVars
        /\ trade' = trade /\ aged' = aged
    BY <2>1 DEF tradeVars
  <2>8. /\ order' \in {"none", "processing"} => order' = order
        /\ order' = "success" \/ completed' => Believed
    BY <2>1, <2>2, <2>4, Unmoved
  <2> QED
    BY <2>3, <2>5, <2>6, <2>7, <2>8, Unmoved, OutsideKeeps
<1>3. CASE ReleaseTimeoutCredits
  <2>1. /\ UNCHANGED <<channels, payment, coded, pc, loc>>
        /\ trade' = trade /\ events' = events /\ aged' = aged
        /\ order' = order /\ completed' = completed
    BY <1>3 DEF ReleaseTimeoutCredits, orderVars, tradeVars
  <2>2. Ledger!Release(SN) /\ CreditStates = "Locked"
    BY <1>3 DEF ReleaseTimeoutCredits, Ledger!Release, CreditStates
  <2>3. CancelDeductCredits
    BY <2>2 DEF CancelDeductCredits
  <2>4. CreditKept /\ (CreditStates' = "Active" => CreditStates = "Active")
    BY <2>3, CreditMoves
  <2> QED
    BY <2>1, <2>2, <2>4, Unmoved, OutsideKeeps
<1>4. CASE Wechat /\ UNCHANGED <<orderVars, notices>>
  <2>1. /\ UNCHANGED <<channels, payment, coded, pc, loc>> /\ UNCHANGED creditVars
        /\ events' = events /\ aged' = aged /\ order' = order /\ completed' = completed
    BY <1>4 DEF Wechat, orderVars
  <2>2. trade = "NOTPAY" /\ trade' \in TradeState
    BY <1>4 DEF Wechat, TradeState
  <2> QED
    BY <2>1, <2>2, Unmoved, OutsideKeeps
<1>5. CASE Age
  <2>1. /\ UNCHANGED <<channels, payment, coded, pc, loc>> /\ UNCHANGED creditVars
        /\ trade' = trade /\ events' = events /\ order' = order /\ completed' = completed
    BY <1>5 DEF Age, orderVars, tradeVars
  <2>2. aged' \subseteq {"order", "payment", "credit"} /\ ("payment" \in aged' => payment # NoRow)
    BY <1>5, TradeAssumption DEF Age
  <2> QED
    BY <2>1, <2>2, Unmoved, OutsideKeeps
<1> QED
  BY <1>1, <1>2, <1>3, <1>4, <1>5

LEMMA StutterKeeps ==
    ASSUME TradeInv, UNCHANGED vars
    PROVE  TradeInv'
<1>1. /\ UNCHANGED <<channels, payment, coded, pc, loc>> /\ UNCHANGED creditVars
      /\ trade' = trade /\ events' = events /\ aged' = aged
      /\ order' = order /\ completed' = completed
  BY DEF vars, paymentVars, orderVars, tradeVars
<1> QED
  BY <1>1, Unmoved, OutsideKeeps

-----------------------------------------------------------------------------
(***************************************************************************)
(* The invariant, and what it says.                                        *)
(***************************************************************************)
LEMMA TradeInit ==
    ASSUME Init
    PROVE  TradeInv
<1>1. /\ channels = {} /\ payment = NoRow /\ trade = "none" /\ coded = FALSE
      /\ entry = [k \in {SN} |-> NoRow] /\ events = [s \in {"success", "failed"} |-> 0]
      /\ aged = {} /\ pc = [p \in Procs |-> "idle"] /\ loc = [p \in Procs |-> NewPayment]
      /\ order = "none" /\ completed = FALSE
  BY DEF Init, PaymentInit, OrderInit
<1>2. NewPayment \in PaymentRow /\ NewPayment.status = "unpaid"
  BY DEF NewPayment, PaymentRow, PaymentStatus
<1>3. CreditStates = "None"
  BY <1>1 DEF CreditStates
<1>4. Typed
  BY <1>1, <1>2 DEF Typed, TypeOK, Labels, OrderStatus, TradeState
<1>5. \A p \in Procs : pc[p] = "idle" /\ loc[p].status = "unpaid"
  BY <1>1, <1>2
<1>6. BeforePayment
  BY <1>1, <1>3, <1>5 DEF BeforePayment
<1>7. \A p \in Procs : Standing(p)
  BY <1>5 DEF Standing
<1>8. ~Believed /\ events["failed"] = 0
  BY <1>1, <1>5 DEF Believed
<1>9. CreditsSpentOnlyIfPaid
  BY <1>3 DEF CreditsSpentOnlyIfPaid
<1> QED
  BY <1>4, <1>6, <1>7, <1>8, <1>9 DEF TradeInv

LEMMA TradeNext ==
    ASSUME TradeInv, [Next]_vars
    PROVE  TradeInv'
<1>1. ASSUME NEW h \in Handlers,
             \/ CreateOrder(h) \/ CreatePayment(h)
             \/ RepayOrder(h) \/ LinkPayment(h)
             \/ HandleWechatCallback(h)
             \/ PaymentStep(h) /\ UNCHANGED orderVars
      PROVE  TradeInv'
  <2>1. h \in Procs
    BY DEF Procs
  <2>2. HandleWechatCallback(h) => Notified(h) /\ UNCHANGED <<order, completed>>
    BY DEF HandleWechatCallback, orderVars
  <2>3. UNCHANGED orderVars => UNCHANGED <<order, completed>>
    BY DEF orderVars
  <2> QED
    BY <1>1, <2>1, <2>2, <2>3, CreateOrderKeeps, CreatePaymentKeeps, StartsMove, OrderMoves,
       NotifiedMoves, PaymentStepMoves, MoveKeeps
<1>2. ASSUME SyncWechatOrderJob \/ SyncPaymentAndOrderJob
      PROVE  TradeInv'
  <2>1. SyncJob \in Procs /\ ReconJob \in Procs
    BY DEF Procs
  <2>2. UNCHANGED <<orderVars, notices>> => UNCHANGED orderVars /\ UNCHANGED <<order, completed>>
    BY DEF orderVars
  <2>3. CASE \/ FindTimeoutPayments /\ UNCHANGED orderVars
             \/ FindTimeoutOrders
             \/ Reconcile \/ ReconSetOrder
    BY <2>1, <2>3, StartsMove, ReconcileMoves, OrderMoves, MoveKeeps
  <2>4. CASE (PaymentStep(SyncJob) \/ PaymentStep(ReconJob)) /\ UNCHANGED <<order, completed>>
    BY <2>1, <2>4, PaymentStepMoves, MoveKeeps
  <2>5. CASE (SyncStep \/ SetPaymentStatusPaidFailed) /\ UNCHANGED <<order, completed>>
    BY <2>5, JobStepMoves, MoveKeeps
  <2> QED
    BY <1>2, <2>2, <2>3, <2>4, <2>5 DEF SyncWechatOrderJob, SyncPaymentAndOrderJob, ReconStep
<1>3. ASSUME \/ \E h \in Handlers : CancelOrder(h)
             \/ CloseTimeoutOrders \/ Consume \/ ReleaseTimeoutCredits
             \/ Wechat /\ UNCHANGED <<orderVars, notices>>
             \/ Age
      PROVE  TradeInv'
  BY <1>3, OutsideSteps
<1>4. ASSUME \E p \in Procs : Crash(p) /\ UNCHANGED <<orderVars, notices>>
      PROVE  TradeInv'
  BY <1>4, CrashKeeps
<1>5. CASE Next
  BY <1>1, <1>2, <1>3, <1>4, <1>5 DEF Next, HandlerStep, OrderStep
<1>6. CASE UNCHANGED vars
  BY <1>6, StutterKeeps
<1> QED
  BY <1>5, <1>6

\* At every moment the goroutines, the queue and the rows tell the truth about
\* the money, in the sense of TradeInv.
THEOREM TradeInvariant == Spec => []TradeInv
<1>1. Init => TradeInv
  BY TradeInit
<1>2. TradeInv /\ [Next]_vars => TradeInv'
  BY TradeNext
<1> QED
  BY <1>1, <1>2, PTL DEF Spec

\* Rows, statuses and what goroutines hold keep their types.
THEOREM TradeTypeCorrect == Spec => []TypeOK
<1>1. TradeInv => TypeOK
  BY DEF TradeInv, Typed
<1> QED
  BY <1>1, TradeInvariant, PTL

\* SucceedOrder, the order_events message and 支付成功 never come before the
\* money: not from executePayment, HandleWechatCallback, SyncWechatInfo or the
\* reconciliation, with whatever stale payment they write.
THEOREM SuccessRequiresMoney == Spec => []SuccessIsPaid
<1>1. TradeInv => SuccessIsPaid
  BY DEF TradeInv, SuccessIsPaid, Believed
<1> QED
  BY <1>1, TradeInvariant, PTL

\* A payment_events message that is still to be consumed tells of money
\* that came in, or of a trade that WeChat will never see paid.
THEOREM EventsTellTheTruth == Spec => []EventsAreTrue
<1>1. TradeInv => EventsAreTrue
  BY DEF TradeInv, EventsAreTrue, Believed
<1> QED
  BY <1>1, TradeInvariant, PTL

\* HandleCreditCallback spends the credits of a payment in credits and money
\* only when WeChat has the money.
THEOREM CreditsNeedTheMoney == Spec => []CreditsSpentOnlyIfPaid
<1>1. TradeInv => CreditsSpentOnlyIfPaid
  BY DEF TradeInv
<1> QED
  BY <1>1, TradeInvariant, PTL

\* Who writes the order's status, and what.
LEMMA OrderWrites ==
    ASSUME TradeInv, [Next]_vars
    PROVE  order' = order \/ order' \in Terminal \/ order \notin Terminal
<1>1. Next => \/ UNCHANGED orderVars \/ order' = order
              \/ CloseTimeoutOrders \/ Consume \/ ReconSetOrder
              \/ \E h \in Handlers : CreateOrder(h) \/ LinkPayment(h) \/ CancelOrder(h)
  BY DEF Next, HandlerStep, OrderStep, CreatePayment, RepayOrder, HandleWechatCallback,
         SyncWechatOrderJob, SyncPaymentAndOrderJob, ReconStep, Reconcile, FindTimeoutOrders,
         ReleaseTimeoutCredits, Age
<1>2. UNCHANGED orderVars \/ UNCHANGED vars => order' = order
  BY DEF orderVars, vars
<1>3. ASSUME \E h \in Handlers : CreateOrder(h) \/ LinkPayment(h) \/ CancelOrder(h)
      PROVE  order' = order \/ order' \in Terminal \/ order \notin Terminal
  BY <1>3 DEF CreateOrder, LinkPayment, Linked, CancelOrder, Terminal
<1>4. ASSUME CloseTimeoutOrders \/ ReconSetOrder
      PROVE  order' \in Terminal \/ order' = order
  BY <1>4 DEF CloseTimeoutOrders, ReconSetOrder, SetOrderStatus, Terminal
<1>5. ASSUME Consume
      PROVE  order' \in Terminal \/ order' = order
  <2>1. \E s \in DOMAIN events : order' \in {order, s}
    BY <1>5 DEF Consume, SetOrderStatus
  <2>2. DOMAIN events = {"success", "failed"}
    BY DEF TradeInv, Typed
  <2> QED
    BY <2>1, <2>2 DEF Terminal
<1> QED
  BY <1>1, <1>2, <1>3, <1>4, <1>5

\* An order that has ended is never open again, for any number of requests,
\* notifications and faults.
THEOREM EndedOrdersStayEnded == Spec => TerminalStays
<1>1. TradeInv /\ [Next]_vars => [(order \in Terminal) => (order' \in Terminal)]_vars
  BY OrderWrites
<1> QED
  BY <1>1, TradeInvariant, PTL DEF Spec, TerminalStays
=============================================================================
