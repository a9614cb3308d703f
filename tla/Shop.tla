-------------------------------- MODULE Shop --------------------------------
(***************************************************************************)
(* What is for sale (internal/product): an SPU and its SKUs, each with an  *)
(* id and a serial number that orders and codes name it by.  An editor     *)
(* saves an SPU with SKUs from a form; readers find them by serial number. *)
(*                                                                         *)
(* Ordering it (internal/order): a buyer is shown a preview and submits    *)
(* it, perhaps twice at once.  The order is made of SKUs as they are then, *)
(* its payment of what the buyer saw; what becomes of one payment is       *)
(* module Trade's matter.                                                  *)
(*                                                                         *)
(* Left out: name, description, categories and images, of which a version  *)
(* stands for all; the status, which every save sets to "on the shelf" and *)
(* no save changes.  The price of a SKU is its version.                    *)
(***************************************************************************)
EXTENDS Integers, Sequences, SequencesExt, FiniteSets

CONSTANTS
    Procs,      \* readers
    MaxSpus,    \* bound: SPUs
    MaxSkus,    \* bound: SKUs
    MaxSaves,   \* bound: calls of SaveProduct
    MaxReads,   \* bound: calls of readers
    Stock,      \* of every SKU
    Asked,      \* what buyers ask for: a sequence of SKUs and how many of each
    MaxBaskets, \* bound: previews
    MaxOrders,  \* bound: orders and calls that make one
    MaxFaults   \* bound: statements that fail

VARIABLES
    spus, skus,    \* tables spus and skus, by id
    serials,       \* serial numbers made
    saves, reads,
    call,
    found,         \* history: rows that readers found, by serial number
    kept,          \* history: the version of each SPU that was last saved
    baskets,       \* previews the buyer was shown; a request's id is the number of one
    orders,        \* table orders with order_items, by id
    payments,      \* table payments, by id, and whether an event is on its way
    faults

productVars == <<spus, skus, serials, saves, reads, found, kept>>
orderVars == <<baskets, orders, payments, faults>>
vars == <<productVars, call, orderVars>>

None == 0
Idle == [op |-> "idle"]

Init ==
    /\ spus = <<>> /\ skus = <<>>
    /\ serials = 0 /\ saves = 0 /\ reads = 0
    /\ call = [p \in Procs |-> Idle]
    /\ found = {}
    /\ kept = <<>>
    /\ baskets = <<>> /\ orders = <<>> /\ payments = <<>>
    /\ faults = 0

-----------------------------------------------------------------------------
(* Forms: what an editor sends.                                            *)

\* A row that is there is named by its id, by its serial number or by both: the
\* list shows both, the detail the serial number alone.
Named(rows, i) ==
    {[id |-> i, sn |-> rows[i].sn], [id |-> i, sn |-> None], [id |-> None, sn |-> rows[i].sn]}
Unnamed == [id |-> None, sn |-> None]

newDomainSPU == {Unnamed} \cup UNION {Named(spus, i) : i \in DOMAIN spus}

\* No SKU, or one that is new or was there.
newDomainSKU == {<<>>, <<Unnamed>>} \cup {<<f>> : f \in UNION {Named(skus, i) : i \in DOMAIN skus}}

-----------------------------------------------------------------------------
(* Saving. *)

\* A serial number of its own for whatever has none.
genSN(form, fresh) == IF form.sn = None THEN [form EXCEPT !.sn = fresh] ELSE form

\* The row a statement meets: that of the id, else that of the serial number,
\* else a new one.
Met(rows, form) ==
    IF form.id \in DOMAIN rows THEN form.id
    ELSE IF \E i \in DOMAIN rows : rows[i].sn = form.sn
         THEN CHOOSE i \in DOMAIN rows : rows[i].sn = form.sn
         ELSE Len(rows) + 1

\* Mutant: the serial number is among the columns an update sets.
AllColumns(old, new) == new

\* An update leaves the serial number, and a SKU's SPU, as they are.
DoUpdates(old, new) == [old EXCEPT !.v = new.v]

Upsert(rows, form, row) ==
    LET i == Met(rows, form)
    IN  IF i \in DOMAIN rows
        THEN [rows EXCEPT ![i] = DoUpdates(@, row)]
        ELSE Append(rows, row)

saveSPU(form, v) == Upsert(spus, form, [sn |-> form.sn, v |-> v])

saveSkus(spuId, forms, v) ==
    Upsert(skus, forms[1], [sn |-> forms[1].sn, spu |-> spuId, v |-> v])

Bounded(form, forms) ==
    /\ Met(spus, form) <= MaxSpus
    /\ forms # <<>> => Met(skus, forms[1]) <= MaxSkus

\* Mutant: not in one transaction.
Apart(whole) == TRUE

\* A statement that inserts nothing is an error.
Transaction(whole) == whole

\* The SPU's row and its SKUs' rows, or neither: without a SKU the save fails.
SaveProduct ==
    /\ saves < MaxSaves
    /\ saves' = saves + 1
    /\ serials' = serials + 2
    /\ \E f \in newDomainSPU, fs \in newDomainSKU :
           LET form == genSN(f, serials + 1)
               forms == [n \in DOMAIN fs |-> genSN(fs[n], serials + 2)]
               i == Met(spus, form)
           IN  /\ Bounded(form, forms)
               /\ spus' = IF Transaction(forms # <<>>) THEN saveSPU(form, saves') ELSE spus
               /\ skus' = IF forms # <<>> THEN saveSkus(i, forms, saves') ELSE skus
               /\ kept' = IF forms = <<>> THEN kept
                          ELSE IF i \in DOMAIN kept THEN [kept EXCEPT ![i] = saves']
                          ELSE Append(kept, saves')
    /\ UNCHANGED <<reads, call, found, orderVars>>

-----------------------------------------------------------------------------
(* Readers: an SPU and then its SKUs, or a SKU and then its SPU. *)

Goto(p, c) == call' = [call EXCEPT ![p] = c]
Return(p) == Goto(p, Idle)
Begin(p) == call[p] = Idle /\ reads < MaxReads /\ reads' = reads + 1

toDomainSKU(i) == [table |-> "sku", id |-> i, sn |-> skus[i].sn]
toDomainSPU(i) == [table |-> "spu", id |-> i, sn |-> spus[i].sn]

FindSPUBySN(p) ==
    /\ Begin(p)
    /\ \E i \in DOMAIN spus :
           /\ found' = found \cup {toDomainSPU(i)}
           /\ Goto(p, [op |-> "skus", id |-> i])
    /\ UNCHANGED <<spus, skus, serials, saves, kept, orderVars>>

FindSKUsBySPUID(p) ==
    /\ call[p].op = "skus"
    /\ found' = found \cup {toDomainSKU(i) : i \in {j \in DOMAIN skus : skus[j].spu = call[p].id}}
    /\ Return(p)
    /\ UNCHANGED <<spus, skus, serials, saves, reads, kept, orderVars>>

\* An order, or a batch of codes, looks for the SKU's SPU.
FindSKUBySN(p) ==
    /\ Begin(p)
    /\ \E i \in DOMAIN skus :
           /\ found' = found \cup {toDomainSKU(i)}
           /\ Goto(p, [op |-> "spu", id |-> skus[i].spu])
    /\ UNCHANGED <<spus, skus, serials, saves, kept, orderVars>>

FindSPUByID(p) ==
    /\ call[p].op = "spu"
    /\ found' = found \cup (IF call[p].id \in DOMAIN spus THEN {toDomainSPU(call[p].id)} ELSE {})
    /\ Return(p)
    /\ UNCHANGED <<spus, skus, serials, saves, reads, kept, orderVars>>

\* The list of SPUs and their number, without SKUs.
FindSPUs(p) ==
    /\ Begin(p)
    /\ found' = found \cup {toDomainSPU(i) : i \in DOMAIN spus}
    /\ UNCHANGED <<spus, skus, serials, saves, call, kept, orderVars>>

-----------------------------------------------------------------------------
(***************************************************************************)
(* Ordering.  A call that fails ends there: what it did stays done.        *)
(***************************************************************************)
OrderStatus == {"init", "processing", "success", "failed", "canceled", "closed"}
PaymentStatus == {"unpaid", "processing", "success", "failed"}

\* A statement fails, whether or not it was carried out.
Fault == faults < MaxFaults /\ faults' = faults + 1
NoFault == faults' = faults

\* Buyers ask for SKUs that are there, by serial numbers.
Wanted == {w \in Asked : \A n \in DOMAIN w : w[n].sku \in DOMAIN skus}

toOrderItem(w) == [sku |-> w.sku, price |-> skus[w.sku].v, quantity |-> w.quantity]

\* Mutant: the quantity is left out of the sum.
PricesOnly(items) == FoldLeft(LAMBDA sum, i : sum + i.price, 0, items)

RealTotalAmt(items) == FoldLeft(LAMBDA sum, i : sum + i.price * i.quantity, 0, items)

\* getDomainOrderItems reads one SKU after the other, each as it is then.
\* The SPU of each, which is read too, gives the item its categories.
getDomainOrderItems(p) ==
    /\ call[p].op = "items"
    /\ Len(call[p].items) < Len(call[p].wanted)
    /\ LET w == call[p].wanted[Len(call[p].items) + 1]
       IN  \/ w.quantity \in 1 .. Stock /\ NoFault
              /\ Goto(p, [call[p] EXCEPT !.items = Append(@, toOrderItem(w))])
           \/ w.quantity \notin 1 .. Stock /\ NoFault /\ Return(p)
           \/ Fault /\ Return(p)
    /\ UNCHANGED <<productVars, baskets, orders, payments>>

AllItems(p) == call[p].op = "items" /\ Len(call[p].items) = Len(call[p].wanted)

\* The items of a preview, and of an order, whose basket is then known.
PreviewOrder(p) ==
    /\ call[p] = Idle /\ Len(baskets) < MaxBaskets
    /\ \E w \in Wanted : Goto(p, [op |-> "items", wanted |-> w, items |-> <<>>, basket |-> None])
    /\ UNCHANGED <<productVars, orderVars>>

Preview(p) ==
    /\ AllItems(p) /\ call[p].basket = None /\ Len(baskets) < MaxBaskets
    /\ baskets' = Append(baskets, [wanted |-> call[p].wanted, amount |-> RealTotalAmt(call[p].items),
                                   cached |-> FALSE, raced |-> FALSE])
    /\ Return(p)
    /\ UNCHANGED <<productVars, orders, payments, faults>>

Creating == {p \in Procs : call[p].op = "request" \/ (call[p].op = "items" /\ call[p].basket # None)}

\* checkRequestID asks the cache for the id, and writes it in another call.
CreateOrder(p) ==
    /\ call[p] = Idle /\ Len(orders) + Cardinality(Creating) < MaxOrders
    /\ \E b \in DOMAIN baskets :
           /\ ~baskets[b].cached
           /\ Goto(p, [op |-> "request", basket |-> b])
           /\ baskets' = [baskets EXCEPT ![b].raced =
                              @ \/ \E q \in Procs : call[q].op = "request" /\ call[q].basket = b]
    /\ UNCHANGED <<productVars, orders, payments, faults>>

\* Mutant: the id is written when the order is there.
NotCached(b) == baskets

Cached(b) == [baskets EXCEPT ![b].cached = TRUE]

checkRequestID(p) ==
    /\ call[p].op = "request"
    /\ LET b == call[p].basket
       IN  \/ /\ baskets' = Cached(b) /\ NoFault
              /\ Goto(p, [op |-> "items", wanted |-> baskets[b].wanted, items |-> <<>>, basket |-> b])
           \/ baskets' \in {baskets, Cached(b)} /\ Fault /\ Return(p)
    /\ UNCHANGED <<productVars, orders, payments>>

\* Mutant: buyers see it at once.
Processing == "processing"

\* The status a new row has by default; buyers do not see it.
StatusInit == "init"

\* The order and its items are one transaction.
SaveOrder(p) ==
    /\ AllItems(p) /\ call[p].basket # None
    /\ LET order == [basket |-> call[p].basket, status |-> StatusInit, items |-> call[p].items,
                     total |-> RealTotalAmt(call[p].items), payment |-> None,
                     early |-> FALSE, seen |-> <<>>]
       IN  \/ /\ orders' = Append(orders, order) /\ NoFault
              /\ Goto(p, [op |-> "pay", order |-> Len(orders')])
           \/ orders' \in {orders, Append(orders, order)} /\ Fault /\ Return(p)
    /\ UNCHANGED <<productVars, baskets, payments>>

\* Mutant: the amounts are not compared.
AnyAmount(o) == TRUE

\* The buyer's amounts, of all channels, are what the preview said.
AmountFits(o) == baskets[orders[o].basket].amount = orders[o].total

createPayment(p) ==
    /\ call[p].op = "pay"
    /\ LET o == call[p].order
           payment == [order |-> o, total |-> orders[o].total, status |-> "unpaid", event |-> FALSE]
       IN  \/ /\ AmountFits(o) /\ NoFault
              /\ payments' = Append(payments, payment)
              /\ Goto(p, [op |-> "link", order |-> o, payment |-> Len(payments')])
           \/ AmountFits(o) /\ payments' = Append(payments, payment) /\ Fault /\ Return(p)
           \/ payments' = payments /\ (IF AmountFits(o) THEN Fault ELSE NoFault) /\ Return(p)
    /\ UNCHANGED <<productVars, baskets, orders>>

\* WHERE status = init; no row is no error.
Linked(o, m) ==
    IF orders[o].status = "init"
    THEN [orders EXCEPT ![o].payment = m, ![o].status = "processing"]
    ELSE orders

UpdateUnpaidOrderPaymentInfo(p) ==
    /\ call[p].op = "link"
    /\ LET o == call[p].order   m == call[p].payment
       IN  \/ orders' = Linked(o, m) /\ NoFault /\ Goto(p, [op |-> "execute", payment |-> m])
           \/ orders' \in {orders, Linked(o, m)} /\ Fault /\ Return(p)
    /\ UNCHANGED <<productVars, baskets, payments>>

processPaymentForOrder(p) ==
    /\ call[p].op = "execute"
    /\ payments' = [payments EXCEPT ![call[p].payment].status = IF @ = "unpaid" THEN "processing" ELSE @]
    /\ Return(p)
    /\ UNCHANGED <<productVars, baskets, orders, faults>>

\* A payment ends (module Trade), also one that nobody executed, and tells so.
PaymentEnds(m) ==
    /\ \E s \in {"success", "failed"} :
           /\ payments[m].status = "processing" \/ (payments[m].status = "unpaid" /\ s = "failed")
           /\ payments' = [payments EXCEPT ![m].status = s, ![m].event = TRUE]
    /\ UNCHANGED <<productVars, call, baskets, orders, faults>>

\* SucceedOrder, FailOrder: by the serial number of the order, whatever its status.
Consume(m) ==
    /\ payments[m].event
    /\ payments' = [payments EXCEPT ![m].event = FALSE]
    /\ LET o == payments[m].order IN
       orders' = [orders EXCEPT ![o].status = payments[m].status,
                                ![o].early = @ \/ orders[o].status = "init"]
    /\ UNCHANGED <<productVars, call, baskets, faults>>

\* WHERE status >= processing.
FindUserVisibleOrders == {o \in DOMAIN orders : orders[o].status # "init"}

RepayOrder(p, o) ==
    /\ call[p] = Idle /\ orders[o].status = "processing"
    /\ Goto(p, [op |-> "execute", payment |-> orders[o].payment])
    /\ UNCHANGED <<productVars, orderVars>>

CancelOrder(o) ==
    /\ orders[o].status = "processing"
    /\ orders' = [orders EXCEPT ![o].status = "canceled"]
    /\ UNCHANGED <<productVars, call, baskets, payments, faults>>

\* CloseTimeoutOrdersJob; what it closes may not have a payment yet.
SetOrdersTimeoutClosed(o) ==
    /\ orders[o].status \in {"init", "processing"}
    /\ orders' = [orders EXCEPT ![o].status = "closed", ![o].early = orders[o].status = "init"]
    /\ UNCHANGED <<productVars, call, baskets, payments, faults>>

\* What a list shows of an order, or the detail, which looks for its payment.
toOrderVO(o) == [total |-> orders[o].total, items |-> orders[o].items, payment |-> orders[o].payment]

ListOrders ==
    /\ orders' = [o \in DOMAIN orders |->
                     IF o \in FindUserVisibleOrders THEN [orders[o] EXCEPT !.seen = <<toOrderVO(o)>>]
                     ELSE orders[o]]
    /\ UNCHANGED <<productVars, call, baskets, payments, faults>>

RetrieveOrderDetail(o) ==
    /\ o \in FindUserVisibleOrders /\ orders[o].payment \in DOMAIN payments
    /\ orders' = [orders EXCEPT ![o].seen = <<toOrderVO(o)>>]
    /\ UNCHANGED <<productVars, call, baskets, payments, faults>>

OrderNext ==
    \/ \E p \in Procs :
           \/ PreviewOrder(p) \/ getDomainOrderItems(p) \/ Preview(p)
           \/ CreateOrder(p) \/ checkRequestID(p) \/ SaveOrder(p) \/ createPayment(p)
           \/ UpdateUnpaidOrderPaymentInfo(p) \/ processPaymentForOrder(p)
           \/ \E o \in DOMAIN orders : RepayOrder(p, o)
    \/ \E m \in DOMAIN payments : PaymentEnds(m) \/ Consume(m)
    \/ \E o \in DOMAIN orders :
           CancelOrder(o) \/ SetOrdersTimeoutClosed(o) \/ RetrieveOrderDetail(o)
    \/ ListOrders

Next ==
    \/ SaveProduct
    \/ \E p \in Procs :
           \/ FindSPUBySN(p) \/ FindSKUsBySPUID(p) \/ FindSKUBySN(p)
           \/ FindSPUByID(p) \/ FindSPUs(p)
    \/ OrderNext

Spec == Init /\ [][Next]_vars

-----------------------------------------------------------------------------
(* Properties. *)

TypeOK ==
    /\ \A i \in DOMAIN spus : spus[i] \in [sn : 1 .. serials, v : 1 .. saves]
    /\ \A i \in DOMAIN skus : skus[i] \in [sn : 1 .. serials, spu : 1 .. MaxSpus, v : 1 .. saves]
    /\ Len(spus) <= MaxSpus /\ Len(skus) <= MaxSkus
    /\ \A o \in DOMAIN orders :
           /\ orders[o].basket \in DOMAIN baskets
           /\ orders[o].status \in OrderStatus
           /\ orders[o].payment \in 0 .. Len(payments)
    /\ \A m \in DOMAIN payments :
           payments[m].order \in DOMAIN orders /\ payments[m].status \in PaymentStatus

\* A row that was found by a serial number keeps it, and it is the only one
\* with it: orders and codes that name it go on doing so, whatever the forms
\* of later edits leave out (repository/dao/product.go:98, 115).
SerialsStay ==
    /\ \A f \in found :
           IF f.table = "spu" THEN spus[f.id].sn = f.sn ELSE skus[f.id].sn = f.sn
    /\ \A i, j \in DOMAIN skus : skus[i].sn = skus[j].sn => i = j
    /\ \A i, j \in DOMAIN spus : spus[i].sn = spus[j].sn => i = j

\* Every SKU has its SPU, and an SPU says what was saved last with a SKU: a
\* save that fails leaves nothing behind.
ProductsAreWhole ==
    /\ \A i \in DOMAIN skus : skus[i].spu \in DOMAIN spus
    /\ DOMAIN kept = DOMAIN spus
    /\ \A i \in DOMAIN spus : spus[i].v = kept[i]

\* Nobody pays another price than the preview showed, though the products may
\* be edited between the two: an order that comes to another total gets no
\* payment (handler.go:278).  What it comes to is the sum of its items.
BuyersPayWhatTheySaw ==
    /\ \A o \in DOMAIN orders :
           orders[o].total = FoldLeft(LAMBDA sum, i : sum + i.price * i.quantity, 0, orders[o].items)
    /\ \A m \in DOMAIN payments :
           payments[m].total = baskets[orders[payments[m].order].basket].amount

\* One request makes one order, unless two submissions asked the cache before
\* either had written to it (handler.go:174 and 180).
OneOrderEach ==
    \A o, n \in DOMAIN orders :
        o # n /\ orders[o].basket = orders[n].basket => baskets[orders[o].basket].raced

\* An order a buyer sees has a payment, the one that was made for it, unless a
\* timeout (of the order, or of the payment) came before the two were linked:
\* then even an order that is paid later goes without, and its detail cannot be
\* shown (handler.go:361).
SeenOrdersHavePayments ==
    \A o \in DOMAIN orders :
        /\ orders[o].payment # None => payments[orders[o].payment].order = o
        /\ orders[o].status # "init" /\ orders[o].payment = None => orders[o].early

\* What a buyer was shown of an order stays, whatever happens to the products.
OrdersStay ==
    \A o \in DOMAIN orders :
        orders[o].seen # <<>> => o \in FindUserVisibleOrders /\ orders[o].seen = <<toOrderVO(o)>>
=============================================================================
