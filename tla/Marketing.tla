----------------------------- MODULE Marketing ------------------------------
(***************************************************************************)
(* The marketing module: what happens after an order is completed, a code  *)
(* is redeemed or a user has registered.  It grants nothing itself.  It    *)
(* sends events to member, permission and credit, whose consumers count a  *)
(* key once (modules Member and Credit) or a permission once (module       *)
(* Permission), and it keeps redemption codes, invitation codes and        *)
(* records of who has redeemed and invited.                                *)
(*                                                                         *)
(* order_events and user_registration_events may arrive more than once and *)
(* are handled at the same time; an event whose handling fails is logged   *)
(* and not handled again.                                                  *)
(***************************************************************************)
EXTENDS Integers, Sequences, FiniteSets, KeySum

CONSTANTS
    Users,        \* uid
    Orders,       \* SN of completed orders, which stand for their ids
    Buyer,        \* Orders -> Users
    Items,        \* Orders -> the sequence of items, newest first
    Batches,      \* (Biz, BizId) of the administrator's requests for codes
    InvitedBy,    \* the newcomers, and the invitation code each registers with, or NoRow
    MaxCodes,     \* bound: redemption codes
    Invitations,  \* invitation codes
    Workers,      \* goroutines: consumers and HTTP handlers
    MaxCalls,     \* bound: messages and requests
    MaxFaults,    \* bound: failed or lost calls
    MaxExpiries,  \* bound: expiries of cached invitation codes
    NoRow         \* the absence of a row

VARIABLES
    codes,       \* RedemptionCode rows by id, or NoRow
    generateLog, \* GenerateLog rows: <<biz, count>>
    redeemLog,   \* the redeemer of each code, or NoRow
    invitation,  \* the owner of each invitation code, or NoRow
    cached,      \* the invitation code in each user's cache entry, or NoRow
    invited,     \* InvitationRecord rows, in the order of their ids
    sent,        \* events sent to member, permission, credit and the robot
    received,    \* those that have been counted
    handled,     \* history: the orders whose event a consumer has taken
    raced,       \* history: the newcomers whose record another's kept out
    pc,          \* what each goroutine does next
    loc,         \* what each goroutine works on
    calls, faults, expiries

Tables == <<codes, generateLog, redeemLog, invitation, invited>>

History == <<handled, raced>>

vars == <<Tables, cached, sent, received, History, pc, loc, calls, faults, expiries>>

Types == {"member", "project", "service", "credit"}

ItemRow == [cat0 : {"product", "code", "other"}, cat1 : Types, attr : Nat, quantity : Nat]

\* The ids of redemption codes.
Codes == 1 .. MaxCodes

Bizs == Orders \cup Batches

\* A redemption code: who owns it (0: the administrator), the order or batch
\* it belongs to, its type, its days or project, and whether it is used.
CodeRow == [owner : Users \cup {0}, biz : Bizs, type : Types, attr : Nat, used : BOOLEAN]

Newcomers == DOMAIN InvitedBy

RecordRow == [inviter : Users, invitee : Newcomers, code : Invitations]

ASSUME MarketingAssumption ==
    /\ IsFiniteSet(Users)
    /\ Buyer \in [Orders -> Users]
    /\ Items \in [Orders -> Seq(ItemRow)]
    /\ Orders \cap Batches = {}
    /\ DOMAIN InvitedBy \subseteq Users
    /\ MaxCodes \in Nat
    /\ NoRow \notin Users /\ NoRow \notin Invitations /\ NoRow \notin CodeRow

MemberEvent(key, u, days) == [topic |-> "member", key |-> key, uid |-> u, n |-> days]
CreditEvent(key, u, amount) == [topic |-> "credit", key |-> key, uid |-> u, n |-> amount]
PermissionEvent(u, ids) == [topic |-> "permission", uid |-> u, ids |-> ids]
RobotEvent(o) == [topic |-> "robot", order |-> o]

Idle == [kind |-> "none"]

Init ==
    /\ codes = [c \in Codes |-> NoRow]
    /\ generateLog = {}
    /\ redeemLog = [c \in Codes |-> NoRow]
    /\ invitation = [i \in Invitations |-> NoRow]
    /\ cached = [u \in Users |-> NoRow]
    /\ invited = <<>>
    /\ sent = {}
    /\ received = {}
    /\ handled = {}
    /\ raced = {}
    /\ pc = [w \in Workers |-> "idle"]
    /\ loc = [w \in Workers |-> Idle]
    /\ calls = 0
    /\ faults = 0
    /\ expiries = 0

-----------------------------------------------------------------------------
(***************************************************************************)
(* Goroutines.                                                             *)
(***************************************************************************)
Start(w, label, l) ==
    /\ pc[w] = "idle"
    /\ calls < MaxCalls
    /\ calls' = calls + 1
    /\ pc' = [pc EXCEPT ![w] = label]
    /\ loc' = [loc EXCEPT ![w] = l]
    /\ UNCHANGED <<Tables, cached, sent, received, faults, expiries>>

Goto(w, label, l) ==
    /\ pc' = [pc EXCEPT ![w] = label]
    /\ loc' = [loc EXCEPT ![w] = l]

Return(w) == Goto(w, "idle", Idle)

\* A call to the database or to Kafka fails, or has worked and its reply is
\* lost, and the goroutine gives up: the error is logged or returned.
Fails(w) ==
    /\ faults < MaxFaults
    /\ faults' = faults + 1
    /\ Return(w)

\* The goroutine goes on to a label, or the call fails.
GoesOn(w, label, l) ==
    \/ Goto(w, label, l) /\ UNCHANGED faults
    \/ Fails(w)

\* An event is sent and the goroutine goes on.  When Produce fails, the event
\* may be in Kafka all the same.
Produce(w, evt, label, l) ==
    /\ \/ sent' = sent \cup {evt} /\ GoesOn(w, label, l)
       \/ UNCHANGED sent /\ Fails(w)
    /\ UNCHANGED <<Tables, cached, received, calls, expiries, History>>

-----------------------------------------------------------------------------
(***************************************************************************)
(* Redemption codes.                                                       *)
(***************************************************************************)
FreeCodes == {c \in Codes : codes[c] = NoRow}

\* Mutant: the first code of a batch is left out.
InsertedButFirst(rows) ==
    LET first == Cardinality(Codes \ FreeCodes)
    IN  [c \in Codes |-> IF c \in first + 2 .. first + Len(rows) THEN rows[c - first] ELSE codes[c]]

\* One new row for each element of the sequence rows, under the next ids.
Inserted(rows) ==
    LET first == Cardinality(Codes \ FreeCodes)
    IN  [c \in Codes |-> IF c \in first + 1 .. first + Len(rows) THEN rows[c - first] ELSE codes[c]]

\* Mutant: there is no GenerateLog.
CreateWithoutLog(biz, rows) ==
    /\ codes' = Inserted(rows)
    /\ generateLog' = generateLog \cup {<<biz, Len(rows)>>}

\* One transaction; when the log has the same business and number of codes
\* already, it is rolled back and taken for a repetition.
CreateRedemptionCodes(biz, rows) ==
    IF <<biz, Len(rows)>> \in generateLog
    THEN UNCHANGED <<codes, generateLog>>
    ELSE /\ codes' = Inserted(rows)
         /\ generateLog' = generateLog \cup {<<biz, Len(rows)>>}

Redeemable(c) == codes[c] # NoRow /\ ~codes[c].used

\* Mutant: the UPDATE is not conditional on the status.
SetStatusUsed(u, c) ==
    /\ codes[c] # NoRow
    /\ codes' = [codes EXCEPT ![c].used = TRUE]
    /\ redeemLog' = [redeemLog EXCEPT ![c] = u]

\* One transaction: the UPDATE hits an unused code only, and the log's
\* unique indexes admit one redeemer.
SetUnusedRedemptionCodeStatusUsed(u, c) ==
    /\ Redeemable(c)
    /\ redeemLog[c] = NoRow
    /\ codes' = [codes EXCEPT ![c].used = TRUE]
    /\ redeemLog' = [redeemLog EXCEPT ![c] = u]

\* How many the items S of an order are together.
Quantity(o, S) == SumOver([i \in S |-> Items[o][i].quantity], S)

\* The codes of the items S of an order, one item's after another's.
CodeRowsOf(o, S) ==
    LET Upto(i) == Quantity(o, {j \in S : j <= i})
        ItemOf(k) == Items[o][CHOOSE i \in S : k <= Upto(i) /\ \A j \in S : j < i => k > Upto(j)]
    IN  [k \in 1 .. Quantity(o, S) |->
            [owner |-> Buyer[o], biz |-> o, type |-> ItemOf(k).cat1, attr |-> ItemOf(k).attr,
             used |-> FALSE]]

\* The administrator's request: so many codes of one product.
GenerateRedemptionCodes(w) ==
    /\ pc[w] = "idle"
    /\ calls < MaxCalls
    /\ calls' = calls + 1
    /\ \E b \in Batches, type \in {"member", "project"}, n \in 1 .. Cardinality(FreeCodes) :
         CreateRedemptionCodes(b, [k \in 1 .. n |-> [owner |-> 0, biz |-> b, type |-> type,
                                                     attr |-> 1, used |-> FALSE]])
    /\ UNCHANGED <<redeemLog, invitation, cached, invited, sent, received, pc, loc, faults, expiries, History>>

-----------------------------------------------------------------------------
(***************************************************************************)
(* Completed orders.                                                       *)
(***************************************************************************)
CategoryOf(o, i) == <<Items[o][i].cat0, Items[o][i].cat1>>

CategoriesOf(o) == {CategoryOf(o, i) : i \in DOMAIN Items[o]}

\* NewCategorizedItems: the items of a category, by their places.
ItemsIn(o, cat) == {i \in DOMAIN Items[o] : CategoryOf(o, i) = cat}

\* The categories the consumer lets pass; "code" passes with any type.
Relevant(cat) == cat[1] = "code" \/ (cat[1] = "product" /\ cat[2] \in Types)

\* The categories with a handler.
Registered(cat) == Relevant(cat) /\ (cat[1] = "code" => cat[2] \in {"member", "project"})

\* An order_events message, the first one or a repetition.  The consumer
\* drops it when one of the order's SPUs is of no interest.
ConsumeOrderEvent(w) ==
    \E o \in Orders :
        /\ \A cat \in CategoriesOf(o) : Relevant(cat)
        /\ Start(w, "execute", [kind |-> "order", order |-> o, todo |-> CategoriesOf(o)])
        /\ handled' = handled \cup {o}
        /\ UNCHANGED raced

\* Execute goes through the categories in the order of a Go map, which is
\* any order, and gives up at one without a handler.
Execute(w) ==
    /\ pc[w] = "execute"
    /\ IF loc[w].todo = {}
       THEN Return(w)
       ELSE \E cat \in loc[w].todo :
              IF Registered(cat)
              THEN Goto(w, "handle", [kind |-> "order", order |-> loc[w].order,
                                      todo |-> loc[w].todo \ {cat}, cat |-> cat])
              ELSE Return(w)
    /\ UNCHANGED <<Tables, cached, sent, received, calls, faults, expiries, History>>

Handling(w, cat0, cat1s) == pc[w] = "handle" /\ loc[w].cat[1] = cat0 /\ loc[w].cat[2] \in cat1s

\* Where Execute goes on after a handler.
Rest(w) == [kind |-> "order", order |-> loc[w].order, todo |-> loc[w].todo]

Mine(w) == ItemsIn(loc[w].order, loc[w].cat)

\* Mutant: the quantity is forgotten.
DaysOfOne(o, S) == SumOver([i \in S |-> Items[o][i].attr], S)

DaysOf(o, S) == SumOver([i \in S |-> Items[o][i].attr * Items[o][i].quantity], S)

HandleProductMember(w) ==
    /\ Handling(w, "product", {"member"})
    /\ Produce(w, MemberEvent(<<"order", loc[w].order>>, Buyer[loc[w].order], DaysOf(loc[w].order, Mine(w))),
               "execute", Rest(w))

FirstOf(o, S) == Items[o][CHOOSE i \in S : \A j \in S : i <= j]

\* Only the first item counts, and once.
HandleProductCredit(w) ==
    /\ Handling(w, "product", {"credit"})
    /\ Produce(w, CreditEvent(<<"incr", loc[w].order>>, Buyer[loc[w].order], FirstOf(loc[w].order, Mine(w)).attr),
               "execute", Rest(w))

HandleProductProject(w) ==
    /\ Handling(w, "product", {"project"})
    /\ Produce(w, PermissionEvent(Buyer[loc[w].order], {Items[loc[w].order][i].attr : i \in Mine(w)}),
               "execute", Rest(w))

\* The robot's message is retried; giving up after six attempts is a failure.
HandleProductService(w) ==
    /\ Handling(w, "product", {"service"})
    /\ Produce(w, RobotEvent(loc[w].order), "execute", Rest(w))

HandleCode(w) ==
    /\ Handling(w, "code", {"member", "project"})
    /\ CreateRedemptionCodes(loc[w].order, CodeRowsOf(loc[w].order, Mine(w)))
    /\ GoesOn(w, "execute", Rest(w))
    /\ UNCHANGED <<redeemLog, invitation, cached, invited, sent, received, calls, expiries, History>>

-----------------------------------------------------------------------------
(***************************************************************************)
(* Redeeming a code: mark it used, then send the event.                    *)
(***************************************************************************)
RedeemRedemptionCode(w) ==
    /\ \E u \in Users, c \in Codes : Start(w, "redeem", [kind |-> "redeem", uid |-> u, code |-> c])
    /\ UNCHANGED History

\* Not found, used already, or a database error.
RedeemRefused(w) ==
    /\ pc[w] = "redeem"
    /\ \/ Fails(w)
       \/ /\ ~Redeemable(loc[w].code)
          /\ Return(w)
          /\ UNCHANGED faults
    /\ UNCHANGED <<Tables, cached, sent, received, calls, expiries, History>>

RedeemMark(w) ==
    /\ pc[w] = "redeem"
    /\ SetUnusedRedemptionCodeStatusUsed(loc[w].uid, loc[w].code)
    /\ GoesOn(w, "grant", loc[w])
    /\ UNCHANGED <<generateLog, invitation, cached, invited, sent, received, calls, expiries, History>>

\* Mutant: the event goes to the code's owner.
RedeemerIsOwner(w) == codes[loc[w].code].owner

Redeemer(w) == loc[w].uid

\* What Redeem of the two code handlers sends.
RedeemEvent(w) ==
    LET c == loc[w].code
    IN  IF codes[c].type = "member"
        THEN MemberEvent(<<"code", c>>, Redeemer(w), codes[c].attr)
        ELSE PermissionEvent(Redeemer(w), {codes[c].attr})

Redeem(w) ==
    /\ pc[w] = "grant"
    /\ Produce(w, RedeemEvent(w), "idle", Idle)

-----------------------------------------------------------------------------
(***************************************************************************)
(* Invitation codes: the cached one, or a new one that is then cached.     *)
(***************************************************************************)
GenerateInvitationCode(w) ==
    /\ \E u \in Users : cached[u] = NoRow /\ Start(w, "invite", [kind |-> "invite", uid |-> u])
    /\ UNCHANGED History

\* A newcomer has its code from somebody else.
CreateInvitationCode(w) ==
    /\ pc[w] = "invite"
    /\ \E i \in Invitations :
         /\ invitation[i] = NoRow
         /\ loc[w].uid \in DOMAIN InvitedBy => InvitedBy[loc[w].uid] # i
         /\ invitation' = [invitation EXCEPT ![i] = loc[w].uid]
         /\ \/ cached' = [cached EXCEPT ![loc[w].uid] = i]
            \/ faults < MaxFaults /\ UNCHANGED cached
    /\ Return(w)
    /\ faults' = IF cached' = cached THEN faults + 1 ELSE faults
    /\ UNCHANGED <<codes, generateLog, redeemLog, invited, sent, received, calls, expiries, History>>

CacheExpires ==
    /\ expiries < MaxExpiries
    /\ expiries' = expiries + 1
    /\ \E u \in Users : cached[u] # NoRow /\ cached' = [cached EXCEPT ![u] = NoRow]
    /\ UNCHANGED <<Tables, sent, received, pc, loc, calls, faults, History>>

-----------------------------------------------------------------------------
(***************************************************************************)
(* Registrations.                                                          *)
(***************************************************************************)
\* A newcomer has got its code from the owner, or mistypes it.
ConsumeRegistrationEvent(w) ==
    /\ \E u \in Newcomers :
         /\ InvitedBy[u] \in Invitations => invitation[InvitedBy[u]] # NoRow
         /\ Start(w, "bonus", [kind |-> "registration", uid |-> u])
    /\ UNCHANGED History

AwardRegistrationBonus(w) ==
    /\ pc[w] = "bonus"
    /\ Produce(w, MemberEvent(<<"registration", loc[w].uid>>, loc[w].uid, 7),
               IF InvitedBy[loc[w].uid] = NoRow THEN "idle" ELSE "record",
               IF InvitedBy[loc[w].uid] = NoRow THEN Idle ELSE loc[w])

InvitationRow(w) ==
    [inviter |-> invitation[InvitedBy[loc[w].uid]], invitee |-> loc[w].uid,
     code |-> InvitedBy[loc[w].uid]]

InvitationCodeNotFound(w) ==
    /\ pc[w] = "record"
    /\ \/ InvitedBy[loc[w].uid] \notin Invitations /\ Return(w) /\ UNCHANGED faults
       \/ Fails(w)
    /\ UNCHANGED <<Tables, cached, sent, received, calls, expiries, History>>

\* FirstOrCreate is a SELECT and, when that has found nothing, an INSERT, in no
\* transaction.  The SELECT has no condition: when the table has a row, its
\* first row is taken for the record.
SelectInvitationRecord(w) ==
    /\ pc[w] = "record"
    /\ InvitedBy[loc[w].uid] \in Invitations
    /\ GoesOn(w, IF invited = <<>> THEN "insert" ELSE "reward", loc[w])
    /\ UNCHANGED <<Tables, cached, sent, received, calls, expiries, History>>

\* The unique indexes on the invitee and on the code.
Duplicate(row) ==
    \E n \in DOMAIN invited : invited[n].invitee = row.invitee \/ invited[n].code = row.code

InsertInvitationRecord(w) ==
    /\ pc[w] = "insert"
    /\ ~Duplicate(InvitationRow(w))
    /\ invited' = Append(invited, InvitationRow(w))
    /\ GoesOn(w, "reward", loc[w])
    /\ UNCHANGED <<codes, generateLog, redeemLog, invitation, cached, sent, received, calls, expiries, History>>

\* Another registration has inserted its record since the SELECT, or the
\* database fails: the handling ends with an error and without a reward.
InvitationRecordRefused(w) ==
    /\ pc[w] = "insert"
    /\ \/ Fails(w) /\ UNCHANGED raced
       \/ /\ Duplicate(InvitationRow(w))
          /\ raced' = raced \cup {loc[w].uid}
          /\ Return(w)
          /\ UNCHANGED faults
    /\ UNCHANGED <<Tables, cached, sent, received, calls, expiries, handled>>

\* Mutant: the key names the inviter.
RewardKeyOfInviter(w) == <<"inviter", invitation[InvitedBy[loc[w].uid]]>>

RewardKey(w) == <<"invitee", loc[w].uid>>

AwardInvitationBonus(w) ==
    /\ pc[w] = "reward"
    /\ Produce(w, CreditEvent(RewardKey(w), invitation[InvitedBy[loc[w].uid]], 500), "idle", Idle)

-----------------------------------------------------------------------------
(***************************************************************************)
(* The consumers in member, credit, permission and notification: a key     *)
(* counts once, as CreditLedger and MemberLedger promise.                  *)
(***************************************************************************)
Counted(e) == e.topic \in {"member", "credit"}
                /\ \E r \in received : r.topic = e.topic /\ r.key = e.key

Receive ==
    /\ \E e \in sent \ received : ~Counted(e) /\ received' = received \cup {e}
    /\ UNCHANGED <<Tables, cached, sent, pc, loc, calls, faults, expiries, History>>

-----------------------------------------------------------------------------
HandleOrder(w) ==
    \/ Execute(w) \/ HandleProductMember(w) \/ HandleProductCredit(w)
    \/ HandleProductProject(w) \/ HandleProductService(w) \/ HandleCode(w)

HandleRedeem(w) == RedeemRefused(w) \/ RedeemMark(w) \/ Redeem(w)

HandleRegistration(w) ==
    \/ AwardRegistrationBonus(w) \/ InvitationCodeNotFound(w) \/ SelectInvitationRecord(w)
    \/ InsertInvitationRecord(w) \/ InvitationRecordRefused(w) \/ AwardInvitationBonus(w)

Step(w) == HandleOrder(w) \/ HandleRedeem(w) \/ HandleRegistration(w) \/ CreateInvitationCode(w)

Next ==
    \/ \E w \in Workers :
         \/ ConsumeOrderEvent(w) \/ RedeemRedemptionCode(w) \/ GenerateRedemptionCodes(w)
         \/ GenerateInvitationCode(w) \/ ConsumeRegistrationEvent(w)
         \/ Step(w)
    \/ CacheExpires
    \/ Receive

Spec == Init /\ [][Next]_vars

-----------------------------------------------------------------------------
(***************************************************************************)
(* Properties.                                                             *)
(***************************************************************************)

\* Rows have their types, and no id is skipped.
TypeOK ==
    /\ codes \in [Codes -> CodeRow \cup {NoRow}]
    /\ \A c \in Codes : codes[c] # NoRow => \A d \in 1 .. c : codes[d] # NoRow
    /\ generateLog \subseteq Bizs \X Nat
    /\ redeemLog \in [Codes -> Users \cup {NoRow}]
    /\ invitation \in [Invitations -> Users \cup {NoRow}]
    /\ cached \in [Users -> Invitations \cup {NoRow}]
    /\ invited \in Seq(RecordRow)
    /\ received \subseteq sent
    /\ handled \subseteq Orders
    /\ raced \subseteq Newcomers
    /\ pc \in [Workers -> {"idle", "execute", "handle", "redeem", "grant", "invite", "bonus",
                           "record", "insert", "reward"}]

CodesOf(o, type) == {c \in Codes : codes[c] # NoRow /\ codes[c].biz = o /\ codes[c].type = type}

CodesBought ==
    [o \in Orders |-> [type \in {"member", "project"} |-> Quantity(o, ItemsIn(o, <<"code", type>>))]]

\* However often and at what moments an order's event is handled, its buyer
\* gets no more codes than were paid for.
NoExtraCodes ==
    \A o \in Orders, type \in {"member", "project"} :
        Cardinality(CodesOf(o, type)) <= CodesBought[o][type]

ProjectsOf(o) == {Items[o][i].attr : i \in ItemsIn(o, <<"product", "project">>)}

\* The receiver of an event has bought it, has redeemed a code for it, has
\* registered, or has invited somebody.
EarnedDays(e) ==
    \/ \E o \in Orders : /\ e.key = <<"order", o>> /\ e.uid = Buyer[o]
                          /\ e.n = DaysOf(o, ItemsIn(o, <<"product", "member">>))
    \/ \E c \in Codes : e.key = <<"code", c>> /\ e.uid = redeemLog[c] /\ e.n = codes[c].attr
    \/ \E u \in Newcomers : e.key = <<"registration", u>> /\ e.uid = u /\ e.n = 7

EarnedCredits(e) ==
    \/ \E o \in Orders : e.key = <<"incr", o>> /\ e.uid = Buyer[o]
    \/ \E u \in Newcomers : e.key = <<"invitee", u>> /\ e.uid = invitation[InvitedBy[u]]

EarnedPermission(u, p) ==
    \/ \E o \in Orders : u = Buyer[o] /\ p \in ProjectsOf(o)
    \/ \E c \in Codes : redeemLog[c] = u /\ codes[c].type = "project" /\ codes[c].attr = p

\* Nothing is given away, by events or by codes, whatever is delivered twice or
\* raced for; and a code has served one user only.
GrantsAreEarned ==
    /\ NoExtraCodes
    /\ \A e \in sent :
          /\ e.topic = "member" => EarnedDays(e)
          /\ e.topic = "credit" => EarnedCredits(e)
          /\ e.topic = "permission" => \A p \in e.ids : EarnedPermission(e.uid, p)

Received(topic, key, u, n) == [topic |-> topic, key |-> key, uid |-> u, n |-> n] \in received

Permitted(u, p) == \E e \in received : e.topic = "permission" /\ e.uid = u /\ p \in e.ids

DaysBought(o) ==
    SumOver([i \in DOMAIN Items[o] |->
               IF Items[o][i].cat0 = "product" /\ Items[o][i].cat1 = "member"
               THEN Items[o][i].attr * Items[o][i].quantity ELSE 0], DOMAIN Items[o])

\* Everything an order is for has arrived.
Fulfilled(o) ==
    LET credits == ItemsIn(o, <<"product", "credit">>)
    IN  /\ DaysBought(o) > 0 => Received("member", <<"order", o>>, Buyer[o], DaysBought(o))
        /\ \A p \in ProjectsOf(o) : Permitted(Buyer[o], p)
        /\ \A type \in {"member", "project"} :
              Cardinality(CodesOf(o, type)) = CodesBought[o][type]
        /\ credits # {} => Received("credit", <<"incr", o>>, Buyer[o], FirstOf(o, credits).attr)
        /\ ItemsIn(o, <<"product", "service">>) # {} => RobotEvent(o) \in received

\* Goroutines have returned and everything sent has been received.
AtRest ==
    /\ \A w \in Workers : pc[w] = "idle"
    /\ \A e \in sent \ received : Counted(e)

\* When nothing has failed, what was bought is delivered: days, projects, codes
\* and the notice of a service, whatever the order of the categories.
OrdersAreFulfilled == AtRest /\ faults = 0 => \A o \in handled : Fulfilled(o)

Benefits(u, c) ==
    IF codes[c].type = "member"
    THEN Received("member", <<"code", c>>, u, codes[c].attr)
    ELSE Permitted(u, codes[c].attr)

\* When nothing has failed, every redeemed code has benefited its redeemer, and
\* the same user's other codes and orders have not swallowed it.
RedeemedIsGranted ==
    AtRest /\ faults = 0 =>
        \A c \in Codes : redeemLog[c] # NoRow => Benefits(redeemLog[c], c)

Registered7(u) == Received("member", <<"registration", u>>, u, 7)

\* Those who have registered with one of a user's codes.
GuestsOf(v) ==
    {u \in Newcomers : Registered7(u) /\ InvitedBy[u] \in Invitations /\ invitation[InvitedBy[u]] = v}

RewardsOf(v) == {e \in received : e.topic = "credit" /\ e.uid = v /\ e.key[1] = "invitee"}

\* When nothing has failed, an inviter has one reward for each guest and none for
\* anybody else.  The one exception is a guest whose record met, between the
\* SELECT and the INSERT of FirstOrCreate, the record of another guest with the
\* same code; the inviter is rewarded for that other one at least.
InvitersAreRewarded ==
    AtRest /\ faults = 0 =>
        \A v \in Users :
            LET rewarded == {e.key[2] : e \in RewardsOf(v)}
            IN  /\ GuestsOf(v) \ raced \subseteq rewarded
                /\ rewarded \subseteq GuestsOf(v)
                /\ Cardinality(RewardsOf(v)) = Cardinality(rewarded)
                /\ \A u \in GuestsOf(v) \cap raced : \E g \in rewarded : InvitedBy[g] = InvitedBy[u]
=============================================================================
