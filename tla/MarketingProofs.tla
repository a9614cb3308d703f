-------------------------- MODULE MarketingProofs ---------------------------
(***************************************************************************)
(* Proofs about Marketing, for any users, orders, items, batches,          *)
(* invitations and goroutines, and any number of calls, faults and codes.  *)
(***************************************************************************)
EXTENDS Marketing, WellFoundedInduction

-----------------------------------------------------------------------------
(***************************************************************************)
(* Data.                                                                   *)
(***************************************************************************)

\* A set of natural numbers that has an element has a least one.
LEMMA Least ==
    ASSUME NEW T \in SUBSET Nat, T # {}
    PROVE  \E x \in T : \A y \in T : x <= y
<1> DEFINE R == OpToRel(<, Nat)
<1>1. IsWellFoundedOn(R, Nat)
  BY NatLessThanWellFounded
<1>2. \A y \in Nat, x \in Nat : <<y, x>> \in R <=> y < x
  BY DEF OpToRel
<1> HIDE DEF R
<1>3. PICK x \in T : \A y \in T : <<y, x>> \notin R
  BY <1>1, WFMin
<1>4. \A y \in T : x <= y
  <2> TAKE y \in T
  <2>1. x \in Nat /\ y \in Nat
    OBVIOUS
  <2>2. ~ (y < x)
    BY <1>2, <1>3, <2>1
  <2> QED
    BY <2>1, <2>2
<1> QED
  BY <1>4

\* The items of an order, by their places.
LEMMA ItemType ==
    ASSUME NEW o \in Orders
    PROVE  /\ Len(Items[o]) \in Nat
           /\ DOMAIN Items[o] = 1 .. Len(Items[o])
           /\ IsFiniteSet(DOMAIN Items[o])
           /\ \A i \in DOMAIN Items[o] : Items[o][i] \in ItemRow
<1>1. Items[o] \in Seq(ItemRow)
  BY MarketingAssumption
<1>2. Len(Items[o]) \in Nat /\ DOMAIN Items[o] = 1 .. Len(Items[o])
  BY <1>1
<1>3. IsFiniteSet(1 .. Len(Items[o]))
  BY <1>2, FS_Interval
<1> QED
  BY <1>1, <1>2, <1>3

\* The number of some items of an order.
LEMMA QuantityType ==
    ASSUME NEW o \in Orders, NEW S \in SUBSET DOMAIN Items[o]
    PROVE  /\ IsFiniteSet(S)
           /\ Quantity(o, S) \in Nat
<1>1. IsFiniteSet(S)
  BY ItemType, FS_Subset
<1>2. \A i \in S : [j \in S |-> Items[o][j].quantity][i] \in Nat
  BY ItemType DEF ItemRow
<1> QED
  BY <1>1, <1>2, SumType DEF Quantity

\* Nothing is the quantity of no items.
LEMMA QuantityNone ==
    ASSUME NEW o \in Orders
    PROVE  Quantity(o, {}) = 0
BY SumZero DEF Quantity

\* Each of the codes paid for belongs to one of the items.
LEMMA CodeRowsType ==
    ASSUME NEW o \in Orders, NEW S \in SUBSET DOMAIN Items[o]
    PROVE  /\ CodeRowsOf(o, S) \in [1 .. Quantity(o, S) -> CodeRow]
           /\ \A k \in 1 .. Quantity(o, S) :
                 /\ CodeRowsOf(o, S)[k].biz = o
                 /\ \E i \in S : CodeRowsOf(o, S)[k].type = Items[o][i].cat1
<1> DEFINE Upto(i) == Quantity(o, {j \in S : j <= i})
           Is(k, i) == k <= Upto(i) /\ \A j \in S : j < i => k > Upto(j)
           ItemOf(k) == Items[o][CHOOSE i \in S : Is(k, i)]
           n == Len(Items[o])
<1>1. ASSUME NEW k \in 1 .. Quantity(o, S)
      PROVE  \E i \in S : Is(k, i)
  <2> DEFINE T == {i \in Nat : k <= Upto(i)}
  <2>0. k \in Nat /\ 1 <= k /\ k <= Quantity(o, S)
    BY QuantityType
  <2>1. n \in T
    <3>1. {j \in S : j <= n} = S
      BY ItemType
    <3>2. Upto(n) = Quantity(o, S) /\ n \in Nat
      BY <3>1, ItemType
    <3> QED
      BY <2>0, <3>2
  <2>2. PICK i \in T : \A y \in T : i <= y
    <3>1. T \in SUBSET Nat /\ T # {}
      BY <2>1
    <3> HIDE DEF T
    <3> QED
      BY <3>1, Least
  <2>3. \A y \in Nat : y < i => ~ (k <= Upto(y))
    BY <2>2
  <2>4. \A y \in Nat : Upto(y) \in Nat
    <3> TAKE y \in Nat
    <3>1. {j \in S : j <= y} \in SUBSET DOMAIN Items[o]
      OBVIOUS
    <3> QED
      BY <3>1, QuantityType
  <2>5. i # 0
    <3>1. {j \in S : j <= 0} = {}
      BY ItemType
    <3>2. Upto(0) = 0
      BY <3>1, QuantityNone
    <3> QED
      BY <2>0, <2>2, <3>2
  <2>6. i \in S
    <3> SUFFICES ASSUME i \notin S PROVE FALSE
      OBVIOUS
    <3>1. \A j \in S : j \in Nat
      BY ItemType
    <3>2. {j \in S : j <= i} = {j \in S : j <= i - 1}
      BY <2>5, <3>1
    <3>3. Upto(i) = Upto(i - 1)
      BY <3>2
    <3>4. k <= Upto(i - 1)
      BY <2>2, <3>3
    <3> QED
      BY <2>3, <2>5, <3>4
  <2>7. \A j \in S : j \in Nat
    BY ItemType
  <2>8. \A j \in S : j < i => k > Upto(j)
    <3> HIDE DEF Upto
    <3> QED
      BY <2>3, <2>4, <2>7
  <2> QED
    BY <2>2, <2>6, <2>8
<1>2. \A k \in 1 .. Quantity(o, S) : \E i \in S : ItemOf(k) = Items[o][i]
  <2> TAKE k \in 1 .. Quantity(o, S)
  <2>1. (CHOOSE i \in S : Is(k, i)) \in S
    <3> HIDE DEF Is
    <3> QED
      BY <1>1
  <2> QED
    BY <2>1
<1>3. CodeRowsOf(o, S) = [k \in 1 .. Quantity(o, S) |->
                             [owner |-> Buyer[o], biz |-> o, type |-> ItemOf(k).cat1,
                              attr |-> ItemOf(k).attr, used |-> FALSE]]
  BY DEF CodeRowsOf
<1> HIDE DEF ItemOf
<1>4. \A k \in 1 .. Quantity(o, S) : ItemOf(k) \in ItemRow
  BY <1>2, ItemType
<1>5. Buyer[o] \in Users /\ o \in Bizs
  BY MarketingAssumption DEF Bizs
<1>6. \A k \in 1 .. Quantity(o, S) : ItemOf(k).cat1 \in Types /\ ItemOf(k).attr \in Nat
  BY <1>4 DEF ItemRow
<1> QED
  BY <1>2, <1>3, <1>5, <1>6 DEF CodeRow

-----------------------------------------------------------------------------
(***************************************************************************)
(* The rows of redemption codes.  Ids are given out without gaps, so that  *)
(* as many codes are taken as the last id says.                            *)
(***************************************************************************)
TakenUpto(m) == \A c \in Codes : codes[c] # NoRow <=> c <= m

\* The ids from one number to another.
LEMMA IdsCardinality ==
    ASSUME NEW a \in Nat, NEW b \in Nat, a <= b
    PROVE  IsFiniteSet(a + 1 .. b) /\ Cardinality(a + 1 .. b) = b - a
<1>1. a + 1 \in Int /\ b \in Int
  OBVIOUS
<1>2. /\ IsFiniteSet(a + 1 .. b)
      /\ Cardinality(a + 1 .. b) = IF a + 1 > b THEN 0 ELSE b - (a + 1) + 1
  BY <1>1, FS_Interval
<1> QED
  BY <1>2

LEMMA TakenCardinality ==
    ASSUME NEW m \in 0 .. MaxCodes, TakenUpto(m)
    PROVE  Cardinality(Codes \ FreeCodes) = m
<1>1. MaxCodes \in Nat
  BY MarketingAssumption
<1>2. Codes \ FreeCodes = 1 .. m
  BY <1>1 DEF TakenUpto, FreeCodes, Codes
<1>3. 1 \in Int /\ m \in Int /\ 0 <= m
  BY <1>1
<1>4. Cardinality(1 .. m) = IF 1 > m THEN 0 ELSE m - 1 + 1
  BY <1>3, FS_Interval
<1>5. Cardinality(Codes \ FreeCodes) = Cardinality(1 .. m)
  BY <1>2, Zenon
<1> QED
  BY <1>3, <1>4, <1>5

\* The length of a sequence written as a function.
LEMMA LenOfRows ==
    ASSUME NEW n \in Nat, NEW rows, DOMAIN rows = 1 .. n
    PROVE  Len(rows) = n
OBVIOUS

\* Rows are added under the next ids, as far as there are any.
LEMMA InsertedRows ==
    ASSUME codes \in [Codes -> CodeRow \cup {NoRow}],
           NEW m \in 0 .. MaxCodes, TakenUpto(m),
           NEW n \in Nat, NEW rows \in [1 .. n -> CodeRow]
    PROVE  /\ Inserted(rows) \in [Codes -> CodeRow \cup {NoRow}]
           /\ \A c \in Codes : c <= m => Inserted(rows)[c] = codes[c]
           /\ \A c \in Codes : c > m /\ c <= m + n => Inserted(rows)[c] = rows[c - m]
           /\ \A c \in Codes : c > m + n => Inserted(rows)[c] = NoRow
<1>1. MaxCodes \in Nat /\ m \in Nat
  BY MarketingAssumption
<1>2. Cardinality(Codes \ FreeCodes) = m /\ Len(rows) = n
  BY TakenCardinality, LenOfRows
<1>3. Inserted(rows) = [c \in Codes |-> IF c \in m + 1 .. m + n THEN rows[c - m] ELSE codes[c]]
  BY <1>2 DEF Inserted
<1>4. \A c \in Codes : c \in m + 1 .. m + n => c - m \in 1 .. n
  BY <1>1 DEF Codes
<1>5. \A c \in Codes : c > m => codes[c] = NoRow
  BY <1>1 DEF TakenUpto, Codes
<1> QED
  BY <1>1, <1>3, <1>4, <1>5 DEF Codes

\* GenerateLog has the business and the number already.
Repeated(biz, n) ==
    /\ <<biz, n>> \in generateLog
    /\ UNCHANGED <<codes, generateLog>>

\* Codes up to k instead of m: there are new rows, as many as asked for unless
\* the ids run out.
AddedUpto(biz, n, rows, m, k) ==
    /\ <<biz, n>> \notin generateLog
    /\ generateLog' = generateLog \cup {<<biz, n>>}
    /\ codes' \in [Codes -> CodeRow \cup {NoRow}]
    /\ TakenUpto(k)'
    /\ k <= m + n
    /\ k < MaxCodes => k = m + n
    /\ \A c \in Codes : c <= m => codes'[c] = codes[c]
    /\ \A c \in m + 1 .. k : c - m \in 1 .. n /\ codes'[c] = rows[c - m]

\* What CreateRedemptionCodes does: nothing when the log has the business and
\* the number already; otherwise there are new rows, all of them unless the
\* ids run out.
LEMMA CodesCreated ==
    ASSUME codes \in [Codes -> CodeRow \cup {NoRow}],
           NEW m \in 0 .. MaxCodes, TakenUpto(m),
           NEW n \in Nat, NEW rows \in [1 .. n -> CodeRow], NEW biz,
           CreateRedemptionCodes(biz, rows)
    PROVE  \/ Repeated(biz, n)
           \/ \E k \in m .. MaxCodes : AddedUpto(biz, n, rows, m, k)
<1>1. MaxCodes \in Nat /\ m \in Nat /\ m <= MaxCodes
  BY MarketingAssumption
<1>2. Len(rows) = n
  BY LenOfRows
<1>3. CASE <<biz, n>> \in generateLog
  BY <1>2, <1>3 DEF CreateRedemptionCodes, Repeated
<1>4. CASE <<biz, n>> \notin generateLog
  <2>1. codes' = Inserted(rows) /\ generateLog' = generateLog \cup {<<biz, n>>}
    BY <1>2, <1>4 DEF CreateRedemptionCodes
  <2>2. /\ codes' \in [Codes -> CodeRow \cup {NoRow}]
        /\ \A c \in Codes : c <= m => codes'[c] = codes[c]
        /\ \A c \in Codes : c > m /\ c <= m + n => codes'[c] = rows[c - m]
        /\ \A c \in Codes : c > m + n => codes'[c] = NoRow
    BY <2>1, InsertedRows
  <2> DEFINE k == IF m + n <= MaxCodes THEN m + n ELSE MaxCodes
  <2>3. k \in m .. MaxCodes /\ k <= m + n /\ (k < MaxCodes => k = m + n)
    BY <1>1
  <2>4. \A c \in Codes : c \in Nat /\ 1 <= c /\ c <= MaxCodes
    BY <1>1 DEF Codes
  <2>5. \A c \in Codes : c <= k <=> c <= m + n
    BY <1>1, <2>4
  <2>6. \A c \in m + 1 .. k : c \in Codes /\ c - m \in 1 .. n /\ codes'[c] = rows[c - m]
    BY <1>1, <2>2, <2>3 DEF Codes
  <2>7. \A c \in Codes : c > m /\ c <= m + n => c - m \in 1 .. n
    BY <1>1, <2>4
  <2>8. \A c \in Codes : codes'[c] # NoRow <=> c <= k
    <3> TAKE c \in Codes
    <3>1. c \in Nat
      BY <2>4
    <3>2. CASE c <= m
      BY <1>1, <2>2, <2>3, <3>1, <3>2 DEF TakenUpto
    <3>3. CASE c > m /\ c <= m + n
      BY <2>2, <2>5, <2>7, <3>3, MarketingAssumption
    <3>4. CASE c > m + n
      BY <1>1, <2>2, <2>5, <3>1, <3>4
    <3> QED
      BY <1>1, <3>1, <3>2, <3>3, <3>4
  <2> HIDE DEF k
  <2>9. TakenUpto(k)'
    BY <2>8 DEF TakenUpto
  <2> QED
    BY <1>4, <2>1, <2>2, <2>3, <2>6, <2>9 DEF AddedUpto
<1> QED
  BY <1>3, <1>4

-----------------------------------------------------------------------------
(***************************************************************************)
(* The types of the tables and of what goroutines work on.  Rows that are  *)
(* there stay: what a code is for, who has redeemed it and who owns an     *)
(* invitation never change.                                                *)
(***************************************************************************)
RedeemedAreRows == \A c \in Codes : redeemLog[c] # NoRow => codes[c] # NoRow

CodesOfTwoTypes == \A c \in Codes : codes[c] # NoRow => codes[c].type \in {"member", "project"}

TablesInv ==
    /\ codes \in [Codes -> CodeRow \cup {NoRow}]
    /\ \E m \in 0 .. MaxCodes : TakenUpto(m)
    /\ generateLog \subseteq Bizs \X Nat
    /\ redeemLog \in [Codes -> Users \cup {NoRow}]
    /\ invitation \in [Invitations -> Users \cup {NoRow}]
    /\ cached \in [Users -> Invitations \cup {NoRow}]
    /\ received \subseteq sent
    /\ invited \in Seq(RecordRow)
    /\ handled \subseteq Orders
    /\ raced \subseteq Newcomers
    /\ faults \in Nat
    /\ RedeemedAreRows
    /\ CodesOfTwoTypes

\* What a goroutine works on, by what it does next.
WorksOn(w) ==
    /\ pc[w] \in {"execute", "handle"} =>
          loc[w].order \in Orders /\ loc[w].todo \subseteq CategoriesOf(loc[w].order)
    /\ pc[w] = "handle" => loc[w].cat \in CategoriesOf(loc[w].order) /\ Registered(loc[w].cat)
    /\ pc[w] \in {"redeem", "grant"} => loc[w].uid \in Users /\ loc[w].code \in Codes
    /\ pc[w] = "grant" => redeemLog[loc[w].code] = loc[w].uid
    /\ pc[w] = "invite" => loc[w].uid \in Users
    /\ pc[w] \in {"bonus", "record", "insert", "reward"} =>
          /\ loc[w].uid \in Newcomers
          /\ InvitedBy[loc[w].uid] \in Invitations => invitation[InvitedBy[loc[w].uid]] # NoRow
    /\ pc[w] \in {"insert", "reward"} => InvitedBy[loc[w].uid] \in Invitations

Labels == {"idle", "execute", "handle", "redeem", "grant", "invite", "bonus", "record", "insert",
           "reward"}

GoroutinesInv ==
    /\ pc \in [Workers -> Labels]
    /\ DOMAIN loc = Workers
    /\ \A w \in Workers : WorksOn(w)

\* What every step leaves as it is.
RowsStay ==
    /\ \A c \in Codes : codes[c] # NoRow =>
          /\ codes'[c] # NoRow
          /\ codes'[c].biz = codes[c].biz
          /\ codes'[c].type = codes[c].type
          /\ codes'[c].attr = codes[c].attr
    /\ \A c \in Codes : redeemLog[c] # NoRow => redeemLog'[c] = redeemLog[c]
    /\ \A i \in Invitations : invitation[i] # NoRow => invitation'[i] = invitation[i]
    /\ generateLog \subseteq generateLog'
    /\ sent \subseteq sent'
    /\ received \subseteq received'
    /\ faults <= faults'

\* A category has two parts, and the items of a category are of it.
LEMMA CategoryParts ==
    ASSUME NEW o \in Orders, NEW cat \in CategoriesOf(o)
    PROVE  /\ cat = <<cat[1], cat[2]>>
           /\ ItemsIn(o, cat) \in SUBSET DOMAIN Items[o]
           /\ \E i \in DOMAIN Items[o] : i \in ItemsIn(o, cat)
           /\ \A i \in ItemsIn(o, cat) : Items[o][i].cat0 = cat[1] /\ Items[o][i].cat1 = cat[2]
BY DEF CategoriesOf, CategoryOf, ItemsIn

\* Codes are created in the tables as they should be.
LEMMA CodesCreatedInv ==
    ASSUME TablesInv, NEW biz \in Bizs, NEW n \in Nat, NEW rows \in [1 .. n -> CodeRow],
           \A k \in 1 .. n : rows[k].type \in {"member", "project"},
           CreateRedemptionCodes(biz, rows), UNCHANGED redeemLog
    PROVE  /\ codes' \in [Codes -> CodeRow \cup {NoRow}]
           /\ \E m \in 0 .. MaxCodes : TakenUpto(m)'
           /\ generateLog' \subseteq Bizs \X Nat
           /\ generateLog \subseteq generateLog'
           /\ RedeemedAreRows' /\ CodesOfTwoTypes'
           /\ \A c \in Codes : codes[c] # NoRow => codes'[c] = codes[c]
<1>1. PICK m \in 0 .. MaxCodes : TakenUpto(m)
  BY DEF TablesInv
<1>2. codes \in [Codes -> CodeRow \cup {NoRow}]
  BY DEF TablesInv
<1>3. CASE Repeated(biz, n)
  BY <1>1, <1>3 DEF Repeated, TablesInv, TakenUpto, RedeemedAreRows, CodesOfTwoTypes
<1>4. CASE \E k \in m .. MaxCodes : AddedUpto(biz, n, rows, m, k)
  <2>0. PICK k \in m .. MaxCodes : AddedUpto(biz, n, rows, m, k)
    BY <1>4
  <2>1. /\ TakenUpto(k)'
        /\ \A c \in Codes : c <= m => codes'[c] = codes[c]
        /\ \A c \in m + 1 .. k : c - m \in 1 .. n /\ codes'[c] = rows[c - m]
    BY <2>0 DEF AddedUpto
  <2>2. MaxCodes \in Nat /\ m \in Nat /\ k \in 0 .. MaxCodes
    BY MarketingAssumption
  <2>3. \A c \in Codes : codes[c] # NoRow => codes'[c] = codes[c] /\ codes'[c] # NoRow
    BY <1>1, <2>1 DEF TakenUpto
  <2>4. \A c \in Codes : codes'[c] # NoRow => c <= m \/ c \in m + 1 .. k
    BY <2>1, <2>2 DEF TakenUpto, Codes
  <2>5. CodesOfTwoTypes'
    <3> SUFFICES ASSUME NEW c \in Codes, codes'[c] # NoRow
                 PROVE  codes'[c].type \in {"member", "project"}
      BY DEF CodesOfTwoTypes, Codes
    <3>1. CASE c <= m
      BY <1>1, <2>1, <3>1 DEF TakenUpto, TablesInv, CodesOfTwoTypes
    <3>2. CASE c \in m + 1 .. k
      BY <2>1, <3>2
    <3> QED
      BY <2>4, <3>1, <3>2
  <2>6. RedeemedAreRows'
    BY <2>3 DEF TablesInv, RedeemedAreRows, Codes
  <2>7. /\ codes' \in [Codes -> CodeRow \cup {NoRow}]
        /\ generateLog' \subseteq Bizs \X Nat /\ generateLog \subseteq generateLog'
    BY <2>0 DEF TablesInv, AddedUpto
  <2> QED
    BY <2>1, <2>2, <2>3, <2>5, <2>6, <2>7
<1> QED
  BY <1>1, <1>2, <1>3, <1>4, CodesCreated

\* The items of a goroutine's category, when its handler runs.
LEMMA MineType ==
    ASSUME GoroutinesInv, NEW w \in Workers, pc[w] = "handle"
    PROVE  /\ loc[w].order \in Orders
           /\ loc[w].cat = <<loc[w].cat[1], loc[w].cat[2]>>
           /\ Mine(w) \in SUBSET DOMAIN Items[loc[w].order]
           /\ \A i \in Mine(w) : Items[loc[w].order][i].cat1 = loc[w].cat[2]
<1>1. loc[w].order \in Orders /\ loc[w].cat \in CategoriesOf(loc[w].order)
  BY DEF GoroutinesInv, WorksOn
<1> QED
  BY <1>1, CategoryParts DEF Mine

\* What one step does to the tables, whoever takes it.
LEMMA TablesUnchanged ==
    ASSUME TablesInv, UNCHANGED <<codes, generateLog, redeemLog, invitation>>,
           cached' \in [Users -> Invitations \cup {NoRow}],
           sent \subseteq sent', received \subseteq received', received' \subseteq sent',
           invited' \in Seq(RecordRow), handled' \subseteq Orders, raced' \subseteq Newcomers,
           faults' \in Nat, faults <= faults'
    PROVE  TablesInv' /\ RowsStay
<1>1. RowsStay
  BY DEF RowsStay
<1>2. (\E m \in 0 .. MaxCodes : TakenUpto(m))'
  BY DEF TablesInv, TakenUpto
<1> QED
  BY <1>1, <1>2 DEF TablesInv, RedeemedAreRows, CodesOfTwoTypes

LEMMA TablesCodes ==
    ASSUME TablesInv, NEW biz \in Bizs, NEW n \in Nat, NEW rows \in [1 .. n -> CodeRow],
           \A k \in 1 .. n : rows[k].type \in {"member", "project"},
           CreateRedemptionCodes(biz, rows),
           UNCHANGED <<redeemLog, invitation, cached, invited, sent, received, handled, raced>>,
           faults' \in Nat, faults <= faults'
    PROVE  TablesInv' /\ RowsStay
<1>1. /\ codes' \in [Codes -> CodeRow \cup {NoRow}]
      /\ (\E m \in 0 .. MaxCodes : TakenUpto(m))'
      /\ generateLog' \subseteq Bizs \X Nat
      /\ generateLog \subseteq generateLog'
      /\ RedeemedAreRows' /\ CodesOfTwoTypes'
      /\ \A c \in Codes : codes[c] # NoRow => codes'[c] = codes[c]
  BY CodesCreatedInv
<1>2. RowsStay
  BY <1>1 DEF RowsStay
<1>3. TablesInv'
  BY <1>1 DEF TablesInv
<1> QED
  BY <1>2, <1>3

HandlesRecord(w) ==
    SelectInvitationRecord(w) \/ InsertInvitationRecord(w) \/ InvitationRecordRefused(w)

LEMMA RecordsTyped ==
    ASSUME TablesInv, GoroutinesInv, NEW w \in Workers, HandlesRecord(w)
    PROVE  invited' \in Seq(RecordRow) /\ raced' \subseteq Newcomers
<1>0. invited \in Seq(RecordRow) /\ raced \subseteq Newcomers
  BY DEF TablesInv
<1>1. CASE SelectInvitationRecord(w)
  BY <1>0, <1>1 DEF SelectInvitationRecord, Tables, History
<1>2. CASE InsertInvitationRecord(w)
  <2> DEFINE row == InvitationRow(w)
  <2>1. /\ loc[w].uid \in Newcomers /\ InvitedBy[loc[w].uid] \in Invitations
        /\ invitation[InvitedBy[loc[w].uid]] # NoRow
    BY <1>2 DEF InsertInvitationRecord, GoroutinesInv, WorksOn
  <2>2. invitation[InvitedBy[loc[w].uid]] \in Users
    BY <2>1 DEF TablesInv
  <2>3. row \in RecordRow
    BY <2>1, <2>2 DEF InvitationRow, RecordRow
  <2>4. invited' = Append(invited, row) /\ raced' = raced
    BY <1>2 DEF InsertInvitationRecord, History
  <2> HIDE DEF row
  <2> QED
    BY <1>0, <2>3, <2>4
<1>3. CASE InvitationRecordRefused(w)
  <2>1. loc[w].uid \in Newcomers
    BY <1>3 DEF InvitationRecordRefused, GoroutinesInv, WorksOn
  <2>2. invited' = invited /\ (raced' = raced \/ raced' = raced \cup {loc[w].uid})
    BY <1>3 DEF InvitationRecordRefused, Tables
  <2> QED
    BY <1>0, <2>1, <2>2
<1> QED
  BY <1>1, <1>2, <1>3 DEF HandlesRecord

LEMMA FaultsGrow ==
    ASSUME faults \in Nat, faults' = faults \/ faults' = faults + 1
    PROVE  faults' \in Nat /\ faults <= faults'
OBVIOUS

LEMMA TablesNext ==
    ASSUME TablesInv, GoroutinesInv, [Next]_vars
    PROVE  TablesInv' /\ RowsStay
<1>0. faults \in Nat
  BY DEF TablesInv
<1>1. ASSUME NEW w \in Workers, ConsumeOrderEvent(w)
      PROVE  TablesInv' /\ RowsStay
  <2>1. PICK o \in Orders : handled' = handled \cup {o}
    BY <1>1 DEF ConsumeOrderEvent
  <2> QED
    BY <1>0, <1>1, <2>1, TablesUnchanged DEF ConsumeOrderEvent, Start, Tables, History, TablesInv
<1>2. ASSUME NEW w \in Workers,
             RedeemRedemptionCode(w) \/ GenerateInvitationCode(w) \/ ConsumeRegistrationEvent(w)
      PROVE  TablesInv' /\ RowsStay
  BY <1>0, <1>2, TablesUnchanged
     DEF RedeemRedemptionCode, GenerateInvitationCode, ConsumeRegistrationEvent, Start, Tables, History, TablesInv
<1>3. ASSUME NEW w \in Workers, GenerateRedemptionCodes(w)
      PROVE  TablesInv' /\ RowsStay
  <2>1. PICK b \in Batches, type \in {"member", "project"}, n \in 1 .. Cardinality(FreeCodes) :
           CreateRedemptionCodes(b, [k \in 1 .. n |-> [owner |-> 0, biz |-> b, type |-> type,
                                                       attr |-> 1, used |-> FALSE]])
    BY <1>3 DEF GenerateRedemptionCodes
  <2> DEFINE rows == [k \in 1 .. n |-> [owner |-> 0, biz |-> b, type |-> type,
                                        attr |-> 1, used |-> FALSE]]
  <2>2. n \in Nat
    <3>1. IsFiniteSet(Codes)
      BY MarketingAssumption, FS_Interval DEF Codes
    <3>2. Cardinality(FreeCodes) \in Nat
      BY <3>1, FS_Subset, FS_CardinalityType DEF FreeCodes
    <3> QED
      BY <3>2
  <2>3. [owner |-> 0, biz |-> b, type |-> type, attr |-> 1, used |-> FALSE] \in CodeRow
    BY DEF CodeRow, Bizs, Types
  <2>4. rows \in [1 .. n -> CodeRow] /\ \A k \in 1 .. n : rows[k].type \in {"member", "project"}
    BY <2>3
  <2>5. b \in Bizs
    BY DEF Bizs
  <2>6. UNCHANGED <<redeemLog, invitation, cached, invited, sent, received, handled, raced, faults>>
    BY <1>3 DEF GenerateRedemptionCodes, History
  <2> HIDE DEF rows
  <2>7. CreateRedemptionCodes(b, rows)
    BY <2>1 DEF rows
  <2> QED
    BY <1>0, <2>2, <2>4, <2>5, <2>6, <2>7, TablesCodes
<1>4. ASSUME NEW w \in Workers, Execute(w)
      PROVE  TablesInv' /\ RowsStay
  BY <1>0, <1>4, TablesUnchanged DEF Execute, Tables, History, TablesInv
<1>5. ASSUME NEW w \in Workers, NEW evt, NEW label, NEW l, Produce(w, evt, label, l)
      PROVE  TablesInv' /\ RowsStay
  BY <1>0, <1>5, FaultsGrow, TablesUnchanged DEF Produce, GoesOn, Fails, Tables, History, TablesInv
<1>6. ASSUME NEW w \in Workers, HandleCode(w)
      PROVE  TablesInv' /\ RowsStay
  <2> DEFINE o == loc[w].order
             n == Quantity(o, Mine(w))
             rows == CodeRowsOf(o, Mine(w))
  <2>1. /\ pc[w] = "handle"
        /\ loc[w].cat[2] \in {"member", "project"}
        /\ CreateRedemptionCodes(o, rows)
        /\ UNCHANGED <<redeemLog, invitation, cached, invited, sent, received, handled, raced>>
        /\ faults' = faults \/ faults' = faults + 1
    BY <1>6 DEF HandleCode, Handling, GoesOn, Fails, History
  <2>2. /\ o \in Orders /\ Mine(w) \in SUBSET DOMAIN Items[o]
        /\ \A i \in Mine(w) : Items[o][i].cat1 = loc[w].cat[2]
    BY <2>1, MineType
  <2>3. /\ n \in Nat /\ rows \in [1 .. n -> CodeRow]
        /\ \A k \in 1 .. n : \E i \in Mine(w) : rows[k].type = Items[o][i].cat1
    BY <2>2, QuantityType, CodeRowsType
  <2>4. \A k \in 1 .. n : rows[k].type \in {"member", "project"}
    BY <2>1, <2>2, <2>3
  <2>5. o \in Bizs /\ faults' \in Nat /\ faults <= faults'
    BY <1>0, <2>1, <2>2, FaultsGrow DEF Bizs
  <2> HIDE DEF o, n, rows
  <2> QED
    BY <2>1, <2>3, <2>4, <2>5, TablesCodes
<1>7. ASSUME NEW w \in Workers, RedeemRefused(w) \/ InvitationCodeNotFound(w)
      PROVE  TablesInv' /\ RowsStay
  BY <1>0, <1>7, FaultsGrow, TablesUnchanged
     DEF RedeemRefused, InvitationCodeNotFound, Fails, Tables, History, TablesInv
<1>8. ASSUME NEW w \in Workers, HandlesRecord(w)
      PROVE  TablesInv' /\ RowsStay
  <2>1. /\ UNCHANGED <<codes, generateLog, redeemLog, invitation, cached, sent, received, handled>>
        /\ faults' = faults \/ faults' = faults + 1
    BY <1>8 DEF HandlesRecord, SelectInvitationRecord, InsertInvitationRecord,
                InvitationRecordRefused, GoesOn, Fails, Tables, History
  <2>2. invited' \in Seq(RecordRow) /\ raced' \subseteq Newcomers
    BY <1>8, RecordsTyped
  <2> QED
    BY <1>0, <2>1, <2>2, FaultsGrow, TablesUnchanged DEF TablesInv
<1>9. ASSUME NEW w \in Workers, RedeemMark(w)
      PROVE  TablesInv' /\ RowsStay
  <2> DEFINE c == loc[w].code
  <2>1. c \in Codes /\ loc[w].uid \in Users
    BY <1>9 DEF RedeemMark, GoroutinesInv, WorksOn
  <2>2. /\ codes[c] # NoRow /\ redeemLog[c] = NoRow
        /\ codes' = [codes EXCEPT ![c].used = TRUE]
        /\ redeemLog' = [redeemLog EXCEPT ![c] = loc[w].uid]
        /\ UNCHANGED <<generateLog, invitation, cached, invited, sent, received, handled, raced>>
        /\ faults' = faults \/ faults' = faults + 1
    BY <1>9 DEF RedeemMark, SetUnusedRedemptionCodeStatusUsed, Redeemable, GoesOn, Fails, History
  <2>3. codes[c] \in CodeRow
    BY <2>1, <2>2 DEF TablesInv
  <2>4. [codes[c] EXCEPT !.used = TRUE] \in CodeRow
    BY <2>3 DEF CodeRow
  <2>5. codes' \in [Codes -> CodeRow \cup {NoRow}]
    BY <2>1, <2>2, <2>4 DEF TablesInv
  <2>6. /\ codes'[c] # NoRow /\ codes'[c].biz = codes[c].biz
        /\ codes'[c].type = codes[c].type /\ codes'[c].attr = codes[c].attr
    BY <2>1, <2>2, <2>3, <2>4, MarketingAssumption DEF TablesInv, CodeRow
  <2>7. \A d \in Codes : d # c => codes'[d] = codes[d] /\ redeemLog'[d] = redeemLog[d]
    BY <2>1, <2>2 DEF TablesInv
  <2>8. faults' \in Nat /\ faults <= faults'
    BY <1>0, <2>2, FaultsGrow
  <2>9. redeemLog' \in [Codes -> Users \cup {NoRow}]
    BY <2>1, <2>2 DEF TablesInv
  <2> HIDE DEF c
  <2>10. RowsStay
    BY <2>2, <2>6, <2>7, <2>8 DEF RowsStay
  <2>11. (\E m \in 0 .. MaxCodes : TakenUpto(m))'
    BY <2>2, <2>6, <2>7 DEF TablesInv, TakenUpto
  <2>12. RedeemedAreRows' /\ CodesOfTwoTypes'
    BY <2>1, <2>2, <2>6, <2>7 DEF TablesInv, RedeemedAreRows, CodesOfTwoTypes
  <2> QED
    BY <2>2, <2>5, <2>8, <2>9, <2>10, <2>11, <2>12 DEF TablesInv
<1>10. ASSUME NEW w \in Workers, CreateInvitationCode(w)
       PROVE  TablesInv' /\ RowsStay
  <2>1. loc[w].uid \in Users
    BY <1>10 DEF CreateInvitationCode, GoroutinesInv, WorksOn
  <2>2. PICK i \in Invitations :
           /\ invitation[i] = NoRow
           /\ invitation' = [invitation EXCEPT ![i] = loc[w].uid]
           /\ cached' = [cached EXCEPT ![loc[w].uid] = i] \/ UNCHANGED cached
    BY <1>10 DEF CreateInvitationCode
  <2>3. /\ UNCHANGED <<codes, generateLog, redeemLog, invited, sent, received, handled, raced>>
        /\ faults' = faults \/ faults' = faults + 1
    BY <1>10 DEF CreateInvitationCode, History
  <2>4. invitation' \in [Invitations -> Users \cup {NoRow}]
    BY <2>1, <2>2 DEF TablesInv
  <2>5. cached' \in [Users -> Invitations \cup {NoRow}]
    BY <2>1, <2>2 DEF TablesInv
  <2>6. RowsStay
    BY <1>0, <2>2, <2>3, FaultsGrow DEF RowsStay, TablesInv
  <2>7. (\E m \in 0 .. MaxCodes : TakenUpto(m))'
    BY <2>3 DEF TablesInv, TakenUpto
  <2> QED
    BY <1>0, <2>3, <2>4, <2>5, <2>6, <2>7, FaultsGrow
       DEF TablesInv, RedeemedAreRows, CodesOfTwoTypes
<1>11. ASSUME CacheExpires
       PROVE  TablesInv' /\ RowsStay
  <2>1. cached' \in [Users -> Invitations \cup {NoRow}]
    BY <1>11 DEF CacheExpires, TablesInv
  <2> QED
    BY <1>0, <1>11, <2>1, TablesUnchanged DEF CacheExpires, Tables, History, TablesInv
<1>12. ASSUME Receive
       PROVE  TablesInv' /\ RowsStay
  BY <1>0, <1>12, TablesUnchanged DEF Receive, Tables, History, TablesInv
<1>13. ASSUME UNCHANGED vars
       PROVE  TablesInv' /\ RowsStay
  BY <1>0, <1>13, TablesUnchanged DEF vars, Tables, History, TablesInv
<1>14. ASSUME NEW w \in Workers, Step(w)
       PROVE  TablesInv' /\ RowsStay
  BY <1>4, <1>5, <1>6, <1>7, <1>8, <1>9, <1>10, <1>14
     DEF Step, HandleOrder, HandleRedeem, HandleRegistration, HandleProductMember,
         HandleProductCredit, HandleProductProject, HandleProductService, Redeem,
         AwardRegistrationBonus, AwardInvitationBonus, HandlesRecord
<1> QED
  BY <1>1, <1>2, <1>3, <1>11, <1>12, <1>13, <1>14 DEF Next

\* Where a step sends its goroutine, the others go on with their work.
LEMMA OthersWork ==
    ASSUME TablesInv, GoroutinesInv, RowsStay, NEW v \in Workers,
           pc'[v] = pc[v], loc'[v] = loc[v]
    PROVE  WorksOn(v)'
<1>1. WorksOn(v)
  BY DEF GoroutinesInv
<1>2. pc[v] = "grant" => redeemLog'[loc[v].code] = redeemLog[loc[v].code]
  BY <1>1, MarketingAssumption DEF WorksOn, RowsStay
<1> QED
  BY <1>1, <1>2 DEF WorksOn, RowsStay

LEMMA GoroutineMoves ==
    ASSUME TablesInv, GoroutinesInv, RowsStay, NEW w \in Workers, NEW label \in Labels, NEW l,
           pc' = [pc EXCEPT ![w] = label], loc' = [loc EXCEPT ![w] = l], WorksOn(w)'
    PROVE  GoroutinesInv'
<1>1. pc' \in [Workers -> Labels] /\ DOMAIN loc' = Workers
  BY DEF GoroutinesInv
<1>2. ASSUME NEW v \in Workers, v # w
      PROVE  WorksOn(v)'
  <2>1. pc'[v] = pc[v] /\ loc'[v] = loc[v]
    BY <1>2 DEF GoroutinesInv
  <2> QED
    BY <2>1, OthersWork
<1> QED
  BY <1>1, <1>2 DEF GoroutinesInv

\* Who returns works on nothing.
LEMMA GoroutineReturns ==
    ASSUME TablesInv, GoroutinesInv, RowsStay, NEW w \in Workers, Return(w)
    PROVE  GoroutinesInv'
<1>1. pc'[w] = "idle"
  BY DEF Return, Goto, GoroutinesInv
<1>2. WorksOn(w)'
  BY <1>1 DEF WorksOn
<1> QED
  BY <1>2, GoroutineMoves DEF Return, Goto, Labels

\* Who goes on, or returns because a call fails.
LEMMA GoroutineGoesOn ==
    ASSUME TablesInv, GoroutinesInv, RowsStay, NEW w \in Workers, NEW label \in Labels, NEW l,
           \/ pc' = [pc EXCEPT ![w] = label] /\ loc' = [loc EXCEPT ![w] = l]
           \/ Return(w),
           pc'[w] = label /\ loc'[w] = l => WorksOn(w)'
    PROVE  GoroutinesInv'
<1>1. CASE pc' = [pc EXCEPT ![w] = label] /\ loc' = [loc EXCEPT ![w] = l]
  <2>1. pc'[w] = label /\ loc'[w] = l
    BY <1>1 DEF GoroutinesInv
  <2> QED
    BY <1>1, <2>1, GoroutineMoves
<1> QED
  BY <1>1, GoroutineReturns

\* After a handler, Execute has the categories that are left.
LEMMA HandlerGoesOn ==
    ASSUME TablesInv, GoroutinesInv, RowsStay, NEW w \in Workers, pc[w] = "handle",
           \/ Goto(w, "execute", Rest(w))
           \/ Return(w)
    PROVE  GoroutinesInv'
<1>1. loc[w].order \in Orders /\ loc[w].todo \subseteq CategoriesOf(loc[w].order)
  BY DEF GoroutinesInv, WorksOn
<1>2. pc'[w] = "execute" /\ loc'[w] = Rest(w) => WorksOn(w)'
  BY <1>1 DEF WorksOn, Rest
<1> QED
  BY <1>2, GoroutineGoesOn DEF Goto, Labels

LEMMA GoroutinesNext ==
    ASSUME TablesInv, GoroutinesInv, RowsStay, [Next]_vars
    PROVE  GoroutinesInv'
<1>1. ASSUME NEW w \in Workers, NEW label \in Labels, NEW l, Start(w, label, l),
             pc'[w] = label /\ loc'[w] = l => WorksOn(w)'
      PROVE  GoroutinesInv'
  BY <1>1, GoroutineGoesOn DEF Start
<1>2. ASSUME NEW w \in Workers, ConsumeOrderEvent(w)
      PROVE  GoroutinesInv'
  <2>1. PICK o \in Orders :
           Start(w, "execute", [kind |-> "order", order |-> o, todo |-> CategoriesOf(o)])
    BY <1>2 DEF ConsumeOrderEvent
  <2> DEFINE l == [kind |-> "order", order |-> o, todo |-> CategoriesOf(o)]
  <2>2. pc'[w] = "execute" /\ loc'[w] = l => WorksOn(w)'
    BY DEF WorksOn
  <2> QED
    BY <1>1, <2>1, <2>2 DEF Labels
<1>3. ASSUME NEW w \in Workers, RedeemRedemptionCode(w)
      PROVE  GoroutinesInv'
  <2>1. PICK u \in Users, c \in Codes : Start(w, "redeem", [kind |-> "redeem", uid |-> u, code |-> c])
    BY <1>3 DEF RedeemRedemptionCode
  <2> DEFINE l == [kind |-> "redeem", uid |-> u, code |-> c]
  <2>2. pc'[w] = "redeem" /\ loc'[w] = l => WorksOn(w)'
    BY DEF WorksOn, Codes
  <2> QED
    BY <1>1, <2>1, <2>2 DEF Labels
<1>4. ASSUME NEW w \in Workers, GenerateInvitationCode(w)
      PROVE  GoroutinesInv'
  <2>1. PICK u \in Users : Start(w, "invite", [kind |-> "invite", uid |-> u])
    BY <1>4 DEF GenerateInvitationCode
  <2> DEFINE l == [kind |-> "invite", uid |-> u]
  <2>2. pc'[w] = "invite" /\ loc'[w] = l => WorksOn(w)'
    BY DEF WorksOn
  <2> QED
    BY <1>1, <2>1, <2>2 DEF Labels
<1>5. ASSUME NEW w \in Workers, ConsumeRegistrationEvent(w)
      PROVE  GoroutinesInv'
  <2>1. PICK u \in Newcomers :
           /\ InvitedBy[u] \in Invitations => invitation[InvitedBy[u]] # NoRow
           /\ Start(w, "bonus", [kind |-> "registration", uid |-> u])
    BY <1>5 DEF ConsumeRegistrationEvent
  <2> DEFINE l == [kind |-> "registration", uid |-> u]
  <2>2. InvitedBy[u] \in Invitations => invitation'[InvitedBy[u]] # NoRow
    BY <2>1 DEF Start, Tables, History
  <2>3. pc'[w] = "bonus" /\ loc'[w] = l => WorksOn(w)'
    BY <2>2 DEF WorksOn, Newcomers
  <2> QED
    BY <1>1, <2>1, <2>3 DEF Labels
<1>6. ASSUME NEW w \in Workers, Execute(w)
      PROVE  GoroutinesInv'
  <2>1. loc[w].order \in Orders /\ loc[w].todo \subseteq CategoriesOf(loc[w].order)
    BY <1>6 DEF Execute, GoroutinesInv, WorksOn
  <2>2. CASE Return(w)
    BY <2>2, GoroutineReturns
  <2>3. CASE \E cat \in loc[w].todo :
               /\ Registered(cat)
               /\ Goto(w, "handle", [kind |-> "order", order |-> loc[w].order,
                                     todo |-> loc[w].todo \ {cat}, cat |-> cat])
    <3>1. PICK cat \in loc[w].todo :
             /\ Registered(cat)
             /\ Goto(w, "handle", [kind |-> "order", order |-> loc[w].order,
                                   todo |-> loc[w].todo \ {cat}, cat |-> cat])
      BY <2>3
    <3> DEFINE l == [kind |-> "order", order |-> loc[w].order,
                     todo |-> loc[w].todo \ {cat}, cat |-> cat]
    <3>2. /\ l.order = loc[w].order /\ l.todo \subseteq CategoriesOf(loc[w].order)
          /\ l.cat = cat /\ cat \in CategoriesOf(loc[w].order)
      BY <2>1
    <3> HIDE DEF l
    <3>3. pc'[w] = "handle" /\ loc'[w] = l => WorksOn(w)'
      BY <2>1, <3>1, <3>2 DEF WorksOn
    <3>4. Goto(w, "handle", l)
      BY <3>1 DEF l
    <3> QED
      BY <3>3, <3>4, GoroutineGoesOn DEF Goto, Labels
  <2> QED
    BY <1>6, <2>2, <2>3 DEF Execute
<1>7. ASSUME NEW w \in Workers, pc[w] = "handle",
             Goto(w, "execute", Rest(w)) \/ Return(w)
      PROVE  GoroutinesInv'
  BY <1>7, HandlerGoesOn
<1>8. ASSUME NEW w \in Workers,
             \/ HandleProductMember(w) \/ HandleProductCredit(w) \/ HandleProductProject(w)
             \/ HandleProductService(w) \/ HandleCode(w)
      PROVE  GoroutinesInv'
  BY <1>7, <1>8 DEF HandleProductMember, HandleProductCredit, HandleProductProject,
                    HandleProductService, HandleCode, Handling, Produce, GoesOn, Fails
<1>9. ASSUME NEW w \in Workers, RedeemRefused(w) \/ InvitationCodeNotFound(w) \/ CreateInvitationCode(w)
      PROVE  GoroutinesInv'
  BY <1>9, GoroutineReturns DEF RedeemRefused, InvitationCodeNotFound, CreateInvitationCode, Fails
<1>10. ASSUME NEW w \in Workers, RedeemMark(w)
       PROVE  GoroutinesInv'
  <2>1. loc[w].uid \in Users /\ loc[w].code \in Codes
    BY <1>10 DEF RedeemMark, GoroutinesInv, WorksOn
  <2>2. redeemLog'[loc[w].code] = loc[w].uid
    BY <1>10, <2>1 DEF RedeemMark, SetUnusedRedemptionCodeStatusUsed, TablesInv
  <2>3. pc'[w] = "grant" /\ loc'[w] = loc[w] => WorksOn(w)'
    BY <2>1, <2>2 DEF WorksOn, Codes
  <2> QED
    BY <1>10, <2>3, GoroutineGoesOn DEF RedeemMark, GoesOn, Goto, Fails, Labels
<1>11. ASSUME NEW w \in Workers, Redeem(w) \/ AwardInvitationBonus(w)
       PROVE  GoroutinesInv'
  BY <1>11, GoroutineReturns
     DEF Redeem, AwardInvitationBonus, Produce, GoesOn, Return, Fails
<1>12. ASSUME NEW w \in Workers, AwardRegistrationBonus(w)
       PROVE  GoroutinesInv'
  <2>1. WorksOn(w) /\ pc[w] = "bonus"
    BY <1>12 DEF AwardRegistrationBonus, GoroutinesInv
  <2>2. UNCHANGED invitation
    BY <1>12 DEF AwardRegistrationBonus, Produce, Tables, History
  <2>3. CASE InvitedBy[loc[w].uid] = NoRow
    BY <1>12, <2>3, GoroutineReturns DEF AwardRegistrationBonus, Produce, GoesOn, Return, Fails
  <2>4. CASE InvitedBy[loc[w].uid] # NoRow
    <3>1. pc'[w] = "record" /\ loc'[w] = loc[w] => WorksOn(w)'
      BY <2>1, <2>2 DEF WorksOn, Newcomers
    <3>2. Goto(w, "record", loc[w]) \/ Return(w)
      BY <1>12, <2>4 DEF AwardRegistrationBonus, Produce, GoesOn, Fails
    <3> QED
      BY <3>1, <3>2, GoroutineGoesOn DEF Goto, Labels
  <2> QED
    BY <2>3, <2>4
<1>13. ASSUME NEW w \in Workers, HandlesRecord(w)
       PROVE  GoroutinesInv'
  <2>1. WorksOn(w) /\ pc[w] \in {"record", "insert"}
    BY <1>13 DEF HandlesRecord, SelectInvitationRecord, InsertInvitationRecord,
                 InvitationRecordRefused, GoroutinesInv
  <2>2. InvitedBy[loc[w].uid] \in Invitations
    BY <1>13, <2>1 DEF HandlesRecord, SelectInvitationRecord, InsertInvitationRecord,
                       InvitationRecordRefused, WorksOn
  <2>3. UNCHANGED invitation
    BY <1>13 DEF HandlesRecord, SelectInvitationRecord, InsertInvitationRecord,
                 InvitationRecordRefused, Tables
  <2>4. \A label \in {"insert", "reward"} : pc'[w] = label /\ loc'[w] = loc[w] => WorksOn(w)'
    BY <2>1, <2>2, <2>3 DEF WorksOn, Newcomers
  <2>5. Goto(w, "insert", loc[w]) \/ Goto(w, "reward", loc[w]) \/ Return(w)
    BY <1>13 DEF HandlesRecord, SelectInvitationRecord, InsertInvitationRecord,
                 InvitationRecordRefused, GoesOn, Fails
  <2>6. CASE Goto(w, "insert", loc[w])
    BY <2>4, <2>6, GoroutineGoesOn DEF Goto, Labels
  <2>7. CASE Goto(w, "reward", loc[w])
    BY <2>4, <2>7, GoroutineGoesOn DEF Goto, Labels
  <2> QED
    BY <2>5, <2>6, <2>7, GoroutineReturns
<1>14. ASSUME UNCHANGED <<pc, loc>>
       PROVE  GoroutinesInv'
  <2>1. \A v \in Workers : WorksOn(v)'
    BY <1>14, OthersWork
  <2> QED
    BY <1>14, <2>1 DEF GoroutinesInv
<1>15. ASSUME NEW w \in Workers, Step(w)
       PROVE  GoroutinesInv'
  BY <1>6, <1>8, <1>9, <1>10, <1>11, <1>12, <1>13, <1>15
     DEF Step, HandleOrder, HandleRedeem, HandleRegistration, HandlesRecord
<1> QED
  BY <1>2, <1>3, <1>4, <1>5, <1>14, <1>15
     DEF Next, GenerateRedemptionCodes, CacheExpires, Receive, vars

-----------------------------------------------------------------------------
MarketingInv == TablesInv /\ GoroutinesInv

LEMMA InitInv == Init => MarketingInv
<1> SUFFICES ASSUME Init PROVE MarketingInv
  OBVIOUS
<1>1. TakenUpto(0) /\ 0 \in 0 .. MaxCodes
  BY MarketingAssumption DEF Init, TakenUpto, Codes
<1>2. TablesInv
  BY <1>1 DEF Init, TablesInv, RedeemedAreRows, CodesOfTwoTypes
<1>3. GoroutinesInv
  BY DEF Init, GoroutinesInv, WorksOn, Labels
<1> QED
  BY <1>2, <1>3 DEF MarketingInv

LEMMA InvNext == MarketingInv /\ [Next]_vars => MarketingInv' /\ RowsStay
<1> SUFFICES ASSUME MarketingInv, [Next]_vars PROVE MarketingInv' /\ RowsStay
  OBVIOUS
<1>1. TablesInv' /\ RowsStay
  BY TablesNext DEF MarketingInv
<1> QED
  BY <1>1, GoroutinesNext DEF MarketingInv

LEMMA InvType == MarketingInv => TypeOK
<1> SUFFICES ASSUME MarketingInv PROVE TypeOK
  OBVIOUS
<1>1. PICK m \in 0 .. MaxCodes : TakenUpto(m)
  BY DEF MarketingInv, TablesInv
<1>2. \A c \in Codes : codes[c] # NoRow => \A d \in 1 .. c : codes[d] # NoRow
  <2> SUFFICES ASSUME NEW c \in Codes, codes[c] # NoRow, NEW d \in 1 .. c
               PROVE  codes[d] # NoRow
    OBVIOUS
  <2>1. MaxCodes \in Nat /\ m \in Nat
    BY MarketingAssumption
  <2>2. c <= m /\ d \in Codes /\ d <= c
    BY <1>1, <2>1 DEF TakenUpto, Codes
  <2>3. d \in Int /\ c \in Int
    BY <2>1 DEF Codes
  <2>4. d <= m
    BY <2>1, <2>2, <2>3
  <2> QED
    BY <1>1, <2>2, <2>4 DEF TakenUpto
<1>3. pc \in [Workers -> Labels]
  BY DEF MarketingInv, GoroutinesInv
<1> QED
  BY <1>2, <1>3 DEF MarketingInv, TablesInv, TypeOK, Labels

\* In every behaviour, rows have their types and no id of a code is skipped,
\* though several goroutines create codes (CreateRedemptionCodes, redeem).
THEOREM MarketingInvariant == Spec => []TypeOK
<1>1. Init => MarketingInv
  BY InitInv
<1>2. MarketingInv /\ [Next]_vars => MarketingInv'
  BY InvNext
<1>3. MarketingInv => TypeOK
  BY InvType
<1> QED
  BY <1>1, <1>2, <1>3, PTL DEF Spec

-----------------------------------------------------------------------------
(***************************************************************************)
(* Events.  Each one that has been sent is what one order, code, newcomer  *)
(* or invitation is for, and stays so, because rows stay.                  *)
(***************************************************************************)
OrderDays(o) == DaysOf(o, ItemsIn(o, <<"product", "member">>))

OrderCredits(o) == FirstOf(o, ItemsIn(o, <<"product", "credit">>)).attr

ByOrder(e, o) ==
    \/ e = MemberEvent(<<"order", o>>, Buyer[o], OrderDays(o))
    \/ e = CreditEvent(<<"incr", o>>, Buyer[o], OrderCredits(o))
    \/ e = PermissionEvent(Buyer[o], ProjectsOf(o))
    \/ e = RobotEvent(o)

ByCode(e, c) ==
    /\ redeemLog[c] # NoRow
    /\ \/ codes[c].type = "member" /\ e = MemberEvent(<<"code", c>>, redeemLog[c], codes[c].attr)
       \/ codes[c].type = "project" /\ e = PermissionEvent(redeemLog[c], {codes[c].attr})

ByRegistration(e, u) == e = MemberEvent(<<"registration", u>>, u, 7)

ByInvitation(e, u) ==
    /\ InvitedBy[u] \in Invitations
    /\ invitation[InvitedBy[u]] # NoRow
    /\ e = CreditEvent(<<"invitee", u>>, invitation[InvitedBy[u]], 500)

Explained(e) ==
    \/ \E o \in Orders : ByOrder(e, o)
    \/ \E c \in Codes : ByCode(e, c)
    \/ \E u \in Newcomers : ByRegistration(e, u) \/ ByInvitation(e, u)

EventsInv == \A e \in sent : Explained(e)

LEMMA ExplainedStays ==
    ASSUME MarketingInv, RowsStay, NEW e, Explained(e)
    PROVE  Explained(e)'
<1>1. ASSUME NEW c \in Codes, ByCode(e, c)
      PROVE  ByCode(e, c)'
  <2>1. codes[c] # NoRow /\ redeemLog'[c] = redeemLog[c]
    BY <1>1 DEF ByCode, MarketingInv, TablesInv, RedeemedAreRows, RowsStay
  <2>2. codes'[c].type = codes[c].type /\ codes'[c].attr = codes[c].attr
    BY <2>1 DEF RowsStay
  <2> QED
    BY <1>1, <2>1, <2>2 DEF ByCode
<1>2. ASSUME NEW u \in Newcomers, ByInvitation(e, u)
      PROVE  ByInvitation(e, u)'
  BY <1>2 DEF ByInvitation, RowsStay
<1>3. Codes' = Codes /\ Newcomers' = Newcomers
  BY DEF Codes, Newcomers
<1>4. CASE \E o \in Orders : ByOrder(e, o)
  BY <1>4 DEF Explained, ByOrder
<1>5. CASE \E c \in Codes : ByCode(e, c)
  BY <1>1, <1>3, <1>5 DEF Explained
<1>6. CASE \E u \in Newcomers : ByRegistration(e, u) \/ ByInvitation(e, u)
  BY <1>2, <1>3, <1>6 DEF Explained, ByRegistration
<1> QED
  BY <1>4, <1>5, <1>6 DEF Explained

\* The event that a handler of completed orders sends.
LEMMA OrderEvents ==
    ASSUME MarketingInv, NEW w \in Workers, pc[w] = "handle"
    PROVE  LET o == loc[w].order
           IN  /\ o \in Orders
               /\ loc[w].cat[1] = "product" /\ loc[w].cat[2] = "member" =>
                     DaysOf(o, Mine(w)) = OrderDays(o)
               /\ loc[w].cat[1] = "product" /\ loc[w].cat[2] = "credit" =>
                     FirstOf(o, Mine(w)).attr = OrderCredits(o)
               /\ loc[w].cat[1] = "product" /\ loc[w].cat[2] = "project" =>
                     {Items[o][i].attr : i \in Mine(w)} = ProjectsOf(o)
<1>1. loc[w].order \in Orders /\ loc[w].cat = <<loc[w].cat[1], loc[w].cat[2]>>
  BY MineType DEF MarketingInv
<1>2. Mine(w) = ItemsIn(loc[w].order, loc[w].cat)
  BY DEF Mine
<1>3. \A a, b : loc[w].cat[1] = a /\ loc[w].cat[2] = b => Mine(w) = ItemsIn(loc[w].order, <<a, b>>)
  BY <1>1, <1>2
<1> QED
  BY <1>1, <1>3, Zenon DEF OrderDays, OrderCredits, ProjectsOf

\* Who sends what.
Sends(w, e) ==
    LET o == loc[w].order
        u == loc[w].uid
    IN  \/ HandleProductMember(w) /\ e = MemberEvent(<<"order", o>>, Buyer[o], DaysOf(o, Mine(w)))
        \/ HandleProductCredit(w) /\ e = CreditEvent(<<"incr", o>>, Buyer[o], FirstOf(o, Mine(w)).attr)
        \/ HandleProductProject(w) /\ e = PermissionEvent(Buyer[o], {Items[o][i].attr : i \in Mine(w)})
        \/ HandleProductService(w) /\ e = RobotEvent(o)
        \/ Redeem(w) /\ e = RedeemEvent(w)
        \/ AwardRegistrationBonus(w) /\ e = MemberEvent(<<"registration", u>>, u, 7)
        \/ AwardInvitationBonus(w) /\ e = CreditEvent(RewardKey(w), invitation[InvitedBy[u]], 500)

\* Everything that a goroutine sends is explained.
LEMMA SentExplained ==
    ASSUME MarketingInv, NEW w \in Workers, NEW evt, Sends(w, evt)
    PROVE  Explained(evt)
<1> DEFINE o == loc[w].order
<1>1. ASSUME HandleProductMember(w), evt = MemberEvent(<<"order", o>>, Buyer[o], DaysOf(o, Mine(w)))
      PROVE  Explained(evt)
  <2>1. pc[w] = "handle" /\ loc[w].cat[1] = "product" /\ loc[w].cat[2] = "member"
    BY <1>1 DEF HandleProductMember, Handling
  <2>2. o \in Orders /\ DaysOf(o, Mine(w)) = OrderDays(o)
    BY <2>1, OrderEvents
  <2> QED
    BY <1>1, <2>2 DEF Explained, ByOrder
<1>2. ASSUME HandleProductCredit(w), evt = CreditEvent(<<"incr", o>>, Buyer[o], FirstOf(o, Mine(w)).attr)
      PROVE  Explained(evt)
  <2>1. pc[w] = "handle" /\ loc[w].cat[1] = "product" /\ loc[w].cat[2] = "credit"
    BY <1>2 DEF HandleProductCredit, Handling
  <2>2. o \in Orders /\ FirstOf(o, Mine(w)).attr = OrderCredits(o)
    BY <2>1, OrderEvents
  <2> QED
    BY <1>2, <2>2 DEF Explained, ByOrder
<1>3. ASSUME HandleProductProject(w), evt = PermissionEvent(Buyer[o], {Items[o][i].attr : i \in Mine(w)})
      PROVE  Explained(evt)
  <2>1. pc[w] = "handle" /\ loc[w].cat[1] = "product" /\ loc[w].cat[2] = "project"
    BY <1>3 DEF HandleProductProject, Handling
  <2>2. o \in Orders /\ {Items[o][i].attr : i \in Mine(w)} = ProjectsOf(o)
    BY <2>1, OrderEvents
  <2>3. evt = PermissionEvent(Buyer[o], ProjectsOf(o))
    BY <1>3, <2>2, Zenon
  <2> QED
    BY <2>2, <2>3 DEF Explained, ByOrder
<1>4. ASSUME HandleProductService(w), evt = RobotEvent(o)
      PROVE  Explained(evt)
  <2>1. o \in Orders
    BY <1>4, OrderEvents DEF HandleProductService, Handling
  <2> QED
    BY <1>4, <2>1 DEF Explained, ByOrder
<1>5. ASSUME Redeem(w), evt = RedeemEvent(w)
      PROVE  Explained(evt)
  <2> DEFINE c == loc[w].code
  <2>1. c \in Codes /\ redeemLog[c] = loc[w].uid /\ loc[w].uid \in Users
    BY <1>5 DEF Redeem, MarketingInv, GoroutinesInv, WorksOn
  <2>2. redeemLog[c] # NoRow /\ codes[c].type \in {"member", "project"}
    BY <2>1, MarketingAssumption DEF MarketingInv, TablesInv, RedeemedAreRows, CodesOfTwoTypes
  <2>3. ByCode(evt, c)
    BY <1>5, <2>1, <2>2 DEF ByCode, RedeemEvent, Redeemer
  <2> QED
    BY <2>1, <2>3 DEF Explained
<1>6. ASSUME AwardRegistrationBonus(w), evt = MemberEvent(<<"registration", loc[w].uid>>, loc[w].uid, 7)
      PROVE  Explained(evt)
  BY <1>6 DEF AwardRegistrationBonus, MarketingInv, GoroutinesInv, WorksOn, Explained, ByRegistration
<1>7. ASSUME AwardInvitationBonus(w), evt = CreditEvent(RewardKey(w), invitation[InvitedBy[loc[w].uid]], 500)
      PROVE  Explained(evt)
  <2>1. loc[w].uid \in Newcomers /\ ByInvitation(evt, loc[w].uid)
    BY <1>7 DEF AwardInvitationBonus, MarketingInv, GoroutinesInv, WorksOn, ByInvitation, RewardKey
  <2> QED
    BY <2>1 DEF Explained
<1> QED
  BY <1>1, <1>2, <1>3, <1>4, <1>5, <1>6, <1>7 DEF Sends

LEMMA NewEvents ==
    ASSUME [Next]_vars, NEW e \in sent', e \notin sent
    PROVE  \E w \in Workers : Sends(w, e)
<1>1. ASSUME NEW w \in Workers, NEW evt, NEW label, NEW l, Produce(w, evt, label, l)
      PROVE  e = evt
  BY <1>1 DEF Produce
<1>2. ASSUME NEW w \in Workers, Step(w)
      PROVE  Sends(w, e)
  <2>1. CASE HandleProductMember(w)
    BY <1>1, <2>1 DEF HandleProductMember, Sends
  <2>2. CASE HandleProductCredit(w)
    BY <1>1, <2>2 DEF HandleProductCredit, Sends
  <2>3. CASE HandleProductProject(w)
    BY <1>1, <2>3, Zenon DEF HandleProductProject, Sends
  <2>4. CASE HandleProductService(w)
    BY <1>1, <2>4 DEF HandleProductService, Sends
  <2>5. CASE Redeem(w)
    BY <1>1, <2>5 DEF Redeem, Sends
  <2>6. CASE AwardRegistrationBonus(w)
    BY <1>1, <2>6, Zenon DEF AwardRegistrationBonus, Sends
  <2>7. CASE AwardInvitationBonus(w)
    BY <1>1, <2>7 DEF AwardInvitationBonus, Sends
  <2>8. \/ HandleProductMember(w) \/ HandleProductCredit(w) \/ HandleProductProject(w)
        \/ HandleProductService(w) \/ Redeem(w) \/ AwardRegistrationBonus(w)
        \/ AwardInvitationBonus(w) \/ UNCHANGED sent
    BY <1>2 DEF Step, HandleOrder, HandleRedeem, HandleRegistration, Execute, HandleCode,
                RedeemRefused, RedeemMark, InvitationCodeNotFound, SelectInvitationRecord,
                InsertInvitationRecord, InvitationRecordRefused,
                CreateInvitationCode, Tables, History
  <2> QED
    BY <2>1, <2>2, <2>3, <2>4, <2>5, <2>6, <2>7, <2>8
<1>3. \/ \E w \in Workers : Step(w)
      \/ UNCHANGED sent
  BY DEF Next, ConsumeOrderEvent, RedeemRedemptionCode, GenerateRedemptionCodes,
         GenerateInvitationCode, ConsumeRegistrationEvent, Start, CacheExpires, Receive, vars
<1> QED
  BY <1>2, <1>3

LEMMA EventsNext ==
    ASSUME MarketingInv, EventsInv, [Next]_vars
    PROVE  EventsInv'
<1>1. RowsStay
  BY InvNext
<1>2. ASSUME NEW e \in sent'
      PROVE  Explained(e)'
  <2>1. Explained(e)
    BY <1>2, NewEvents, SentExplained DEF EventsInv
  <2> QED
    BY <1>1, <2>1, ExplainedStays
<1> QED
  BY <1>2 DEF EventsInv

\* Two events about the same thing are the same event.
LEMMA KeyDetermines ==
    ASSUME EventsInv, NEW e \in sent, NEW f \in sent,
           e.topic \in {"member", "credit"}, f.topic = e.topic, f.key = e.key
    PROVE  f = e
<1>1. Explained(e) /\ Explained(f)
  BY DEF EventsInv
<1>2. ASSUME NEW g, Explained(g), g.topic \in {"member", "credit"}
      PROVE  \/ \E o \in Orders : g = MemberEvent(<<"order", o>>, Buyer[o], OrderDays(o))
             \/ \E o \in Orders : g = CreditEvent(<<"incr", o>>, Buyer[o], OrderCredits(o))
             \/ \E c \in Codes : g = MemberEvent(<<"code", c>>, redeemLog[c], codes[c].attr)
             \/ \E u \in Newcomers : ByRegistration(g, u)
             \/ \E u \in Newcomers : ByInvitation(g, u)
  <2>1. ASSUME NEW u, NEW p
        PROVE  PermissionEvent(u, p).topic = "permission" /\ RobotEvent(u).topic = "robot"
    BY DEF PermissionEvent, RobotEvent
  <2> QED
    BY <1>2, <2>1 DEF Explained, ByOrder, ByCode
<1> DEFINE EventFor(kind, x) ==
             IF kind = "order" THEN MemberEvent(<<"order", x>>, Buyer[x], OrderDays(x))
             ELSE IF kind = "incr" THEN CreditEvent(<<"incr", x>>, Buyer[x], OrderCredits(x))
             ELSE IF kind = "code" THEN MemberEvent(<<"code", x>>, redeemLog[x], codes[x].attr)
             ELSE IF kind = "registration" THEN MemberEvent(<<"registration", x>>, x, 7)
             ELSE CreditEvent(<<"invitee", x>>, invitation[InvitedBy[x]], 500)
<1>3. ASSUME NEW kind, NEW x, NEW u, NEW n
      PROVE  /\ MemberEvent(<<kind, x>>, u, n).key = <<kind, x>>
             /\ CreditEvent(<<kind, x>>, u, n).key = <<kind, x>>
  BY DEF MemberEvent, CreditEvent
<1>4. ASSUME NEW g, Explained(g), g.topic \in {"member", "credit"}
      PROVE  \E kind, x : g = EventFor(kind, x) /\ g.key = <<kind, x>>
  <2>1. CASE \E o \in Orders : g = MemberEvent(<<"order", o>>, Buyer[o], OrderDays(o))
    <3>1. PICK o \in Orders : g = MemberEvent(<<"order", o>>, Buyer[o], OrderDays(o))
      BY <2>1
    <3>2. g = EventFor("order", o) /\ g.key = <<"order", o>>
      BY <1>3, <3>1
    <3> QED
      BY <3>2
  <2>2. CASE \E o \in Orders : g = CreditEvent(<<"incr", o>>, Buyer[o], OrderCredits(o))
    <3>1. PICK o \in Orders : g = CreditEvent(<<"incr", o>>, Buyer[o], OrderCredits(o))
      BY <2>2
    <3>2. g = EventFor("incr", o) /\ g.key = <<"incr", o>>
      BY <1>3, <3>1
    <3> QED
      BY <3>2
  <2>3. CASE \E c \in Codes : g = MemberEvent(<<"code", c>>, redeemLog[c], codes[c].attr)
    <3>1. PICK c \in Codes : g = MemberEvent(<<"code", c>>, redeemLog[c], codes[c].attr)
      BY <2>3
    <3>2. g = EventFor("code", c) /\ g.key = <<"code", c>>
      BY <1>3, <3>1
    <3> QED
      BY <3>2, ZenonT(60)
  <2>4. CASE \E u \in Newcomers : ByRegistration(g, u)
    <3>1. PICK u \in Newcomers : g = MemberEvent(<<"registration", u>>, u, 7)
      BY <2>4 DEF ByRegistration
    <3>2. g = EventFor("registration", u) /\ g.key = <<"registration", u>>
      BY <1>3, <3>1
    <3> QED
      BY <3>2, ZenonT(60)
  <2>5. CASE \E u \in Newcomers : ByInvitation(g, u)
    <3>1. PICK u \in Newcomers : g = CreditEvent(<<"invitee", u>>, invitation[InvitedBy[u]], 500)
      BY <2>5 DEF ByInvitation
    <3>2. g = EventFor("invitee", u) /\ g.key = <<"invitee", u>>
      BY <1>3, <3>1
    <3> QED
      BY <3>2, ZenonT(60)
  <2> QED
    BY <1>2, <1>4, <2>1, <2>2, <2>3, <2>4, <2>5, Zenon
<1> HIDE DEF EventFor
<1>5. ASSUME NEW g, Explained(g), g.topic \in {"member", "credit"}
      PROVE  g = EventFor(g.key[1], g.key[2])
  BY <1>4, <1>5
<1> QED
  BY <1>1, <1>5

-----------------------------------------------------------------------------
(***************************************************************************)
(* Codes.  An order has codes of a type only when GenerateLog has a row    *)
(* for as many as were bought; and the codes are all there, as long as     *)
(* there are ids, when no other item of the order is for the same number.  *)
(***************************************************************************)
CodeTypes == {"member", "project"}

\* No order is for as many codes of one type as of the other.
CountsApart ==
    \A o \in Orders : CodesBought[o]["member"] = CodesBought[o]["project"] =>
                         CodesBought[o]["member"] = 0

AllCodes(o, type) ==
    FreeCodes # {} /\ <<o, CodesBought[o][type]>> \in generateLog =>
        Cardinality(CodesOf(o, type)) = CodesBought[o][type]

CodesInv ==
    \A o \in Orders, type \in CodeTypes :
        /\ Cardinality(CodesOf(o, type)) <= CodesBought[o][type]
        /\ CodesOf(o, type) # {} => <<o, CodesBought[o][type]>> \in generateLog
        /\ CountsApart => AllCodes(o, type)

LEMMA BoughtType ==
    ASSUME NEW o \in Orders, NEW type \in CodeTypes
    PROVE  /\ CodesBought[o][type] = Quantity(o, ItemsIn(o, <<"code", type>>))
           /\ CodesBought[o][type] \in Nat
<1>1. CodesBought[o][type] = Quantity(o, ItemsIn(o, <<"code", type>>))
  BY DEF CodesBought, CodeTypes
<1>2. ItemsIn(o, <<"code", type>>) \in SUBSET DOMAIN Items[o]
  BY DEF ItemsIn
<1> QED
  BY <1>1, <1>2, QuantityType

LEMMA CodesOfFinite ==
    ASSUME NEW o, NEW type
    PROVE  /\ IsFiniteSet(CodesOf(o, type)) /\ Cardinality(CodesOf(o, type)) \in Nat
           /\ Cardinality(CodesOf(o, type)) = 0 <=> CodesOf(o, type) = {}
<1>1. IsFiniteSet(Codes)
  BY MarketingAssumption, FS_Interval DEF Codes
<1>2. CodesOf(o, type) \in SUBSET Codes
  BY DEF CodesOf
<1> QED
  BY <1>1, <1>2, FS_Subset, FS_CardinalityType, FS_EmptySet

\* A free id was free before.
LEMMA FreeBefore ==
    ASSUME RowsStay, FreeCodes' # {}
    PROVE  FreeCodes # {}
BY DEF RowsStay, FreeCodes, Codes

\* Rows of others do not matter.
LEMMA CodesUntouched ==
    ASSUME CodesInv, RowsStay, NEW o \in Orders, NEW type \in CodeTypes,
           CodesOf(o, type)' = CodesOf(o, type),
           <<o, CodesBought[o][type]>> \in generateLog' => <<o, CodesBought[o][type]>> \in generateLog
    PROVE  /\ Cardinality(CodesOf(o, type)') <= CodesBought[o][type]
           /\ CodesOf(o, type)' # {} => <<o, CodesBought[o][type]>> \in generateLog'
           /\ CountsApart => AllCodes(o, type)'
<1>1. Cardinality(CodesOf(o, type)') = Cardinality(CodesOf(o, type))
  OBVIOUS
<1>2. generateLog \subseteq generateLog'
  BY DEF RowsStay
<1>3. CountsApart => AllCodes(o, type)
  BY DEF CodesInv
<1>4. CountsApart => AllCodes(o, type)'
  BY <1>1, <1>3, FreeBefore DEF AllCodes, CodesBought
<1> QED
  BY <1>1, <1>2, <1>4 DEF CodesInv

\* What a request for codes does to the codes of an order.
LEMMA CodesAdded ==
    ASSUME MarketingInv, RowsStay, CodesInv,
           NEW biz \in Bizs, NEW n \in Nat, NEW rows \in [1 .. n -> CodeRow], NEW t \in CodeTypes,
           \A k \in 1 .. n : rows[k].biz = biz /\ rows[k].type = t,
           biz \in Orders => n = CodesBought[biz][t],
           CreateRedemptionCodes(biz, rows)
    PROVE  CodesInv'
<1>1. PICK m \in 0 .. MaxCodes : TakenUpto(m)
  BY DEF MarketingInv, TablesInv
<1>2. codes \in [Codes -> CodeRow \cup {NoRow}]
  BY DEF MarketingInv, TablesInv
<1>3. CASE Repeated(biz, n)
  <2>1. \A o \in Orders, type \in CodeTypes : CodesOf(o, type)' = CodesOf(o, type)
    BY <1>3 DEF CodesOf, Codes, Repeated
  <2> QED
    BY <1>3, <2>1, CodesUntouched DEF Repeated, CodesInv, CodesBought, Quantity, ItemsIn, CategoryOf
<1>4. CASE \E k \in m .. MaxCodes : AddedUpto(biz, n, rows, m, k)
  <2>0. PICK k \in m .. MaxCodes : AddedUpto(biz, n, rows, m, k)
    BY <1>4
  <2>1. /\ TakenUpto(k)'
        /\ k <= m + n
        /\ k < MaxCodes => k = m + n
        /\ \A c \in Codes : c <= m => codes'[c] = codes[c]
        /\ \A c \in m + 1 .. k : c - m \in 1 .. n /\ codes'[c] = rows[c - m]
        /\ <<biz, n>> \notin generateLog
        /\ generateLog' = generateLog \cup {<<biz, n>>}
    BY <2>0 DEF AddedUpto
  <2>2. MaxCodes \in Nat /\ m \in Nat /\ k \in Nat /\ m <= k /\ k <= MaxCodes
    BY MarketingAssumption
  <2>3. \A c \in Codes : codes'[c] # NoRow <=> c <= m \/ c \in m + 1 .. k
    BY <2>1, <2>2 DEF TakenUpto, Codes
  <2>4. \A c \in m + 1 .. k : c \in Codes /\ ~ (c <= m) /\ codes'[c].biz = biz /\ codes'[c].type = t
    BY <2>1, <2>2 DEF Codes
  <2>5. ASSUME NEW o \in Orders, NEW type \in CodeTypes, o # biz \/ type # t
        PROVE  CodesOf(o, type)' = CodesOf(o, type)
    <3>1. \A c \in Codes : /\ codes'[c] # NoRow /\ codes'[c].biz = o /\ codes'[c].type = type
                            <=> codes[c] # NoRow /\ codes[c].biz = o /\ codes[c].type = type
      BY <1>1, <2>1, <2>3, <2>4, <2>5 DEF TakenUpto
    <3> QED
      BY <3>1 DEF CodesOf, Codes
  <2>6. ASSUME biz \in Orders
        PROVE  /\ CodesOf(biz, t) = {}
               /\ CodesOf(biz, t)' = m + 1 .. k
    <3>1. CodesOf(biz, t) = {}
      BY <2>1, <2>6 DEF CodesInv
    <3>2. \A c \in Codes : c <= m => ~ (codes[c].biz = biz /\ codes[c].type = t)
      BY <1>1, <3>1 DEF CodesOf, TakenUpto
    <3>3. \A c \in Codes : /\ codes'[c] # NoRow /\ codes'[c].biz = biz /\ codes'[c].type = t
                            <=> c \in m + 1 .. k
      BY <2>1, <2>3, <2>4, <3>2
    <3>4. CodesOf(biz, t)' = {c \in Codes : c \in m + 1 .. k}
      BY <3>3 DEF CodesOf, Codes
    <3>5. CodesOf(biz, t)' = m + 1 .. k
      BY <2>4, <3>4
    <3> QED
      BY <3>1, <3>5
  <2>7. ASSUME NEW o \in Orders, NEW type \in CodeTypes
        PROVE  /\ Cardinality(CodesOf(o, type)') <= CodesBought[o][type]
               /\ CodesOf(o, type)' # {} => <<o, CodesBought[o][type]>> \in generateLog'
               /\ CountsApart => AllCodes(o, type)'
    <3>1. CASE o = biz /\ type = t
      <4>1. Cardinality(CodesOf(o, type)') = k - m
        <5>1. CodesOf(o, type)' = m + 1 .. k
          BY <2>6, <3>1
        <5>2. Cardinality(m + 1 .. k) = k - m
          BY <2>2, IdsCardinality
        <5> QED
          BY <5>1, <5>2, Zenon
      <4>2. n = CodesBought[o][type]
        BY <3>1
      <4>3. FreeCodes' # {} => k < MaxCodes
        BY <2>1, <2>2 DEF FreeCodes, TakenUpto, Codes
      <4>4. <<o, CodesBought[o][type]>> \in generateLog'
        BY <2>1, <3>1, <4>2
      <4>5. AllCodes(o, type)'
        <5>1. FreeCodes' # {} => k - m = n
          BY <2>1, <2>2, <4>3
        <5>2. FreeCodes' # {} => Cardinality(CodesOf(o, type)') = CodesBought[o][type]
          BY <4>1, <4>2, <5>1
        <5> QED
          BY <5>2 DEF AllCodes, CodesBought
      <4> QED
        BY <2>1, <2>2, <4>1, <4>2, <4>4, <4>5
    <3>2. CASE o # biz
      <4>1. CodesOf(o, type)' = CodesOf(o, type)
        BY <2>5, <3>2
      <4>2. <<o, CodesBought[o][type]>> \in generateLog' => <<o, CodesBought[o][type]>> \in generateLog
        BY <2>1, <3>2
      <4> QED
        BY <4>1, <4>2, CodesUntouched
    <3>3. CASE o = biz /\ type # t
      <4>1. CodesOf(o, type)' = CodesOf(o, type)
        BY <2>5, <3>3
      <4>2. CASE n # CodesBought[o][type]
        <5>1. <<o, CodesBought[o][type]>> \in generateLog' => <<o, CodesBought[o][type]>> \in generateLog
          BY <2>1, <4>2
        <5> QED
          BY <4>1, <5>1, CodesUntouched
      <4>3. CASE n = CodesBought[o][type]
        <5>1. CountsApart => n = 0
          BY <3>3, <4>3 DEF CountsApart, CodeTypes
        <5>2. Cardinality(CodesOf(o, type)') <= CodesBought[o][type]
          BY <4>1 DEF CodesInv
        <5>3. Cardinality(CodesOf(o, type)') \in Nat
          BY <4>1, CodesOfFinite
        <5>4. CountsApart => AllCodes(o, type)'
          BY <4>3, <5>1, <5>2, <5>3 DEF AllCodes, CodesBought
        <5>5. <<o, CodesBought[o][type]>> \in generateLog'
          BY <2>1, <3>3, <4>3
        <5> QED
          BY <5>2, <5>4, <5>5
      <4> QED
        BY <4>2, <4>3
    <3> QED
      BY <3>1, <3>2, <3>3
  <2> QED
    BY <2>7 DEF CodesInv, CodesBought, Quantity, ItemsIn, CategoryOf
<1> QED
  BY <1>1, <1>2, <1>3, <1>4, CodesCreated

LEMMA CodesNext ==
    ASSUME MarketingInv, CodesInv, [Next]_vars
    PROVE  CodesInv'
<1>0. RowsStay
  BY InvNext
<1>1. ASSUME NEW w \in Workers, GenerateRedemptionCodes(w)
      PROVE  CodesInv'
  <2>1. PICK b \in Batches, type \in {"member", "project"}, n \in 1 .. Cardinality(FreeCodes) :
           CreateRedemptionCodes(b, [k \in 1 .. n |-> [owner |-> 0, biz |-> b, type |-> type,
                                                       attr |-> 1, used |-> FALSE]])
    BY <1>1 DEF GenerateRedemptionCodes
  <2> DEFINE rows == [k \in 1 .. n |-> [owner |-> 0, biz |-> b, type |-> type,
                                        attr |-> 1, used |-> FALSE]]
  <2>2. n \in Nat
    <3>1. IsFiniteSet(Codes)
      BY MarketingAssumption, FS_Interval DEF Codes
    <3>2. Cardinality(FreeCodes) \in Nat
      BY <3>1, FS_Subset, FS_CardinalityType DEF FreeCodes
    <3> QED
      BY <3>2
  <2>3. [owner |-> 0, biz |-> b, type |-> type, attr |-> 1, used |-> FALSE] \in CodeRow
    BY DEF CodeRow, Bizs, Types
  <2>4. /\ rows \in [1 .. n -> CodeRow]
        /\ \A k \in 1 .. n : rows[k].biz = b /\ rows[k].type = type
    BY <2>3
  <2>5. b \in Bizs /\ b \notin Orders /\ type \in CodeTypes
    BY MarketingAssumption DEF Bizs, CodeTypes
  <2> HIDE DEF rows
  <2>6. CreateRedemptionCodes(b, rows)
    BY <2>1 DEF rows
  <2> QED
    BY <1>0, <2>2, <2>4, <2>5, <2>6, CodesAdded
<1>2. ASSUME NEW w \in Workers, HandleCode(w)
      PROVE  CodesInv'
  <2> DEFINE o == loc[w].order
             t == loc[w].cat[2]
             n == Quantity(o, Mine(w))
             rows == CodeRowsOf(o, Mine(w))
  <2>1. /\ pc[w] = "handle" /\ loc[w].cat[1] = "code" /\ t \in CodeTypes
        /\ CreateRedemptionCodes(o, rows)
    BY <1>2 DEF HandleCode, Handling, CodeTypes
  <2>2. /\ o \in Orders /\ Mine(w) \in SUBSET DOMAIN Items[o]
        /\ loc[w].cat = <<"code", t>>
        /\ \A i \in Mine(w) : Items[o][i].cat1 = t
    BY <2>1, MineType DEF MarketingInv
  <2>3. Mine(w) = ItemsIn(o, <<"code", t>>)
    BY <2>2 DEF Mine
  <2>4. n = CodesBought[o][t]
    BY <2>1, <2>2, <2>3, BoughtType
  <2>5. /\ n \in Nat /\ rows \in [1 .. n -> CodeRow]
        /\ \A k \in 1 .. n : rows[k].biz = o /\ rows[k].type = t
    BY <2>2, QuantityType, CodeRowsType
  <2>6. o \in Bizs
    BY <2>2 DEF Bizs
  <2> HIDE DEF o, n, rows, t
  <2> QED
    BY <1>0, <2>1, <2>4, <2>5, <2>6, CodesAdded
<1>3. ASSUME NEW w \in Workers, RedeemMark(w)
      PROVE  CodesInv'
  <2>1. UNCHANGED generateLog
    BY <1>3 DEF RedeemMark
  <2>2. \A c \in Codes : codes'[c] # NoRow => codes[c] # NoRow
    BY <1>3 DEF RedeemMark, SetUnusedRedemptionCodeStatusUsed, Redeemable, MarketingInv, TablesInv
  <2>3. \A o \in Orders, type \in CodeTypes : CodesOf(o, type)' = CodesOf(o, type)
    BY <1>0, <2>2 DEF RowsStay, CodesOf, Codes
  <2> QED
    BY <1>0, <2>1, <2>3, CodesUntouched DEF CodesInv, CodesBought, Quantity, ItemsIn, CategoryOf
<1>4. ASSUME UNCHANGED <<codes, generateLog>>
      PROVE  CodesInv'
  <2>1. \A o \in Orders, type \in CodeTypes : CodesOf(o, type)' = CodesOf(o, type)
    BY <1>4 DEF CodesOf, Codes
  <2> QED
    BY <1>0, <1>4, <2>1, CodesUntouched DEF CodesInv, CodesBought, Quantity, ItemsIn, CategoryOf
<1>5. ASSUME NEW w \in Workers, Step(w)
      PROVE  CodesInv'
  <2>1. HandleCode(w) \/ RedeemMark(w) \/ UNCHANGED <<codes, generateLog>>
    BY <1>5 DEF Step, HandleOrder, HandleRedeem, HandleRegistration, Execute, HandleProductMember,
                HandleProductCredit, HandleProductProject, HandleProductService, Redeem,
                AwardRegistrationBonus, AwardInvitationBonus, Produce, RedeemRefused,
                InvitationCodeNotFound, SelectInvitationRecord, InsertInvitationRecord,
                InvitationRecordRefused, CreateInvitationCode, Tables, History
  <2> QED
    BY <1>2, <1>3, <1>4, <2>1
<1>6. \/ \E w \in Workers : Step(w) \/ GenerateRedemptionCodes(w)
      \/ UNCHANGED <<codes, generateLog>>
  BY DEF Next, ConsumeOrderEvent, RedeemRedemptionCode, GenerateInvitationCode,
         ConsumeRegistrationEvent, Start, CacheExpires, Receive, Tables, History, vars
<1> QED
  BY <1>1, <1>4, <1>5, <1>6

LEMMA EventsInit == Init => EventsInv /\ CodesInv
<1> SUFFICES ASSUME Init PROVE EventsInv /\ CodesInv
  OBVIOUS
<1>1. EventsInv
  BY DEF Init, EventsInv
<1>2. ASSUME NEW o \in Orders, NEW type \in CodeTypes
      PROVE  /\ Cardinality(CodesOf(o, type)) <= CodesBought[o][type]
             /\ CodesOf(o, type) # {} => <<o, CodesBought[o][type]>> \in generateLog
             /\ AllCodes(o, type)
  <2>1. CodesOf(o, type) = {}
    BY DEF Init, CodesOf
  <2>2. Cardinality(CodesOf(o, type)) = 0
    BY <2>1, CodesOfFinite
  <2>3. <<o, CodesBought[o][type]>> \notin generateLog
    BY DEF Init
  <2>4. Cardinality(CodesOf(o, type)) <= CodesBought[o][type]
    <3>1. CodesBought[o][type] \in Nat
      BY BoughtType
    <3> QED
      BY <2>2, <3>1
  <2> QED
    BY <2>1, <2>3, <2>4, Zenon DEF AllCodes
<1> QED
  BY <1>1, <1>2 DEF CodesInv

LEMMA GrantsEarned == EventsInv /\ CodesInv => GrantsAreEarned
<1> SUFFICES ASSUME EventsInv, CodesInv PROVE GrantsAreEarned
  OBVIOUS
<1>1. NoExtraCodes
  BY DEF CodesInv, NoExtraCodes, CodeTypes
<1>2. ASSUME NEW e \in sent
      PROVE  /\ e.topic = "member" => EarnedDays(e)
             /\ e.topic = "credit" => EarnedCredits(e)
             /\ e.topic = "permission" => \A p \in e.ids : EarnedPermission(e.uid, p)
  <2>1. CASE \E o \in Orders : ByOrder(e, o)
    <3>1. PICK o \in Orders : ByOrder(e, o)
      BY <2>1
    <3>2. CASE e = MemberEvent(<<"order", o>>, Buyer[o], OrderDays(o))
      BY <3>2 DEF MemberEvent, EarnedDays, OrderDays
    <3>3. CASE e = CreditEvent(<<"incr", o>>, Buyer[o], OrderCredits(o))
      BY <3>3 DEF CreditEvent, EarnedCredits
    <3>4. CASE e = PermissionEvent(Buyer[o], ProjectsOf(o))
      BY <3>4 DEF PermissionEvent, EarnedPermission
    <3>5. CASE e = RobotEvent(o)
      BY <3>5 DEF RobotEvent
    <3> QED
      BY <3>1, <3>2, <3>3, <3>4, <3>5 DEF ByOrder
  <2>2. CASE \E c \in Codes : ByCode(e, c)
    <3>1. PICK c \in Codes : ByCode(e, c)
      BY <2>2
    <3>2. CASE e = MemberEvent(<<"code", c>>, redeemLog[c], codes[c].attr)
      BY <3>2 DEF MemberEvent, EarnedDays
    <3>3. CASE codes[c].type = "project" /\ e = PermissionEvent(redeemLog[c], {codes[c].attr})
      BY <3>3 DEF PermissionEvent, EarnedPermission
    <3> QED
      BY <3>1, <3>2, <3>3 DEF ByCode
  <2>3. CASE \E u \in Newcomers : ByRegistration(e, u) \/ ByInvitation(e, u)
    BY <2>3 DEF ByRegistration, ByInvitation, MemberEvent, CreditEvent, EarnedDays, EarnedCredits
  <2> QED
    BY <2>1, <2>2, <2>3 DEF EventsInv, Explained
<1> QED
  BY <1>1, <1>2 DEF GrantsAreEarned

\* In every behaviour, whatever is delivered twice, raced for or lost, nothing
\* is given away: every event about days, credits or projects is for an order's
\* buyer, for the one redeemer of a code, for a newcomer or for an inviter, and
\* no order has more codes than were paid for (order.go, redeem.go, user.go).
THEOREM NothingIsGivenAway == Spec => []GrantsAreEarned
<1> DEFINE Inv == MarketingInv /\ EventsInv /\ CodesInv
<1>1. Init => Inv
  BY InitInv, EventsInit
<1>2. Inv /\ [Next]_vars => Inv'
  BY InvNext, EventsNext, CodesNext
<1>3. Inv => GrantsAreEarned
  BY GrantsEarned
<1> QED
  BY <1>1, <1>2, <1>3, PTL DEF Spec

-----------------------------------------------------------------------------
(***************************************************************************)
(* Who is at work.  What is yet to be done is some goroutine's to do, as   *)
(* long as nothing has failed; a goroutine changes its place by steps of   *)
(* its own only.                                                           *)
(***************************************************************************)
LEMMA StepGoes ==
    ASSUME NEW w \in Workers, Step(w)
    PROVE  \E label, l : Goto(w, label, l)
<1>1. ASSUME NEW evt, NEW label, NEW l, Produce(w, evt, label, l)
      PROVE  Goto(w, label, l) \/ Return(w)
  BY <1>1 DEF Produce, GoesOn, Fails
<1>2. ASSUME HandleOrder(w)
      PROVE  \E label, l : Goto(w, label, l)
  <2>1. CASE Execute(w)
    BY <2>1 DEF Execute, Return
  <2>2. CASE HandleCode(w)
    BY <2>2 DEF HandleCode, GoesOn, Fails, Return
  <2>3. CASE HandleProductMember(w)
    BY <1>1, <2>3, Zenon DEF HandleProductMember, Return
  <2>4. CASE HandleProductCredit(w)
    BY <1>1, <2>4, Zenon DEF HandleProductCredit, Return
  <2>5. CASE HandleProductProject(w)
    BY <1>1, <2>5, Zenon DEF HandleProductProject, Return
  <2>6. CASE HandleProductService(w)
    BY <1>1, <2>6, Zenon DEF HandleProductService, Return
  <2> QED
    BY <1>2, <2>1, <2>2, <2>3, <2>4, <2>5, <2>6 DEF HandleOrder
<1>3. ASSUME HandleRedeem(w)
      PROVE  \E label, l : Goto(w, label, l)
  <2>1. CASE RedeemRefused(w)
    BY <2>1 DEF RedeemRefused, Fails, Return
  <2>2. CASE RedeemMark(w)
    BY <2>2 DEF RedeemMark, GoesOn, Fails, Return
  <2>3. CASE Redeem(w)
    BY <1>1, <2>3, Zenon DEF Redeem, Return
  <2> QED
    BY <1>3, <2>1, <2>2, <2>3 DEF HandleRedeem
<1>4. ASSUME HandleRegistration(w)
      PROVE  \E label, l : Goto(w, label, l)
  <2>1. CASE AwardRegistrationBonus(w)
    BY <1>1, <2>1, Zenon DEF AwardRegistrationBonus, Return
  <2>2. CASE InvitationCodeNotFound(w)
    BY <2>2 DEF InvitationCodeNotFound, Fails, Return
  <2>3. CASE HandlesRecord(w)
    BY <2>3 DEF HandlesRecord, SelectInvitationRecord, InsertInvitationRecord,
                InvitationRecordRefused, GoesOn, Fails, Return
  <2>4. CASE AwardInvitationBonus(w)
    BY <1>1, <2>4, ZenonT(60) DEF AwardInvitationBonus, Return
  <2> QED
    BY <1>4, <2>1, <2>2, <2>3, <2>4 DEF HandleRegistration, HandlesRecord
<1>5. ASSUME CreateInvitationCode(w)
      PROVE  \E label, l : Goto(w, label, l)
  BY <1>5 DEF CreateInvitationCode, Return
<1> QED
  BY <1>2, <1>3, <1>4, <1>5 DEF Step

Stays(w) == pc'[w] = pc[w] /\ loc'[w] = loc[w]

LEMMA Moved ==
    ASSUME MarketingInv, [Next]_vars, NEW w \in Workers
    PROVE  Stays(w) \/ pc[w] = "idle" \/ Step(w)
<1>1. ASSUME NEW v \in Workers, NEW label, NEW l, Goto(v, label, l), v # w
      PROVE  Stays(w)
  BY <1>1 DEF Goto, Stays, MarketingInv, GoroutinesInv
<1>2. ASSUME NEW v \in Workers, NEW label, NEW l, Start(v, label, l)
      PROVE  Stays(w) \/ pc[w] = "idle"
  BY <1>2 DEF Start, Stays, MarketingInv, GoroutinesInv
<1>3. ASSUME NEW v \in Workers,
             \/ ConsumeOrderEvent(v) \/ RedeemRedemptionCode(v)
             \/ GenerateInvitationCode(v) \/ ConsumeRegistrationEvent(v)
      PROVE  Stays(w) \/ pc[w] = "idle"
  BY <1>2, <1>3 DEF ConsumeOrderEvent, RedeemRedemptionCode, GenerateInvitationCode, ConsumeRegistrationEvent
<1>4. ASSUME UNCHANGED <<pc, loc>>
      PROVE  Stays(w)
  BY <1>4 DEF Stays
<1>5. ASSUME NEW v \in Workers, Step(v), v # w
      PROVE  Stays(w)
  BY <1>1, <1>5, StepGoes
<1> QED
  BY <1>3, <1>4, <1>5 DEF Next, GenerateRedemptionCodes, CacheExpires, Receive, vars

LEMMA StepAt ==
    ASSUME NEW w \in Workers, Step(w)
    PROVE  /\ pc[w] = "execute" => Execute(w)
           /\ pc[w] = "handle" => \/ HandleProductMember(w) \/ HandleProductCredit(w)
                                  \/ HandleProductProject(w) \/ HandleProductService(w)
                                  \/ HandleCode(w)
           /\ pc[w] = "grant" => Redeem(w)
           /\ pc[w] = "bonus" => AwardRegistrationBonus(w)
           /\ pc[w] = "record" => InvitationCodeNotFound(w) \/ SelectInvitationRecord(w)
           /\ pc[w] = "insert" => InsertInvitationRecord(w) \/ InvitationRecordRefused(w)
           /\ pc[w] = "reward" => AwardInvitationBonus(w)
BY DEF Step, HandleOrder, HandleRedeem, HandleRegistration, Execute, HandleProductMember,
       HandleProductCredit, HandleProductProject, HandleProductService, HandleCode, Handling,
       RedeemRefused, RedeemMark, Redeem, AwardRegistrationBonus, InvitationCodeNotFound,
       SelectInvitationRecord, InsertInvitationRecord, InvitationRecordRefused, AwardInvitationBonus, CreateInvitationCode

\* Without faults, calls do what they are for.
LEMMA NoFaults ==
    ASSUME MarketingInv, [Next]_vars, faults' = 0
    PROVE  /\ faults = 0
           /\ \A w : ~ Fails(w)
           /\ \A w, evt, label, l : Produce(w, evt, label, l) => evt \in sent' /\ Goto(w, label, l)
           /\ \A w, label, l : GoesOn(w, label, l) => Goto(w, label, l)
<1>1. faults \in Nat /\ faults <= faults'
  BY InvNext DEF MarketingInv, TablesInv, RowsStay
<1>2. faults = 0
  BY <1>1
<1>3. \A w : ~ Fails(w)
  BY <1>2 DEF Fails
<1> QED
  BY <1>2, <1>3 DEF Produce, GoesOn

-----------------------------------------------------------------------------
(***************************************************************************)
(* Redeemed codes: the event has been sent, or somebody is about to.       *)
(***************************************************************************)
EventOfCode(c) ==
    IF codes[c].type = "member"
    THEN MemberEvent(<<"code", c>>, redeemLog[c], codes[c].attr)
    ELSE PermissionEvent(redeemLog[c], {codes[c].attr})

Granting(w, c) == pc[w] = "grant" /\ loc[w].code = c

RedeemInv ==
    faults = 0 =>
        \A c \in Codes : redeemLog[c] # NoRow =>
            EventOfCode(c) \in sent \/ \E w \in Workers : Granting(w, c)

LEMMA RedeemLogChanges ==
    ASSUME MarketingInv, [Next]_vars, NEW c \in Codes, redeemLog'[c] # redeemLog[c]
    PROVE  \E w \in Workers : RedeemMark(w) /\ loc[w].code = c
<1>1. ASSUME NEW w \in Workers, RedeemMark(w)
      PROVE  loc[w].code = c
  BY <1>1 DEF RedeemMark, SetUnusedRedemptionCodeStatusUsed, MarketingInv, TablesInv
<1>2. ASSUME NEW w \in Workers, Step(w)
      PROVE  RedeemMark(w)
  BY <1>2 DEF Step, HandleOrder, HandleRedeem, HandleRegistration, Execute, HandleProductMember,
              HandleProductCredit, HandleProductProject, HandleProductService, Redeem, HandleCode,
              AwardRegistrationBonus, AwardInvitationBonus, Produce, RedeemRefused,
              InvitationCodeNotFound, SelectInvitationRecord, InsertInvitationRecord,
              InvitationRecordRefused, CreateInvitationCode, Tables, History
<1>3. \E w \in Workers : Step(w)
  BY DEF Next, ConsumeOrderEvent, RedeemRedemptionCode, GenerateInvitationCode,
         GenerateRedemptionCodes, ConsumeRegistrationEvent, Start, CacheExpires, Receive, Tables, History, vars
<1> QED
  BY <1>1, <1>2, <1>3

LEMMA RedeemNext ==
    ASSUME MarketingInv, RedeemInv, [Next]_vars
    PROVE  RedeemInv'
<1> SUFFICES ASSUME faults' = 0, NEW c \in Codes, redeemLog'[c] # NoRow
             PROVE  EventOfCode(c)' \in sent' \/ \E w \in Workers : Granting(w, c)'
  BY DEF RedeemInv, Codes
<1>0. RowsStay /\ MarketingInv'
  BY InvNext
<1>1. faults = 0
  BY NoFaults
<1>2. CASE redeemLog[c] = NoRow
  <2>1. PICK w \in Workers : RedeemMark(w) /\ loc[w].code = c
    BY <1>2, RedeemLogChanges
  <2>2. Goto(w, "grant", loc[w])
    BY <2>1, NoFaults DEF RedeemMark
  <2>3. Granting(w, c)'
    BY <2>1, <2>2 DEF Goto, Granting, MarketingInv, GoroutinesInv
  <2> QED
    BY <2>3
<1>3. CASE redeemLog[c] # NoRow
  <2>1. EventOfCode(c)' = EventOfCode(c)
    <3>1. redeemLog'[c] = redeemLog[c] /\ codes[c] # NoRow
      BY <1>0, <1>3 DEF RowsStay, MarketingInv, TablesInv, RedeemedAreRows
    <3>2. codes'[c].type = codes[c].type /\ codes'[c].attr = codes[c].attr
      BY <1>0, <3>1 DEF RowsStay
    <3> QED
      BY <3>1, <3>2 DEF EventOfCode
  <2>2. CASE EventOfCode(c) \in sent
    BY <1>0, <2>1, <2>2 DEF RowsStay
  <2>3. CASE \E w \in Workers : Granting(w, c)
    <3>1. PICK w \in Workers : Granting(w, c)
      BY <2>3
    <3>2. CASE Stays(w)
      BY <3>1, <3>2 DEF Stays, Granting
    <3>3. CASE Step(w)
      <4>1. Redeem(w)
        BY <3>1, <3>3, StepAt DEF Granting
      <4>2. RedeemEvent(w) \in sent'
        BY <4>1, NoFaults DEF Redeem
      <4>3. redeemLog[c] = loc[w].uid
        BY <3>1 DEF Granting, MarketingInv, GoroutinesInv, WorksOn
      <4>4. RedeemEvent(w) = EventOfCode(c)
        BY <3>1, <4>3 DEF Granting, RedeemEvent, EventOfCode, Redeemer
      <4> QED
        BY <2>1, <4>2, <4>4
    <3> QED
      BY <3>1, <3>2, <3>3, Moved DEF Granting
  <2> QED
    BY <1>1, <1>3, <2>2, <2>3 DEF RedeemInv
<1> QED
  BY <1>2, <1>3

\* At rest, everything that counts a key has counted what was sent.
LEMMA AllReceived ==
    ASSUME AtRest, MarketingInv, EventsInv, NEW e \in sent
    PROVE  e \in received
<1>1. CASE e \in sent \ received
  <2>1. e.topic \in {"member", "credit"} /\ \E r \in received : r.topic = e.topic /\ r.key = e.key
    BY <1>1 DEF AtRest, Counted
  <2>2. PICK r \in received : r.topic = e.topic /\ r.key = e.key
    BY <2>1
  <2>3. r \in sent
    BY DEF MarketingInv, TablesInv
  <2>4. r = e
    BY <2>1, <2>2, <2>3, KeyDetermines
  <2> QED
    BY <2>4
<1> QED
  BY <1>1

LEMMA RedeemedGranted == MarketingInv /\ EventsInv /\ RedeemInv => RedeemedIsGranted
<1> SUFFICES ASSUME MarketingInv, EventsInv, RedeemInv, AtRest, faults = 0,
                    NEW c \in Codes, redeemLog[c] # NoRow
             PROVE  Benefits(redeemLog[c], c)
  BY DEF RedeemedIsGranted
<1>1. EventOfCode(c) \in sent
  BY DEF RedeemInv, AtRest, Granting
<1>2. EventOfCode(c) \in received
  BY <1>1, AllReceived
<1>3. CASE codes[c].type = "member"
  BY <1>2, <1>3 DEF EventOfCode, Benefits, Received, MemberEvent
<1>4. CASE codes[c].type # "member"
  <2>1. PermissionEvent(redeemLog[c], {codes[c].attr}) \in received
    BY <1>2, <1>4 DEF EventOfCode
  <2>2. Permitted(redeemLog[c], codes[c].attr)
    BY <2>1 DEF Permitted, PermissionEvent
  <2> QED
    BY <1>4, <2>2 DEF Benefits
<1> QED
  BY <1>3, <1>4

\* In every behaviour, when nothing has failed and everybody has finished, each
\* redeemed code has benefited its redeemer: no other code, order or retry of
\* the same user swallows the event (RedeemRedemptionCode, service.go; the
\* consumers of member and permission).
THEOREM CodesBenefit == Spec => []RedeemedIsGranted
<1> DEFINE Inv == MarketingInv /\ EventsInv /\ CodesInv /\ RedeemInv
<1>1. Init => Inv
  <2>1. Init => RedeemInv
    BY DEF Init, RedeemInv
  <2> QED
    BY <2>1, InitInv, EventsInit
<1>2. Inv /\ [Next]_vars => Inv'
  BY InvNext, EventsNext, CodesNext, RedeemNext
<1>3. Inv => RedeemedIsGranted
  BY RedeemedGranted
<1> QED
  BY <1>1, <1>2, <1>3, PTL DEF Spec

-----------------------------------------------------------------------------
(***************************************************************************)
(* Registrations: who has been registered with somebody's code has had its *)
(* inviter rewarded, or a goroutine is about to do it, or its record met   *)
(* another's with the same code.  A record is kept by somebody whose       *)
(* inviter is rewarded.                                                    *)
(***************************************************************************)
RegistrationEvent(u) == MemberEvent(<<"registration", u>>, u, 7)

Rewarded(u) == \E e \in sent : e.topic = "credit" /\ e.key = <<"invitee", u>>

OnTheWay == {"record", "insert", "reward"}

Rewarding(w, u) == pc[w] \in OnTheWay /\ loc[w].uid = u

Awarding(w, u) == pc[w] = "reward" /\ loc[w].uid = u

RewardedSoon(u) == Rewarded(u) \/ \E w \in Workers : Awarding(w, u)

RewardInv ==
    /\ \A w \in Workers : pc[w] \in OnTheWay => RegistrationEvent(loc[w].uid) \in sent
    /\ \A u \in Newcomers : Rewarded(u) => RegistrationEvent(u) \in sent
    /\ faults = 0 =>
          \A u \in Newcomers : InvitedBy[u] \in Invitations /\ RegistrationEvent(u) \in sent =>
              Rewarded(u) \/ u \in raced \/ \E w \in Workers : Rewarding(w, u)

RecordsInv ==
    /\ \A n \in DOMAIN invited : invited[n].code = InvitedBy[invited[n].invitee]
    /\ faults = 0 => \A n \in DOMAIN invited : RewardedSoon(invited[n].invitee)
    /\ \A u \in raced : \E n \in DOMAIN invited : invited[n].code = InvitedBy[u]

\* How a goroutine comes to reward an inviter.
LEMMA RewardingBegins ==
    ASSUME MarketingInv, [Next]_vars, NEW w \in Workers, pc'[w] \in OnTheWay
    PROVE  \/ Stays(w) \/ AwardRegistrationBonus(w)
           \/ SelectInvitationRecord(w) \/ InsertInvitationRecord(w)
<1>1. pc \in [Workers -> Labels]
  BY DEF MarketingInv, GoroutinesInv
<1>2. ASSUME NEW v \in Workers, NEW label \in {"execute", "redeem", "invite", "bonus"}, NEW l,
             Start(v, label, l)
      PROVE  Stays(w)
  BY <1>1, <1>2 DEF Start, Stays, OnTheWay, MarketingInv, GoroutinesInv
<1>3. ASSUME NEW v \in Workers,
             \/ ConsumeOrderEvent(v) \/ RedeemRedemptionCode(v)
             \/ GenerateInvitationCode(v) \/ ConsumeRegistrationEvent(v)
      PROVE  Stays(w)
  BY <1>2, <1>3 DEF ConsumeOrderEvent, RedeemRedemptionCode, GenerateInvitationCode, ConsumeRegistrationEvent
<1>4. ASSUME NEW v \in Workers, NEW label \in {"idle", "execute", "handle", "grant"}, NEW l,
             Goto(v, label, l)
      PROVE  Stays(w)
  BY <1>1, <1>4 DEF Goto, Stays, OnTheWay, MarketingInv, GoroutinesInv
<1>5. ASSUME NEW v \in Workers, HandleOrder(v) \/ HandleRedeem(v) \/ CreateInvitationCode(v)
      PROVE  \E label \in {"idle", "execute", "handle", "grant"} : \E l : Goto(v, label, l)
  BY <1>5 DEF HandleOrder, Execute, HandleProductMember, HandleProductCredit, HandleProductProject,
              HandleProductService, HandleCode, HandleRedeem, RedeemRefused, RedeemMark, Redeem,
              CreateInvitationCode, Produce, GoesOn, Fails, Return
<1>6. ASSUME NEW v \in Workers,
             InvitationCodeNotFound(v) \/ InvitationRecordRefused(v) \/ AwardInvitationBonus(v)
      PROVE  \E label \in {"idle", "execute", "handle", "grant"} : \E l : Goto(v, label, l)
  BY <1>6 DEF InvitationCodeNotFound, InvitationRecordRefused, AwardInvitationBonus, Produce,
              GoesOn, Fails, Return
<1>7. ASSUME NEW v \in Workers, v # w,
             AwardRegistrationBonus(v) \/ SelectInvitationRecord(v) \/ InsertInvitationRecord(v)
      PROVE  Stays(w)
  <2>1. \E label, l : Goto(v, label, l)
    BY <1>7, StepGoes DEF Step, HandleRegistration
  <2> QED
    BY <1>7, <2>1 DEF Goto, Stays, MarketingInv, GoroutinesInv
<1>8. ASSUME NEW v \in Workers, Step(v)
      PROVE  \/ Stays(w) \/ AwardRegistrationBonus(w)
             \/ SelectInvitationRecord(w) \/ InsertInvitationRecord(w)
  BY <1>4, <1>5, <1>6, <1>7, <1>8 DEF Step, HandleRegistration
<1>9. ASSUME UNCHANGED <<pc, loc>>
      PROVE  Stays(w)
  BY <1>9 DEF Stays
<1> QED
  BY <1>3, <1>8, <1>9 DEF Next, GenerateRedemptionCodes, CacheExpires, Receive, vars

\* Who sends the two events of a registration.
LEMMA SendsRegistration ==
    ASSUME MarketingInv, NEW w \in Workers, NEW u
    PROVE  /\ Sends(w, RegistrationEvent(u)) => AwardRegistrationBonus(w) /\ loc[w].uid = u
           /\ \A e : Sends(w, e) /\ e.topic = "credit" /\ e.key = <<"invitee", u>> =>
                 AwardInvitationBonus(w) /\ loc[w].uid = u
<1>1. ASSUME NEW k1, NEW k2, NEW x, NEW y, <<k1, x>> = <<k2, y>>
      PROVE  k1 = k2 /\ x = y
  BY <1>1
<1>2. ASSUME Sends(w, RegistrationEvent(u))
      PROVE  AwardRegistrationBonus(w) /\ loc[w].uid = u
  <2>1. RegistrationEvent(u).topic = "member" /\ RegistrationEvent(u).key = <<"registration", u>>
    BY DEF RegistrationEvent, MemberEvent
  <2> QED
    BY <1>2, <2>1 DEF Sends, MemberEvent, CreditEvent, PermissionEvent, RobotEvent, RedeemEvent
<1>3. ASSUME NEW e, Sends(w, e), e.topic = "credit", e.key = <<"invitee", u>>
      PROVE  AwardInvitationBonus(w) /\ loc[w].uid = u
  BY <1>3 DEF Sends, MemberEvent, CreditEvent, PermissionEvent, RobotEvent, RedeemEvent, RewardKey
<1> QED
  BY <1>2, <1>3

\* Who is rewarded stays so, and a reward about to be sent is sent.
LEMMA RewardedStays ==
    ASSUME MarketingInv, [Next]_vars, faults' = 0, NEW u, RewardedSoon(u)
    PROVE  RewardedSoon(u)'
<1>0. sent \subseteq sent'
  BY InvNext DEF RowsStay
<1>1. CASE Rewarded(u)
  BY <1>0, <1>1 DEF Rewarded, RewardedSoon
<1>2. ASSUME NEW w \in Workers, Awarding(w, u)
      PROVE  RewardedSoon(u)'
  <2>1. CASE Stays(w)
    BY <1>2, <2>1 DEF Stays, Awarding, RewardedSoon
  <2>2. CASE Step(w)
    <3>1. AwardInvitationBonus(w)
      BY <1>2, <2>2, StepAt DEF Awarding
    <3>2. CreditEvent(RewardKey(w), invitation[InvitedBy[loc[w].uid]], 500) \in sent'
      BY <3>1, NoFaults DEF AwardInvitationBonus
    <3>3. Rewarded(u)'
      BY <1>2, <3>2 DEF Rewarded, Awarding, RewardKey, CreditEvent
    <3> QED
      BY <3>3 DEF RewardedSoon
  <2> QED
    BY <1>2, <2>1, <2>2, Moved DEF Awarding
<1> QED
  BY <1>1, <1>2 DEF RewardedSoon

LEMMA RecordsChange ==
    ASSUME [Next]_vars
    PROVE  \/ UNCHANGED <<invited, raced>>
           \/ \E w \in Workers : InsertInvitationRecord(w) \/ InvitationRecordRefused(w)
<1>1. ASSUME NEW w \in Workers, Step(w)
      PROVE  \/ UNCHANGED <<invited, raced>>
             \/ InsertInvitationRecord(w) \/ InvitationRecordRefused(w)
  BY <1>1 DEF Step, HandleOrder, HandleRedeem, HandleRegistration, Execute, HandleProductMember,
              HandleProductCredit, HandleProductProject, HandleProductService, HandleCode, Redeem,
              AwardRegistrationBonus, AwardInvitationBonus, Produce, RedeemRefused, RedeemMark,
              InvitationCodeNotFound, SelectInvitationRecord, CreateInvitationCode, Tables, History
<1>2. \/ \E w \in Workers : Step(w)
      \/ UNCHANGED <<invited, raced>>
  BY DEF Next, ConsumeOrderEvent, RedeemRedemptionCode, GenerateRedemptionCodes,
         GenerateInvitationCode, ConsumeRegistrationEvent, Start, CacheExpires, Receive, vars,
         Tables, History
<1> QED
  BY <1>1, <1>2

LEMMA RecordsNext ==
    ASSUME MarketingInv, RecordsInv, [Next]_vars
    PROVE  RecordsInv'
<1>0. faults' = 0 => faults = 0
  BY NoFaults
<1>1. ASSUME faults' = 0, NEW n \in DOMAIN invited, NEW u, u = invited[n].invitee
      PROVE  RewardedSoon(u)'
  <2>1. RewardedSoon(u)
    BY <1>0, <1>1 DEF RecordsInv
  <2> QED
    BY <1>1, <2>1, RewardedStays
<1>2. ASSUME NEW w \in Workers, InsertInvitationRecord(w)
      PROVE  RecordsInv'
  <2>1. PICK row : row = InvitationRow(w)
    OBVIOUS
  <2>2. invited' = Append(invited, row) /\ raced' = raced
    BY <1>2, <2>1 DEF InsertInvitationRecord, History
  <2>3. /\ DOMAIN invited' = DOMAIN invited \cup {Len(invited) + 1}
        /\ \A n \in DOMAIN invited : invited'[n] = invited[n]
        /\ invited'[Len(invited) + 1] = row
    BY <2>2 DEF MarketingInv, TablesInv
  <2>4. row.invitee = loc[w].uid /\ row.code = InvitedBy[row.invitee]
    BY <2>1 DEF InvitationRow
  <2>5. ASSUME faults' = 0 PROVE pc'[w] = "reward" /\ loc'[w].uid = row.invitee
    <3>1. Goto(w, "reward", loc[w])
      BY <1>2, <2>5, NoFaults DEF InsertInvitationRecord
    <3> QED
      BY <2>4, <3>1 DEF Goto, MarketingInv, GoroutinesInv
  <2>6. \A n \in DOMAIN invited' : invited'[n].code = InvitedBy[invited'[n].invitee]
    BY <2>3, <2>4 DEF RecordsInv
  <2>7. ASSUME faults' = 0, NEW n \in DOMAIN invited', NEW u, u = invited'[n].invitee
        PROVE  RewardedSoon(u)'
    <3>1. CASE n \in DOMAIN invited
      BY <1>1, <2>3, <2>7, <3>1
    <3>2. CASE n = Len(invited) + 1
      BY <2>3, <2>5, <2>7, <3>2 DEF RewardedSoon, Awarding
    <3> QED
      BY <2>3, <3>1, <3>2
  <2>8. \A u \in raced' : \E n \in DOMAIN invited' : invited'[n].code = InvitedBy[u]
    BY <2>2, <2>3 DEF RecordsInv
  <2> QED
    BY <2>6, <2>7, <2>8 DEF RecordsInv, RewardedSoon, Rewarded, Awarding
<1>3. ASSUME invited' = invited,
             \A u \in raced' : \E n \in DOMAIN invited : invited[n].code = InvitedBy[u]
      PROVE  RecordsInv'
  BY <1>1, <1>3 DEF RecordsInv, RewardedSoon, Rewarded, Awarding
<1>4. CASE UNCHANGED <<invited, raced>>
  BY <1>3, <1>4 DEF RecordsInv
<1>5. ASSUME NEW w \in Workers, InvitationRecordRefused(w)
      PROVE  RecordsInv'
  <2>1. /\ invited' = invited
        /\ \/ raced' = raced
           \/ Duplicate(InvitationRow(w)) /\ raced' = raced \cup {loc[w].uid}
    BY <1>5 DEF InvitationRecordRefused, Tables
  <2>2. \A u \in raced' : \E n \in DOMAIN invited : invited[n].code = InvitedBy[u]
    BY <2>1 DEF Duplicate, InvitationRow, RecordsInv
  <2> QED
    BY <1>3, <2>1, <2>2
<1> QED
  BY <1>2, <1>4, <1>5, RecordsChange

LEMMA RewardNext ==
    ASSUME MarketingInv, RewardInv, [Next]_vars
    PROVE  RewardInv'
<1>0. RowsStay /\ sent \subseteq sent'
  BY InvNext DEF RowsStay
<1>1. ASSUME NEW w \in Workers, pc'[w] \in OnTheWay
      PROVE  RegistrationEvent(loc'[w].uid) \in sent'
  <2>1. CASE Stays(w)
    BY <1>0, <1>1, <2>1 DEF Stays, RewardInv
  <2>2. CASE AwardRegistrationBonus(w)
    <3>1. loc'[w] = loc[w] /\ RegistrationEvent(loc[w].uid) \in sent'
      BY <1>1, <2>2 DEF AwardRegistrationBonus, Produce, GoesOn, Goto, Fails, Return, OnTheWay,
                        RegistrationEvent, MarketingInv, GoroutinesInv
    <3> QED
      BY <3>1
  <2>3. CASE SelectInvitationRecord(w) \/ InsertInvitationRecord(w)
    <3>1. loc'[w] = loc[w] /\ pc[w] \in OnTheWay
      BY <1>1, <2>3 DEF SelectInvitationRecord, InsertInvitationRecord, GoesOn, Goto, Fails, Return,
                        OnTheWay, MarketingInv, GoroutinesInv
    <3> QED
      BY <1>0, <3>1 DEF RewardInv
  <2> QED
    BY <1>1, <2>1, <2>2, <2>3, RewardingBegins
<1>2. ASSUME NEW u \in Newcomers, Rewarded(u)'
      PROVE  RegistrationEvent(u) \in sent'
  <2>1. CASE Rewarded(u)
    BY <1>0, <2>1 DEF RewardInv
  <2>2. CASE ~ Rewarded(u)
    <3>1. PICK e \in sent' : e.topic = "credit" /\ e.key = <<"invitee", u>>
      BY <1>2 DEF Rewarded
    <3>2. PICK w \in Workers : Sends(w, e)
      BY <2>2, <3>1, NewEvents DEF Rewarded
    <3>3. pc[w] \in OnTheWay /\ loc[w].uid = u
      BY <3>1, <3>2, SendsRegistration DEF AwardInvitationBonus, OnTheWay
    <3> QED
      BY <1>0, <3>3 DEF RewardInv
  <2> QED
    BY <2>1, <2>2
<1>3. ASSUME faults' = 0, NEW u \in Newcomers, InvitedBy[u] \in Invitations,
             RegistrationEvent(u) \in sent'
      PROVE  Rewarded(u)' \/ u \in raced' \/ \E w \in Workers : Rewarding(w, u)'
  <2>0. raced \subseteq raced'
    BY RecordsChange DEF InsertInvitationRecord, InvitationRecordRefused, History
  <2>1. CASE RegistrationEvent(u) \notin sent
    <3>1. PICK w \in Workers : AwardRegistrationBonus(w) /\ loc[w].uid = u
      BY <1>3, <2>1, NewEvents, SendsRegistration
    <3>2. Goto(w, "record", loc[w])
      BY <1>3, <3>1, NoFaults, MarketingAssumption DEF AwardRegistrationBonus
    <3>3. Rewarding(w, u)'
      BY <3>1, <3>2 DEF Goto, Rewarding, OnTheWay, MarketingInv, GoroutinesInv
    <3> QED
      BY <3>3
  <2>2. CASE Rewarded(u) \/ u \in raced
    BY <1>0, <2>0, <2>2 DEF Rewarded
  <2>3. ASSUME NEW w \in Workers, Rewarding(w, u), Step(w), pc[w] = "record"
        PROVE  Rewarding(w, u)'
    <3>1. SelectInvitationRecord(w)
      BY <1>3, <2>3, StepAt, NoFaults DEF InvitationCodeNotFound, Rewarding
    <3>2. Goto(w, "insert", loc[w]) \/ Goto(w, "reward", loc[w])
      BY <1>3, <3>1, NoFaults DEF SelectInvitationRecord
    <3> QED
      BY <2>3, <3>2 DEF Goto, Rewarding, OnTheWay, MarketingInv, GoroutinesInv
  <2>4. ASSUME NEW w \in Workers, Rewarding(w, u), Step(w), pc[w] = "insert"
        PROVE  u \in raced' \/ Rewarding(w, u)'
    <3>1. CASE InsertInvitationRecord(w)
      <4>1. Goto(w, "reward", loc[w])
        BY <1>3, <3>1, NoFaults DEF InsertInvitationRecord
      <4> QED
        BY <2>4, <4>1 DEF Goto, Rewarding, OnTheWay, MarketingInv, GoroutinesInv
    <3>2. CASE InvitationRecordRefused(w)
      BY <1>3, <2>4, <3>2, NoFaults DEF InvitationRecordRefused, Rewarding
    <3> QED
      BY <2>4, <3>1, <3>2, StepAt
  <2>5. ASSUME NEW w \in Workers, Rewarding(w, u), pc[w] = "reward"
        PROVE  Rewarded(u)' \/ \E v \in Workers : Rewarding(v, u)'
    <3>1. RewardedSoon(u)'
      BY <1>3, <2>5, RewardedStays DEF Rewarding, Awarding, RewardedSoon
    <3> QED
      BY <3>1 DEF RewardedSoon, Awarding, Rewarding, OnTheWay
  <2>6. ASSUME NEW w \in Workers, Rewarding(w, u), Stays(w)
        PROVE  Rewarding(w, u)'
    BY <2>6 DEF Stays, Rewarding
  <2>7. CASE \E w \in Workers : Rewarding(w, u)
    <3>1. PICK w \in Workers : Rewarding(w, u)
      BY <2>7
    <3>2. Stays(w) \/ Step(w)
      BY <3>1, Moved DEF Rewarding, OnTheWay
    <3> QED
      BY <2>3, <2>4, <2>5, <2>6, <3>1, <3>2 DEF Rewarding, OnTheWay
  <2> QED
    BY <1>3, <2>1, <2>2, <2>7, NoFaults DEF RewardInv
<1> QED
  BY <1>1, <1>2, <1>3 DEF RewardInv, Newcomers, RegistrationEvent, MemberEvent

\* At rest, guests and rewards are paired, but for those whose records met.
LEMMA InvitersRewarded == MarketingInv /\ EventsInv /\ RewardInv /\ RecordsInv => InvitersAreRewarded
<1> SUFFICES ASSUME MarketingInv, EventsInv, RewardInv, RecordsInv, AtRest, faults = 0, NEW v \in Users
             PROVE  LET rewarded == {e.key[2] : e \in RewardsOf(v)}
                    IN  /\ GuestsOf(v) \ raced \subseteq rewarded
                        /\ rewarded \subseteq GuestsOf(v)
                        /\ Cardinality(RewardsOf(v)) = Cardinality(rewarded)
                        /\ \A u \in GuestsOf(v) \cap raced :
                              \E g \in rewarded : InvitedBy[g] = InvitedBy[u]
  BY DEF InvitersAreRewarded
<1> DEFINE Reward(u) == CreditEvent(<<"invitee", u>>, v, 500)
           rewarded == {e.key[2] : e \in RewardsOf(v)}
           h == [u \in rewarded |-> Reward(u)]
<1>1. ASSUME NEW u
      PROVE  /\ Reward(u).topic = "credit" /\ Reward(u).uid = v /\ Reward(u).key = <<"invitee", u>>
             /\ RegistrationEvent(u) \in received <=> Registered7(u)
  BY DEF CreditEvent, RegistrationEvent, MemberEvent, Registered7, Received
<1>2. ASSUME NEW e \in sent, e.topic = "credit", e.key[1] = "invitee"
      PROVE  \E u \in Newcomers : ByInvitation(e, u)
  <2>1. Explained(e)
    BY DEF EventsInv
  <2> QED
    BY <1>2, <2>1 DEF Explained, ByOrder, ByCode, ByRegistration,
                      MemberEvent, CreditEvent, PermissionEvent, RobotEvent
<1>3. received \subseteq sent
  BY DEF MarketingInv, TablesInv
<1>4. ASSUME NEW u, Rewarded(u), invitation[InvitedBy[u]] = v
      PROVE  Reward(u) \in RewardsOf(v) /\ u \in rewarded
  <2>1. PICK e \in sent : e.topic = "credit" /\ e.key = <<"invitee", u>>
    BY <1>4 DEF Rewarded
  <2>2. PICK x \in Newcomers : ByInvitation(e, x)
    BY <1>2, <2>1
  <2>3. x = u
    BY <2>1, <2>2 DEF ByInvitation, CreditEvent
  <2>4. e = Reward(u)
    BY <1>4, <2>2, <2>3 DEF ByInvitation
  <2>5. e \in received
    BY <2>1, AllReceived
  <2>6. Reward(u) \in RewardsOf(v) /\ Reward(u).key[2] = u
    BY <1>1, <2>4, <2>5 DEF RewardsOf
  <2> QED
    BY <2>6
<1>5. ASSUME NEW e \in RewardsOf(v)
      PROVE  \E u \in GuestsOf(v) : e = Reward(u) /\ e.key[2] = u
  <2>0. e \in sent /\ e.topic = "credit" /\ e.uid = v /\ e.key[1] = "invitee"
    BY <1>3, <1>5 DEF RewardsOf
  <2>1. PICK u \in Newcomers : ByInvitation(e, u)
    BY <1>2, <2>0
  <2>2. e.topic = "credit" /\ e.uid = invitation[InvitedBy[u]] /\ e.key = <<"invitee", u>>
    BY <2>1 DEF ByInvitation, CreditEvent
  <2>3. invitation[InvitedBy[u]] = v /\ InvitedBy[u] \in Invitations /\ e = Reward(u)
    BY <2>0, <2>1, <2>2 DEF ByInvitation
  <2>4. RegistrationEvent(u) \in sent
    BY <2>0, <2>2 DEF RewardInv, Rewarded
  <2>5. Registered7(u)
    BY <1>1, <2>4, AllReceived, ZenonT(60)
  <2>6. u \in GuestsOf(v)
    BY <2>3, <2>5 DEF GuestsOf
  <2> QED
    BY <2>2, <2>3, <2>6
<1>6. \A u, x : Reward(u) = Reward(x) => u = x
  BY DEF CreditEvent
<1> HIDE DEF Reward
<1>7. h \in Bijection(rewarded, RewardsOf(v))
  <2>1. \A u \in rewarded : Reward(u) \in RewardsOf(v)
    BY <1>5
  <2>2. \A e \in RewardsOf(v) : \E u \in rewarded : e = Reward(u)
    BY <1>5
  <2> HIDE DEF rewarded
  <2> QED
    BY <1>6, <2>1, <2>2 DEF Bijection, Injection, Surjection, IsInjective
<1>8. rewarded \subseteq GuestsOf(v)
  BY <1>5
<1>9. IsFiniteSet(rewarded)
  <2>1. rewarded \in SUBSET Users
    BY <1>8, MarketingAssumption DEF GuestsOf, Newcomers
  <2> QED
    BY <2>1, FS_Subset, MarketingAssumption
<1>10. Cardinality(RewardsOf(v)) = Cardinality(rewarded)
  <2> HIDE DEF rewarded
  <2> QED
    BY <1>7, <1>9, FS_Bijection DEF ExistsBijection
<1>11. ASSUME NEW u \in GuestsOf(v), u \notin raced
       PROVE  u \in rewarded
  <2>1. /\ u \in Newcomers /\ InvitedBy[u] \in Invitations /\ invitation[InvitedBy[u]] = v
        /\ Registered7(u)
    BY DEF GuestsOf
  <2>2. RegistrationEvent(u) \in sent
    BY <1>1, <1>3, <2>1
  <2>3. \A w \in Workers : ~ Rewarding(w, u)
    BY DEF AtRest, Rewarding, OnTheWay
  <2>4. Rewarded(u)
    BY <1>11, <2>1, <2>2, <2>3 DEF RewardInv
  <2> QED
    BY <1>4, <2>1, <2>4
<1>12. ASSUME NEW u \in GuestsOf(v), u \in raced
       PROVE  \E g \in rewarded : InvitedBy[g] = InvitedBy[u]
  <2>1. PICK n \in DOMAIN invited : invited[n].code = InvitedBy[u]
    BY <1>12 DEF RecordsInv
  <2> DEFINE g == invited[n].invitee
  <2>2. InvitedBy[g] = InvitedBy[u] /\ RewardedSoon(g)
    BY <2>1 DEF RecordsInv
  <2> HIDE DEF g
  <2>3. Rewarded(g)
    BY <2>2 DEF RewardedSoon, Awarding, AtRest
  <2>4. invitation[InvitedBy[g]] = v
    BY <2>2 DEF GuestsOf
  <2> QED
    BY <1>4, <2>2, <2>3, <2>4
<1> QED
  BY <1>8, <1>10, <1>11, <1>12

\* In every behaviour, when nothing has failed and everybody has finished, an
\* inviter has one reward for every newcomer that registered with one of its
\* codes and none for anybody else, however often a registration event is handled
\* and by however many consumers at once; but a newcomer whose record met that of
\* another with the same code, who is rewarded for (user_registration_event.go,
\* AwardInvitationBonus, CreateInvitationRecord).
THEOREM RewardsMatchGuests == Spec => []InvitersAreRewarded
<1> DEFINE Inv == MarketingInv /\ EventsInv /\ CodesInv /\ RewardInv /\ RecordsInv
<1>1. Init => Inv
  <2>1. Init => RewardInv /\ RecordsInv
    BY DEF Init, RewardInv, RecordsInv, Rewarded, OnTheWay
  <2> QED
    BY <2>1, InitInv, EventsInit
<1>2. Inv /\ [Next]_vars => Inv'
  BY InvNext, EventsNext, CodesNext, RewardNext, RecordsNext
<1>3. Inv => InvitersAreRewarded
  BY InvitersRewarded
<1> QED
  BY <1>1, <1>2, <1>3, PTL DEF Spec

-----------------------------------------------------------------------------
(***************************************************************************)
(* Completed orders: what an order is for has been delivered, category by  *)
(* category, or a goroutine has the category before it.                    *)
(***************************************************************************)

\* Codes are sold of the two types that have a handler.
CodesHaveHandlers ==
    \A o \in Orders : \A cat \in CategoriesOf(o) : cat[1] = "code" => cat[2] \in CodeTypes

Delivered(o, cat) ==
    /\ cat = <<"product", "member">> => MemberEvent(<<"order", o>>, Buyer[o], OrderDays(o)) \in sent
    /\ cat = <<"product", "credit">> => CreditEvent(<<"incr", o>>, Buyer[o], OrderCredits(o)) \in sent
    /\ cat = <<"product", "project">> => PermissionEvent(Buyer[o], ProjectsOf(o)) \in sent
    /\ cat = <<"product", "service">> => RobotEvent(o) \in sent
    /\ \A type \in CodeTypes : cat = <<"code", type>> => <<o, CodesBought[o][type]>> \in generateLog

Delivering(w, o, cat) ==
    /\ loc[w].order = o
    /\ \/ pc[w] \in {"execute", "handle"} /\ cat \in loc[w].todo
       \/ pc[w] = "handle" /\ cat = loc[w].cat

OrdersInv ==
    /\ \A o \in handled : \A cat \in CategoriesOf(o) : Relevant(cat)
    /\ faults = 0 =>
          \A o \in handled : \A cat \in CategoriesOf(o) :
              Delivered(o, cat) \/ \E w \in Workers : Delivering(w, o, cat)

LEMMA DeliveredStays ==
    ASSUME RowsStay, NEW o, NEW cat, Delivered(o, cat)
    PROVE  Delivered(o, cat)'
BY DEF RowsStay, Delivered, CodesBought

LEMMA HandledChanges ==
    ASSUME [Next]_vars, NEW o \in handled', o \notin handled
    PROVE  \E w \in Workers :
              /\ \A cat \in CategoriesOf(o) : Relevant(cat)
              /\ Start(w, "execute", [kind |-> "order", order |-> o, todo |-> CategoriesOf(o)])
<1>1. ASSUME NEW w \in Workers, Step(w)
      PROVE  UNCHANGED handled
  BY <1>1 DEF Step, HandleOrder, HandleRedeem, HandleRegistration, Execute, HandleProductMember,
              HandleProductCredit, HandleProductProject, HandleProductService, HandleCode, Redeem,
              AwardRegistrationBonus, AwardInvitationBonus, Produce, RedeemRefused, RedeemMark,
              InvitationCodeNotFound, SelectInvitationRecord, InsertInvitationRecord,
              InvitationRecordRefused, CreateInvitationCode, History
<1>2. PICK w \in Workers : ConsumeOrderEvent(w)
  BY <1>1 DEF Next, RedeemRedemptionCode, GenerateInvitationCode, GenerateRedemptionCodes,
              ConsumeRegistrationEvent, CacheExpires, Receive, vars, History
<1> QED
  BY <1>2 DEF ConsumeOrderEvent

\* A handler delivers its category.
LEMMA HandlerDelivers ==
    ASSUME MarketingInv, [Next]_vars, faults' = 0, NEW w \in Workers, Step(w), pc[w] = "handle",
           NEW o, o = loc[w].order, NEW cat, cat = loc[w].cat
    PROVE  Goto(w, "execute", Rest(w)) /\ Delivered(o, cat)'
<1>0. /\ cat[1] = "product" /\ cat[2] = "member" => DaysOf(o, Mine(w)) = OrderDays(o)
      /\ cat[1] = "product" /\ cat[2] = "credit" => FirstOf(o, Mine(w)).attr = OrderCredits(o)
      /\ cat[1] = "product" /\ cat[2] = "project" => {Items[o][i].attr : i \in Mine(w)} = ProjectsOf(o)
  BY OrderEvents, Zenon
<1>1. o \in Orders /\ cat = <<cat[1], cat[2]>>
  BY MineType DEF MarketingInv
<1>2. CASE HandleProductMember(w)
  <2>1. /\ cat = <<"product", "member">> /\ Goto(w, "execute", Rest(w))
        /\ MemberEvent(<<"order", o>>, Buyer[o], DaysOf(o, Mine(w))) \in sent'
    BY <1>1, <1>2, NoFaults DEF HandleProductMember, Handling
  <2>2. DaysOf(o, Mine(w)) = OrderDays(o)
    BY <1>0, <2>1
  <2> QED
    BY <2>1, <2>2 DEF Delivered, CodeTypes
<1>3. CASE HandleProductCredit(w)
  <2>1. /\ cat = <<"product", "credit">> /\ Goto(w, "execute", Rest(w))
        /\ CreditEvent(<<"incr", o>>, Buyer[o], FirstOf(o, Mine(w)).attr) \in sent'
    BY <1>1, <1>3, NoFaults DEF HandleProductCredit, Handling
  <2>2. FirstOf(o, Mine(w)).attr = OrderCredits(o)
    BY <1>0, <2>1
  <2> QED
    BY <2>1, <2>2 DEF Delivered, CodeTypes
<1>4. CASE HandleProductProject(w)
  <2> DEFINE ids == {Items[o][i].attr : i \in Mine(w)}
  <2>1. /\ cat = <<"product", "project">> /\ Goto(w, "execute", Rest(w))
        /\ PermissionEvent(Buyer[o], ids) \in sent'
    BY <1>1, <1>4, NoFaults, Zenon DEF HandleProductProject, Handling
  <2>2. ids = ProjectsOf(o)
    BY <1>0, <2>1
  <2> HIDE DEF ids
  <2> QED
    BY <2>1, <2>2 DEF Delivered, CodeTypes
<1>5. CASE HandleProductService(w)
  <2>1. /\ cat = <<"product", "service">> /\ Goto(w, "execute", Rest(w))
        /\ RobotEvent(o) \in sent'
    BY <1>1, <1>5, NoFaults DEF HandleProductService, Handling
  <2> QED
    BY <2>1 DEF Delivered, CodeTypes
<1>6. CASE HandleCode(w)
  <2> DEFINE t == cat[2]
             n == Quantity(o, Mine(w))
             rows == CodeRowsOf(o, Mine(w))
  <2>1. /\ cat = <<"code", t>> /\ t \in CodeTypes /\ Goto(w, "execute", Rest(w))
        /\ CreateRedemptionCodes(o, rows)
    BY <1>1, <1>6, NoFaults DEF HandleCode, Handling, CodeTypes
  <2>2. Mine(w) \in SUBSET DOMAIN Items[o] /\ Mine(w) = ItemsIn(o, <<"code", t>>)
    BY <2>1, MineType DEF MarketingInv, Mine
  <2>3. n = CodesBought[o][t]
    BY <1>1, <2>1, <2>2, BoughtType
  <2>4. n \in Nat /\ DOMAIN rows = 1 .. n
    BY <1>1, <2>2, QuantityType, CodeRowsType
  <2> HIDE DEF n, rows
  <2>5. Len(rows) = n
    BY <2>4, LenOfRows
  <2>6. <<o, n>> \in generateLog'
    BY <2>1, <2>5 DEF CreateRedemptionCodes
  <2>7. \A type \in CodeTypes : cat = <<"code", type>> => type = t
    BY <2>1
  <2>8. /\ cat # <<"product", "member">> /\ cat # <<"product", "credit">>
        /\ cat # <<"product", "project">> /\ cat # <<"product", "service">>
    BY <2>1
  <2>9. \A type \in CodeTypes : cat = <<"code", type>> => <<o, CodesBought[o][type]>> \in generateLog'
    BY <2>3, <2>6, <2>7
  <2> QED
    BY <2>1, <2>8, <2>9 DEF Delivered, CodesBought
<1> QED
  BY <1>2, <1>3, <1>4, <1>5, <1>6, StepAt

LEMMA OrdersNext ==
    ASSUME CodesHaveHandlers, MarketingInv, OrdersInv, [Next]_vars
    PROVE  OrdersInv'
<1>0. RowsStay /\ handled \subseteq Orders /\ handled' \subseteq Orders
  BY InvNext DEF MarketingInv, TablesInv
<1>1. ASSUME NEW o \in handled', NEW cat \in CategoriesOf(o)
      PROVE  Relevant(cat)
  BY <1>1, HandledChanges DEF OrdersInv
<1>2. ASSUME faults' = 0, NEW o \in handled', NEW cat \in CategoriesOf(o)
      PROVE  Delivered(o, cat)' \/ \E w \in Workers : Delivering(w, o, cat)'
  <2>1. CASE o \notin handled
    <3>1. PICK w \in Workers :
             Start(w, "execute", [kind |-> "order", order |-> o, todo |-> CategoriesOf(o)])
      BY <2>1, HandledChanges
    <3>2. /\ pc'[w] = "execute"
          /\ loc'[w] = [kind |-> "order", order |-> o, todo |-> CategoriesOf(o)]
      BY <3>1 DEF Start, MarketingInv, GoroutinesInv
    <3>3. Delivering(w, o, cat)'
      BY <3>2 DEF Delivering
    <3> QED
      BY <3>3
  <2>2. CASE Delivered(o, cat)
    BY <1>0, <2>2, DeliveredStays
  <2>3. CASE o \in handled /\ \E w \in Workers : Delivering(w, o, cat)
    <3>1. PICK w \in Workers : Delivering(w, o, cat)
      BY <2>3
    <3>2. CASE Stays(w)
      <4>1. Delivering(w, o, cat)'
        BY <3>1, <3>2 DEF Stays, Delivering
      <4> QED
        BY <4>1
    <3>3. CASE Step(w) /\ pc[w] = "execute"
      <4>1. Execute(w) /\ loc[w].order = o /\ cat \in loc[w].todo /\ loc[w].todo \subseteq CategoriesOf(o)
        BY <3>1, <3>3, StepAt DEF Delivering, MarketingInv, GoroutinesInv, WorksOn
      <4>2. \A c \in loc[w].todo : Registered(c)
        BY <1>0, <2>3, <4>1 DEF OrdersInv, CodesHaveHandlers, Registered, CodeTypes
      <4>3. PICK c \in loc[w].todo :
               Goto(w, "handle", [kind |-> "order", order |-> loc[w].order,
                                 todo |-> loc[w].todo \ {c}, cat |-> c])
        BY <4>1, <4>2 DEF Execute
      <4>4. /\ pc'[w] = "handle"
            /\ loc'[w] = [kind |-> "order", order |-> o, todo |-> loc[w].todo \ {c}, cat |-> c]
        BY <4>1, <4>3 DEF Goto, MarketingInv, GoroutinesInv
      <4>5. Delivering(w, o, cat)'
        BY <4>1, <4>4 DEF Delivering
      <4> QED
        BY <4>5
    <3>4. CASE Step(w) /\ pc[w] = "handle"
      <4>1. Goto(w, "execute", Rest(w)) /\ (cat = loc[w].cat => Delivered(o, cat)')
        BY <1>2, <3>1, <3>4, HandlerDelivers DEF Delivering
      <4>2. CASE cat = loc[w].cat
        BY <4>1, <4>2
      <4>3. CASE cat \in loc[w].todo
        <5>1. /\ pc'[w] = "execute"
              /\ loc'[w] = [kind |-> "order", order |-> o, todo |-> loc[w].todo]
          BY <3>1, <4>1 DEF Goto, Rest, Delivering, MarketingInv, GoroutinesInv
        <5>2. Delivering(w, o, cat)'
          BY <4>3, <5>1 DEF Delivering
        <5> QED
          BY <5>2
      <4> QED
        BY <3>1, <4>2, <4>3 DEF Delivering
    <3> QED
      BY <3>1, <3>2, <3>3, <3>4, Moved DEF Delivering
  <2> QED
    BY <1>2, <2>1, <2>2, <2>3, NoFaults DEF OrdersInv
<1> QED
  BY <1>1, <1>2 DEF OrdersInv, CategoriesOf, CategoryOf, Relevant, Types

\* A sum over more keys, which contribute nothing, is the same.
LEMMA SumOfSome ==
    ASSUME NEW S, NEW T \in SUBSET S, NEW f, NEW g,
           \A k \in T : f[k] = g[k], \A k \in S \ T : f[k] = 0
    PROVE  SumOver(f, S) = SumOver(g, T)
<1>1. \A k \in S \ T : Units(f, k) = {}
  BY DEF Units
<1>2. \A k \in T : Units(f, k) = Units(g, k)
  BY DEF Units
<1>3. AllUnits(f, S) = AllUnits(g, T)
  <2>1. \A x : x \in AllUnits(f, S) => x \in AllUnits(g, T)
    BY <1>1, <1>2, Zenon DEF AllUnits
  <2>2. \A x : x \in AllUnits(g, T) => x \in AllUnits(f, S)
    BY <1>2, Zenon DEF AllUnits
  <2> QED
    BY <2>1, <2>2, Zenon
<1> QED
  BY <1>3, Zenon DEF SumOver

\* The days of an order, from all of its items or from those of the category.
LEMMA DaysOfOrder ==
    ASSUME NEW o \in Orders
    PROVE  /\ DaysBought(o) = OrderDays(o)
           /\ <<"product", "member">> \notin CategoriesOf(o) => DaysBought(o) = 0
<1> DEFINE S == DOMAIN Items[o]
           T == ItemsIn(o, <<"product", "member">>)
           f == [i \in S |-> IF Items[o][i].cat0 = "product" /\ Items[o][i].cat1 = "member"
                             THEN Items[o][i].attr * Items[o][i].quantity ELSE 0]
           g == [i \in T |-> Items[o][i].attr * Items[o][i].quantity]
<1>1. T \in SUBSET S /\ \A i \in S : i \in T <=> Items[o][i].cat0 = "product" /\ Items[o][i].cat1 = "member"
  BY DEF ItemsIn, CategoryOf
<1>2. \A i \in T : f[i] = g[i]
  BY <1>1
<1>3. \A i \in S \ T : f[i] = 0
  BY <1>1
<1>4. <<"product", "member">> \notin CategoriesOf(o) => T = {}
  BY DEF CategoriesOf, ItemsIn
<1>5. DaysBought(o) = SumOver(f, S) /\ OrderDays(o) = SumOver(g, T)
  BY DEF DaysBought, OrderDays, DaysOf
<1> HIDE DEF S, T, f, g
<1>6. SumOver(f, S) = SumOver(g, T)
  BY <1>1, <1>2, <1>3, SumOfSome
<1>7. T = {} => SumOver(g, T) = 0
  BY SumZero
<1> QED
  BY <1>4, <1>5, <1>6, <1>7

LEMMA OrdersFulfilled ==
    ASSUME CountsApart, FreeCodes # {}, MarketingInv, EventsInv, CodesInv, OrdersInv
    PROVE  OrdersAreFulfilled
<1> SUFFICES ASSUME AtRest, faults = 0, NEW o \in handled
             PROVE  Fulfilled(o)
  BY DEF OrdersAreFulfilled
<1>0. o \in Orders
  BY DEF MarketingInv, TablesInv
<1>1. \A cat \in CategoriesOf(o) : Delivered(o, cat)
  BY DEF OrdersInv, AtRest, Delivering
<1>2. \A a, b : <<a, b>> \notin CategoriesOf(o) => ItemsIn(o, <<a, b>>) = {}
  BY DEF CategoriesOf, ItemsIn
<1>3. DaysBought(o) > 0 => Received("member", <<"order", o>>, Buyer[o], DaysBought(o))
  <2> SUFFICES ASSUME DaysBought(o) > 0
               PROVE  Received("member", <<"order", o>>, Buyer[o], DaysBought(o))
    OBVIOUS
  <2>1. <<"product", "member">> \in CategoriesOf(o) /\ DaysBought(o) = OrderDays(o)
    BY <1>0, DaysOfOrder
  <2>2. MemberEvent(<<"order", o>>, Buyer[o], OrderDays(o)) \in sent
    BY <1>1, <2>1 DEF Delivered
  <2>3. MemberEvent(<<"order", o>>, Buyer[o], OrderDays(o)) \in received
    BY <2>2, AllReceived
  <2> QED
    BY <2>1, <2>3 DEF Received, MemberEvent
<1>4. \A p \in ProjectsOf(o) : Permitted(Buyer[o], p)
  <2> SUFFICES ASSUME NEW p \in ProjectsOf(o) PROVE Permitted(Buyer[o], p)
    OBVIOUS
  <2>1. <<"product", "project">> \in CategoriesOf(o)
    BY <1>2 DEF ProjectsOf
  <2>2. PermissionEvent(Buyer[o], ProjectsOf(o)) \in sent
    BY <1>1, <2>1 DEF Delivered
  <2>3. PermissionEvent(Buyer[o], ProjectsOf(o)) \in received
    BY <2>2, AllReceived
  <2> HIDE DEF ProjectsOf
  <2> QED
    BY <2>3 DEF Permitted, PermissionEvent
<1>5. \A type \in CodeTypes : Cardinality(CodesOf(o, type)) = CodesBought[o][type]
  <2> TAKE type \in CodeTypes
  <2>1. CASE <<"code", type>> \in CategoriesOf(o)
    <3>1. <<o, CodesBought[o][type]>> \in generateLog
      BY <1>1, <2>1 DEF Delivered
    <3> QED
      BY <1>0, <3>1 DEF CodesInv, AllCodes
  <2>2. CASE <<"code", type>> \notin CategoriesOf(o)
    <3>1. CodesBought[o][type] = 0
      BY <1>0, <1>2, <2>2, BoughtType, QuantityNone
    <3>2. Cardinality(CodesOf(o, type)) <= 0
      BY <1>0, <3>1 DEF CodesInv
    <3>3. Cardinality(CodesOf(o, type)) \in Nat
      BY CodesOfFinite
    <3> QED
      BY <3>1, <3>2, <3>3
  <2> QED
    BY <2>1, <2>2
<1>6. ItemsIn(o, <<"product", "credit">>) # {} =>
        Received("credit", <<"incr", o>>, Buyer[o], OrderCredits(o))
  <2> SUFFICES ASSUME ItemsIn(o, <<"product", "credit">>) # {}
               PROVE  Received("credit", <<"incr", o>>, Buyer[o], OrderCredits(o))
    OBVIOUS
  <2>1. CreditEvent(<<"incr", o>>, Buyer[o], OrderCredits(o)) \in sent
    BY <1>1, <1>2 DEF Delivered
  <2>2. CreditEvent(<<"incr", o>>, Buyer[o], OrderCredits(o)) \in received
    BY <2>1, AllReceived
  <2> QED
    BY <2>2 DEF Received, CreditEvent
<1>7. ItemsIn(o, <<"product", "service">>) # {} => RobotEvent(o) \in received
  <2> SUFFICES ASSUME ItemsIn(o, <<"product", "service">>) # {}
               PROVE  RobotEvent(o) \in received
    OBVIOUS
  <2>1. RobotEvent(o) \in sent
    BY <1>1, <1>2 DEF Delivered
  <2> QED
    BY <2>1, AllReceived
<1> QED
  BY <1>3, <1>4, <1>5, <1>6, <1>7 DEF Fulfilled, OrderCredits, CodeTypes

\* In every behaviour in which nothing has failed and everybody has finished,
\* what completed orders are for has arrived: days, projects, codes, credits and
\* the notice of a service, in whatever order Execute takes the categories and
\* however often the event is handled.  As the run codes_lost shows, no order
\* may have as many codes of one type as of the other, as GenerateLog would
\* take the second request for a repetition of the first; no code may be sold
\* that has no handler; and there must be ids (handler/order).
THEOREM OrdersArrive ==
    ASSUME CountsApart, CodesHaveHandlers
    PROVE  Spec => [](FreeCodes # {} => OrdersAreFulfilled)
<1> DEFINE Inv == MarketingInv /\ EventsInv /\ CodesInv /\ OrdersInv
           Arrived == FreeCodes # {} => OrdersAreFulfilled
<1>1. Init => Inv
  <2>1. Init => OrdersInv
    BY DEF Init, OrdersInv
  <2> QED
    BY <2>1, InitInv, EventsInit
<1>2. Inv /\ [Next]_vars => Inv'
  BY InvNext, EventsNext, CodesNext, OrdersNext
<1>3. Inv => Arrived
  BY OrdersFulfilled
<1> QED
  BY <1>1, <1>2, <1>3, PTL DEF Spec
=============================================================================
