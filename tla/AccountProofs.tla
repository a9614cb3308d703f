---------------------------- MODULE AccountProofs ----------------------------
(***************************************************************************)
(* Proofs about the scenes of MCCommunity in which accounts are made: that *)
(* a person has one from wherever they log in, and that ids, states and    *)
(* codes are whose they should be.                                         *)
(***************************************************************************)
EXTENDS MCCommunity, FiniteSetTheorems, TLAPS

LEMMA OneMore ==
    ASSUME NEW S, IsFiniteSet(S), NEW x, x \notin S
    PROVE  /\ IsFiniteSet(S \cup {x})
           /\ Cardinality(S \cup {x}) = Cardinality(S) + 1
           /\ Cardinality(S) \in Nat
BY FS_AddElement, FS_CardinalityType

LEMMA OneLess ==
    ASSUME NEW S, IsFiniteSet(S), NEW x, x \in S
    PROVE  /\ IsFiniteSet(S \ {x})
           /\ Cardinality(S \ {x}) = Cardinality(S) - 1
           /\ Cardinality(S) \in Nat
BY FS_RemoveElement, FS_CardinalityType

-----------------------------------------------------------------------------
(***************************************************************************)
(* Accounts.                                                               *)
(***************************************************************************)
Visitor == WechatUsers \cup Mobiles

Profile == [name : Nat, phone : Mobiles \cup {"none"}, union : WechatUsers \cup {"none"},
            open : SUBSET Accounts!Apps]

AccountOps == {"idle", "found", "insert", "announce", "forget", "remember"}

CallType == [op : AccountOps, who : Visitor \cup {"none"}, app : Accounts!Apps \cup {"none"},
             uid : Nat, row : Profile \cup {<<>>}]

\* What a call holds, by what it does next.
AccountCall(p) ==
    LET c == call[p] IN
    /\ c.op = "found" =>
          /\ c.who \in WechatUsers /\ c.app \in Accounts!Apps
          /\ c.uid \in Accounts!Ids /\ c.row \in Profile
          /\ c.row.union = c.who /\ users[c.uid].union = c.who
          /\ c.uid \notin overlapped =>
                c.row.name = users[c.uid].name /\ c.row.phone = users[c.uid].phone
    /\ c.op = "insert" =>
          /\ c.who \in Visitor /\ c.row \in Profile /\ c.row.name = 0
          /\ c.who \in WechatUsers => c.row.union = c.who
    /\ c.op = "announce" =>
          /\ c.who \in Visitor /\ c.uid \in Accounts!Ids
          /\ c.who \in WechatUsers => users[c.uid].union = c.who
    /\ c.op = "forget" =>
          /\ c.who \in WechatUsers \cup {"none"} /\ c.uid \in Accounts!Ids
          /\ c.who \in WechatUsers => users[c.uid].union = c.who
    /\ c.op = "remember" => c.uid \in Accounts!Ids /\ c.row \in Profile

AccountType ==
    /\ users \in Seq(Profile)
    /\ cached \in [Accounts!Uids -> {<<>>} \cup {<<r>> : r \in Profile}]
    /\ registered \in [Accounts!Uids -> Nat]
    /\ edited \in [Accounts!Uids -> Nat \X (Mobiles \cup {"none"})]
    /\ calls \in 0 .. MaxLogins /\ faults \in Nat
    /\ call \in [Procs -> CallType]

\* Union ids and phones are unique.
UniqueRows ==
    \A u, v \in Accounts!Ids : u # v =>
        /\ users[u].union # "none" => users[v].union # users[u].union
        /\ users[u].phone # "none" => users[v].phone # users[u].phone

Doing(op) == {p \in Procs : call[p].op = op}
Announcing(u) == {p \in Procs : call[p].op = "announce" /\ call[p].uid = u}

\* There is an id left for every row about to be inserted.
RowsHaveIds == Len(users) + Cardinality(Doing("insert")) <= calls

SessionsAreOfRows ==
    \A s \in sessions :
        /\ s.who \in Visitor
        /\ s.who \in WechatUsers => s.uid \in Accounts!Ids /\ users[s.uid].union = s.who

IdsAreFresh ==
    \A u \in Accounts!Uids \ Accounts!Ids : registered[u] = 0 /\ cached[u] = <<>>

AccountsInv ==
    /\ AccountType
    /\ \A p \in Procs : AccountCall(p)
    /\ UniqueRows
    /\ RowsHaveIds
    /\ SessionsAreOfRows
    /\ IdsAreFresh
    /\ Accounts!AnnouncedOnce
    /\ Accounts!EditsStay
    /\ Accounts!CacheShowsTheRow

\* Rows are there by their ids.
LEMMA AccountRows ==
    ASSUME AccountType
    PROVE  /\ Len(users) \in Nat /\ Accounts!Ids = 1 .. Len(users)
           /\ \A u \in Accounts!Ids : users[u] \in Profile
BY DEF AccountType, Accounts!Ids

\* The operations that write a row: Insert, UpdateWechat and UpdateNonSensitiveInfo.
Inserted(p) ==
    /\ call[p].op = "insert" /\ ~Accounts!Duplicate(0, call[p].row)
    /\ users' = Append(users, call[p].row)

Updated(u, row) ==
    /\ ~Accounts!Duplicate(u, row)
    /\ row.union \in {"none", users[u].union}
    /\ users' = [users EXCEPT ![u] = Accounts!NonZero(users[u], row)]

\* What UpdateNonSensitiveInfo is called with.
Edit(row) == row \in Profile /\ row.union = "none"

LEMMA EditsAreEdits ==
    ASSUME AccountsInv, NEW p \in Procs, NEW u \in Accounts!Uids,
           Accounts!EditName(p, u) \/ \E phone \in Mobiles : Accounts!BindPhone(p, u, phone)
    PROVE  \E row : Edit(row) /\ Accounts!UpdateNonSensitiveInfo(p, u, row)
<1>1. ASSUME Accounts!EditName(p, u)
      PROVE  \E row : Edit(row) /\ Accounts!UpdateNonSensitiveInfo(p, u, row)
  <2> DEFINE row == [Accounts!NewRow("none", "none", {}) EXCEPT !.name = calls + 1]
  <2>1. calls + 1 \in Nat
    BY DEF AccountsInv, AccountType
  <2>2. Edit(row)
    BY <2>1 DEF Edit, Profile, Accounts!NewRow
  <2> QED
    BY <1>1, <2>2 DEF Accounts!EditName, Accounts!None
<1>2. ASSUME NEW phone \in Mobiles, Accounts!BindPhone(p, u, phone)
      PROVE  \E row : Edit(row) /\ Accounts!UpdateNonSensitiveInfo(p, u, row)
  <2> DEFINE row == Accounts!NewRow("none", phone, {})
  <2>1. Edit(row)
    BY DEF Edit, Profile, Accounts!NewRow
  <2> QED
    BY <1>2, <2>1 DEF Accounts!BindPhone, Accounts!None
<1> QED
  BY <1>1, <1>2

LEMMA RowsChange ==
    ASSUME AccountsInv, [Accounts!Next]_Accounts!uservars
    PROVE  \/ users' = users
           \/ \E p \in Procs : Inserted(p)
           \/ \E u \in Accounts!Ids, row \in Profile : Updated(u, row)
<1>1. ASSUME NEW p \in Procs, Accounts!UpdateWechat(p)
      PROVE  users' = users \/ \E u \in Accounts!Ids, row \in Profile : Updated(u, row)
  <2> DEFINE c == call[p]
             row == [c.row EXCEPT !.open = {c.app}]
  <2>1. /\ c.app \in Accounts!Apps /\ c.uid \in Accounts!Ids /\ c.row \in Profile
        /\ c.row.union = users[c.uid].union
    BY <1>1 DEF AccountsInv, AccountCall, Accounts!UpdateWechat
  <2>2. row \in Profile /\ row.union = c.row.union
    BY <2>1 DEF Profile
  <2>3. CASE users' = users
    BY <2>3
  <2>4. CASE ~Accounts!Duplicate(c.uid, row) /\ Accounts!UpdateNonZeroFields(c.uid, row)
    BY <2>1, <2>2, <2>4 DEF Updated, Accounts!UpdateNonZeroFields
  <2> QED
    BY <1>1, <2>3, <2>4 DEF Accounts!UpdateWechat
<1>2. ASSUME NEW p \in Procs, Accounts!Insert(p)
      PROVE  users' = users \/ Inserted(p)
  BY <1>2 DEF Accounts!Insert, Inserted
<1>3. ASSUME NEW p \in Procs, NEW u \in Accounts!Uids,
             Accounts!EditName(p, u) \/ \E phone \in Mobiles : Accounts!BindPhone(p, u, phone)
      PROVE  \E v \in Accounts!Ids, r \in Profile : Updated(v, r)
  <2>1. PICK row : Edit(row) /\ Accounts!UpdateNonSensitiveInfo(p, u, row)
    BY <1>3, EditsAreEdits
  <2>2. u \in Accounts!Ids /\ row \in Profile /\ Updated(u, row)
    BY <2>1 DEF Edit, Updated, Accounts!UpdateNonSensitiveInfo, Accounts!UpdateNonZeroFields
  <2> QED
    BY <2>2
<1>4. ASSUME NEW p \in Procs,
             \/ \E who \in WechatUsers, a \in Accounts!Apps : Accounts!FindByWechat(p, who, a)
             \/ Accounts!ReturnFound(p) \/ Accounts!Produce(p)
             \/ \E phone \in Mobiles : Accounts!CreateWithPhone(p, phone)
             \/ Accounts!DeleteProfile(p)
             \/ \E u \in Accounts!Uids : Accounts!FindById(p, u)
             \/ Accounts!SetProfile(p)
      PROVE  users' = users
  BY <1>4 DEF Accounts!FindByWechat, Accounts!ReturnFound, Accounts!Produce, Accounts!CreateWithPhone,
              Accounts!DeleteProfile, Accounts!FindById, Accounts!SetProfile
<1>5. ASSUME \/ \E phone \in Mobiles : Accounts!PhoneLogin(phone)
             \/ \E u \in Accounts!Uids : Accounts!Expire(u)
             \/ UNCHANGED Accounts!uservars
      PROVE  users' = users
  BY <1>5 DEF Accounts!PhoneLogin, Accounts!Expire, Accounts!uservars
<1> QED
  BY <1>1, <1>2, <1>3, <1>4, <1>5 DEF Accounts!Next, Accounts!Step

\* Ids and union ids are for ever, and unique.
LEMMA RowsKeep ==
    ASSUME AccountsInv, [Accounts!Next]_Accounts!uservars
    PROVE  /\ users' \in Seq(Profile)
           /\ \A u \in Accounts!Ids : u \in Accounts!Ids' /\ users'[u].union = users[u].union
           /\ UniqueRows'
<1>1. users \in Seq(Profile) /\ Len(users) \in Nat /\ Accounts!Ids = 1 .. Len(users)
      /\ \A u \in Accounts!Ids : users[u] \in Profile
  BY AccountRows DEF AccountsInv, AccountType
<1>2. UniqueRows
  BY DEF AccountsInv
<1>3. CASE users' = users
  BY <1>1, <1>2, <1>3 DEF UniqueRows, Accounts!Ids
<1>4. ASSUME NEW p \in Procs, Inserted(p)
      PROVE  /\ users' \in Seq(Profile)
             /\ \A u \in Accounts!Ids : u \in Accounts!Ids' /\ users'[u].union = users[u].union
             /\ UniqueRows'
  <2> DEFINE row == call[p].row
             n == Len(users) + 1
  <2>1. row \in Profile
    BY <1>4 DEF Inserted, AccountsInv, AccountCall
  <2>2. users' \in Seq(Profile) /\ Len(users') = n
        /\ (\A u \in 1 .. Len(users) : users'[u] = users[u]) /\ users'[n] = row
    BY <1>1, <1>4, <2>1 DEF Inserted
  <2>3. Accounts!Ids' = Accounts!Ids \cup {n}
    BY <1>1, <2>2 DEF Accounts!Ids
  <2>4. \A v \in Accounts!Ids : /\ row.union # "none" => users[v].union # row.union
                                /\ row.phone # "none" => users[v].phone # row.phone
    BY <1>1, <1>4 DEF Inserted, Accounts!Duplicate, Accounts!None
  <2>5. ASSUME NEW u \in Accounts!Ids', NEW v \in Accounts!Ids', u # v
        PROVE  /\ users'[u].union # "none" => users'[v].union # users'[u].union
               /\ users'[u].phone # "none" => users'[v].phone # users'[u].phone
    <3>1. CASE u \in Accounts!Ids /\ v \in Accounts!Ids
      BY <1>1, <1>2, <2>2, <2>5, <3>1 DEF UniqueRows
    <3>2. CASE u = n /\ v \in Accounts!Ids
      BY <1>1, <2>2, <2>4, <3>2
    <3>3. CASE v = n /\ u \in Accounts!Ids
      BY <1>1, <2>2, <2>4, <3>3
    <3> QED
      BY <2>3, <2>5, <3>1, <3>2, <3>3
  <2> QED
    BY <1>1, <2>2, <2>3, <2>5 DEF UniqueRows
<1>5. ASSUME NEW u \in Accounts!Ids, NEW row \in Profile, Updated(u, row)
      PROVE  /\ users' \in Seq(Profile)
             /\ \A v \in Accounts!Ids : v \in Accounts!Ids' /\ users'[v].union = users[v].union
             /\ UniqueRows'
  <2> DEFINE new == Accounts!NonZero(users[u], row)
  <2>1. new \in Profile
    BY <1>1 DEF Accounts!NonZero, Profile
  <2>2. /\ new.union = users[u].union
        /\ new.phone = IF row.phone = "none" THEN users[u].phone ELSE row.phone
    BY <1>5 DEF Accounts!NonZero, Accounts!None, Updated
  <2>3. users' \in Seq(Profile) /\ Accounts!Ids' = Accounts!Ids
        /\ users'[u] = new /\ \A v \in Accounts!Ids \ {u} : users'[v] = users[v]
    BY <1>1, <1>5, <2>1 DEF Updated, Accounts!Ids
  <2>4. \A v \in Accounts!Ids \ {u} : row.phone # "none" => users[v].phone # row.phone
    BY <1>5 DEF Updated, Accounts!Duplicate, Accounts!None
  <2>5. ASSUME NEW x \in Accounts!Ids, NEW v \in Accounts!Ids, x # v
        PROVE  /\ users'[x].union # "none" => users'[v].union # users'[x].union
               /\ users'[x].phone # "none" => users'[v].phone # users'[x].phone
    <3>1. CASE x # u /\ v # u
      BY <1>2, <2>3, <2>5, <3>1 DEF UniqueRows
    <3>2. CASE x = u
      BY <1>2, <2>2, <2>3, <2>4, <2>5, <3>2 DEF UniqueRows
    <3>3. CASE v = u
      BY <1>2, <2>2, <2>3, <2>4, <2>5, <3>3 DEF UniqueRows
    <3> QED
      BY <3>1, <3>2, <3>3
  <2> QED
    BY <2>2, <2>3, <2>5 DEF UniqueRows
<1> QED
  BY <1>3, <1>4, <1>5, RowsChange

\* A process goes on, and no other.
Goes(p) ==
    /\ call' \in [Procs -> CallType]
    /\ \A q \in Procs \ {p} : call'[q] = call[q]

LEMMA Begun ==
    ASSUME AccountsInv, NEW p \in Procs, NEW op, NEW who, NEW app, NEW uid, NEW row,
           [op |-> op, who |-> who, app |-> app, uid |-> uid, row |-> row] \in CallType,
           Accounts!Begin(p, op, who, app, uid, row)
    PROVE  /\ call[p].op = "idle" /\ calls' \in 0 .. MaxLogins /\ calls' = calls + 1
           /\ Goes(p)
           /\ call'[p] = [op |-> op, who |-> who, app |-> app, uid |-> uid, row |-> row]
<1>1. calls < MaxLogins /\ calls' = calls + 1 /\ MaxLogins \in Nat /\ calls \in Nat
  BY AccountAssumption DEF Accounts!Begin, AccountsInv, AccountType
<1>2. calls' \in 0 .. MaxLogins
  BY <1>1
<1>3. call[p].op = "idle"
  BY DEF Accounts!Begin, Accounts!Idle
<1> DEFINE c == [op |-> op, who |-> who, app |-> app, uid |-> uid, row |-> row]
<1>4. call' = [call EXCEPT ![p] = c] /\ call \in [Procs -> CallType] /\ c \in CallType
  BY DEF Accounts!Begin, AccountsInv, AccountType
<1>5. Goes(p) /\ call'[p] = c
  <2> HIDE DEF c
  <2> QED
    BY <1>4 DEF Goes
<1> QED
  BY <1>1, <1>2, <1>3, <1>5

LEMMA GoesOn ==
    ASSUME AccountsInv, NEW p \in Procs, NEW op \in AccountOps, Accounts!Goto(p, op)
    PROVE  Goes(p) /\ call'[p] = [call[p] EXCEPT !.op = op]
BY ZenonT(30) DEF AccountsInv, AccountType, Accounts!Goto, Goes, CallType

LEMMA Returns ==
    ASSUME AccountsInv, NEW p \in Procs, Accounts!Return(p)
    PROVE  Goes(p) /\ call'[p].op = "idle"
BY DEF AccountsInv, AccountType, Accounts!Return, Goes, CallType, AccountOps, Accounts!Idle, Accounts!None

\* The steps that write no row.
Reading ==
    \/ \E p \in Procs :
          \/ \E who \in WechatUsers, a \in Accounts!Apps : Accounts!FindByWechat(p, who, a)
          \/ Accounts!ReturnFound(p) \/ Accounts!Produce(p)
          \/ \E phone \in Mobiles : Accounts!CreateWithPhone(p, phone)
          \/ Accounts!DeleteProfile(p)
          \/ \E u \in Accounts!Uids : Accounts!FindById(p, u)
          \/ Accounts!SetProfile(p)
    \/ \E phone \in Mobiles : Accounts!PhoneLogin(phone)
    \/ \E u \in Accounts!Uids : Accounts!Expire(u)
    \/ UNCHANGED Accounts!uservars

LEMMA ReadingWritesNoRow ==
    Reading => users' = users /\ edited' = edited /\ overlapped' = overlapped
BY DEF Reading, Accounts!FindByWechat, Accounts!ReturnFound, Accounts!Produce, Accounts!CreateWithPhone,
       Accounts!DeleteProfile, Accounts!FindById, Accounts!SetProfile, Accounts!PhoneLogin,
       Accounts!Expire, Accounts!uservars

LEMMA AccountSteps ==
    ASSUME AccountsInv, [Accounts!Next]_Accounts!uservars
    PROVE  \/ Reading
           \/ \E p \in Procs : Accounts!UpdateWechat(p) \/ Accounts!Insert(p)
           \/ \E p \in Procs, u \in Accounts!Uids, row \in Profile :
                 Edit(row) /\ Accounts!UpdateNonSensitiveInfo(p, u, row)
<1>1. ASSUME NEW p \in Procs, NEW u \in Accounts!Uids,
             Accounts!EditName(p, u) \/ \E phone \in Mobiles : Accounts!BindPhone(p, u, phone)
      PROVE  \E row \in Profile : Edit(row) /\ Accounts!UpdateNonSensitiveInfo(p, u, row)
  BY <1>1, EditsAreEdits DEF Edit
<1> QED
  BY <1>1 DEF Accounts!Next, Accounts!Step, Reading

\* Of those not overlapped, the name and the phone are what they were set to,
\* and nobody writes another over what a login has found.
LEMMA NamesStay ==
    ASSUME AccountsInv, [Accounts!Next]_Accounts!uservars, NEW u \in Accounts!Ids
    PROVE  /\ overlapped \subseteq overlapped'
           /\ u \notin overlapped' =>
                 /\ <<users'[u].name, users'[u].phone>> = edited'[u]
                 /\ \A q \in Procs : call[q].op = "found" /\ call[q].uid = u =>
                       users'[u].name = users[u].name /\ users'[u].phone = users[u].phone
<1> DEFINE Stay == /\ <<users'[u].name, users'[u].phone>> = edited'[u]
                   /\ users'[u].name = users[u].name /\ users'[u].phone = users[u].phone
<1>1. users \in Seq(Profile) /\ Len(users) \in Nat /\ Accounts!Ids = 1 .. Len(users)
      /\ u \in 1 .. Len(users) /\ users[u] \in Profile
  BY AccountRows DEF AccountsInv, AccountType
<1>2. u \notin overlapped => <<users[u].name, users[u].phone>> = edited[u]
  BY DEF AccountsInv, Accounts!EditsStay
<1>3. u \in Accounts!Uids /\ edited \in [Accounts!Uids -> Nat \X (Mobiles \cup {"none"})]
      /\ edited[u] = <<edited[u][1], edited[u][2]>>
  <2>1. calls \in 0 .. MaxLogins /\ Len(users) <= calls
    <3>1. Cardinality(Doing("insert")) \in Nat
      <4>1. IsFiniteSet(Procs) /\ Doing("insert") \subseteq Procs
        BY AccountAssumption DEF Doing
      <4> QED
        BY <4>1, FS_Subset, FS_CardinalityType
    <3> QED
      BY <1>1, <3>1 DEF AccountsInv, RowsHaveIds, AccountType
  <2>2. u \in 1 .. MaxLogins
    BY <1>1, <2>1, AccountAssumption
  <2> QED
    BY <2>2 DEF Accounts!Uids, AccountsInv, AccountType
<1>4. CASE Reading
  BY <1>2, <1>4, ReadingWritesNoRow
<1>5. ASSUME NEW p \in Procs, Accounts!Insert(p)
      PROVE  overlapped' = overlapped /\ (u \notin overlapped' => Stay)
  <2>1. CASE UNCHANGED <<users, edited>>
    BY <1>2, <1>5, <2>1 DEF Accounts!Insert
  <2>2. CASE /\ users' = Append(users, call[p].row)
             /\ edited' = [edited EXCEPT ![Len(users) + 1] = <<0, call[p].row.phone>>]
    <3>1. users'[u] = users[u]
      BY <1>1, <2>2
    <3>2. edited'[u] = edited[u]
      BY <1>1, <1>3, <2>2
    <3> QED
      BY <1>2, <1>5, <3>1, <3>2 DEF Accounts!Insert
  <2> QED
    BY <1>5, <2>1, <2>2 DEF Accounts!Insert
<1>6. ASSUME NEW p \in Procs, Accounts!UpdateWechat(p)
      PROVE  overlapped' = overlapped /\ (u \notin overlapped' => Stay)
  <2> DEFINE c == call[p]
             row == [c.row EXCEPT !.open = {c.app}]
  <2>1. overlapped' = overlapped /\ edited' = edited
    BY <1>6 DEF Accounts!UpdateWechat
  <2>2. CASE users' = users
    BY <1>2, <2>1, <2>2
  <2>3. CASE Accounts!UpdateNonZeroFields(c.uid, row)
    <3>1. users' = [users EXCEPT ![c.uid] = Accounts!NonZero(users[c.uid], row)]
      BY <2>3 DEF Accounts!UpdateNonZeroFields
    <3>2. CASE c.uid # u
      BY <1>1, <1>2, <2>1, <3>1, <3>2
    <3>3. ASSUME c.uid = u, u \notin overlapped
          PROVE  Stay
      <4>1. c.row \in Profile /\ c.row.name = users[u].name /\ c.row.phone = users[u].phone
        BY <1>6, <3>3 DEF AccountsInv, AccountCall, Accounts!UpdateWechat
      <4>2. row.name = c.row.name /\ row.phone = c.row.phone
        BY <4>1 DEF Profile
      <4>3. users'[u] = Accounts!NonZero(users[u], row)
        BY <1>1, <3>1, <3>3
      <4>4. users'[u].name = users[u].name /\ users'[u].phone = users[u].phone
        BY <4>1, <4>2, <4>3 DEF Accounts!NonZero
      <4> QED
        BY <1>2, <2>1, <3>3, <4>4
    <3> QED
      BY <2>1, <3>2, <3>3
  <2> QED
    BY <1>6, <2>2, <2>3 DEF Accounts!UpdateWechat
<1>7. ASSUME NEW p \in Procs, NEW v \in Accounts!Uids, NEW row \in Profile, Edit(row),
             Accounts!UpdateNonSensitiveInfo(p, v, row)
      PROVE  /\ overlapped \subseteq overlapped'
             /\ u \notin overlapped' =>
                   /\ <<users'[u].name, users'[u].phone>> = edited'[u]
                   /\ u # v => Stay
                   /\ u = v => \A q \in Procs : ~(call[q].op = "found" /\ call[q].uid = u)
  <2>1. /\ overlapped' = overlapped \cup
                           {x \in {v} : \E q \in Procs : call[q].op = "found" /\ call[q].uid = x}
        /\ users' = [users EXCEPT ![v] = Accounts!NonZero(users[v], row)]
        /\ edited' = [edited EXCEPT ![v] =
                         <<IF row.name = 0 THEN edited[v][1] ELSE row.name,
                           IF row.phone = "none" THEN edited[v][2] ELSE row.phone>>]
    BY <1>7 DEF Accounts!UpdateNonSensitiveInfo, Accounts!UpdateNonZeroFields, Accounts!None
  <2>2. CASE u # v
    BY <1>1, <1>2, <1>3, <2>1, <2>2
  <2>3. ASSUME u = v, u \notin overlapped'
        PROVE  /\ <<users'[u].name, users'[u].phone>> = edited'[u]
               /\ \A q \in Procs : ~(call[q].op = "found" /\ call[q].uid = u)
    <3>1. u \notin overlapped /\ \A q \in Procs : ~(call[q].op = "found" /\ call[q].uid = u)
      BY <2>1, <2>3
    <3>2. users[u].name = edited[u][1] /\ users[u].phone = edited[u][2]
      BY <1>2, <3>1
    <3>3. users'[u] = Accounts!NonZero(users[u], row)
      BY <1>1, <2>1, <2>3
    <3>4. edited'[u] = <<IF row.name = 0 THEN edited[u][1] ELSE row.name,
                         IF row.phone = "none" THEN edited[u][2] ELSE row.phone>>
      BY <1>3, <2>1, <2>3
    <3> QED
      BY <3>1, <3>2, <3>3, <3>4 DEF Accounts!NonZero, Accounts!None
  <2> QED
    BY <2>1, <2>2, <2>3
<1> QED
  BY <1>4, <1>5, <1>6, <1>7, AccountSteps

\* What stands still goes on to hold what it held.
LEMMA CallsKeep ==
    ASSUME AccountsInv, [Accounts!Next]_Accounts!uservars, NEW q \in Procs, call'[q] = call[q]
    PROVE  AccountCall(q)'
<1>1. \A u \in Accounts!Ids : u \in Accounts!Ids' /\ users'[u].union = users[u].union
  BY RowsKeep
<1>2. AccountCall(q)
  BY DEF AccountsInv
<1>3. ASSUME call[q].op = "found", call[q].uid \notin overlapped'
      PROVE  /\ call[q].row.name = users'[call[q].uid].name
             /\ call[q].row.phone = users'[call[q].uid].phone
  <2>1. call[q].uid \in Accounts!Ids /\ call[q].uid \notin overlapped
    BY <1>2, <1>3, NamesStay DEF AccountCall
  <2> QED
    BY <1>2, <1>3, <2>1, NamesStay DEF AccountCall
<1> QED
  BY <1>1, <1>2, <1>3 DEF AccountCall

\* What a step of p does to the row to come, and to the announcement.
Counted(p) ==
    \/ /\ call[p].op # "insert" /\ call'[p].op # "insert" /\ Len(users') = Len(users)
       /\ calls' \in {calls, calls + 1}
    \/ /\ call[p].op # "insert" /\ call'[p].op = "insert" /\ Len(users') = Len(users)
       /\ calls' = calls + 1
    \/ /\ call[p].op = "insert" /\ call'[p].op # "insert"
       /\ Len(users') \in {Len(users), Len(users) + 1}
       /\ calls' = calls

Moves(p) ==
    /\ Goes(p) /\ AccountCall(p)' /\ calls' \in 0 .. MaxLogins /\ Counted(p)

LEMMA LoginMoves ==
    ASSUME AccountsInv, NEW p \in Procs, [Accounts!Next]_Accounts!uservars,
           \/ \E who \in WechatUsers, a \in Accounts!Apps : Accounts!FindByWechat(p, who, a)
           \/ \E phone \in Mobiles : Accounts!CreateWithPhone(p, phone)
           \/ \E u \in Accounts!Uids : Accounts!FindById(p, u)
    PROVE  Moves(p)
<1>1. AccountType /\ users \in Seq(Profile) /\ Len(users) \in Nat
      /\ \A u \in Accounts!Ids : u \in Nat /\ users[u] \in Profile
  BY AccountRows DEF AccountsInv, AccountType
<1>2. ASSUME NEW who \in WechatUsers, NEW a \in Accounts!Apps, Accounts!FindByWechat(p, who, a)
      PROVE  Moves(p)
  <2>1. users' = users /\ overlapped' = overlapped
    BY <1>2 DEF Accounts!FindByWechat
  <2>2. ASSUME NEW u \in Accounts!ByWechat(who), Accounts!Begin(p, "found", who, a, u, users[u])
        PROVE  Moves(p)
    <3> DEFINE c == [op |-> "found", who |-> who, app |-> a, uid |-> u, row |-> users[u]]
    <3>1. u \in Accounts!Ids /\ users[u].union = who
      BY <2>2 DEF Accounts!ByWechat
    <3>2. c \in CallType
      BY <1>1, <3>1 DEF CallType, AccountOps, Visitor
    <3>3. call[p].op = "idle" /\ calls' \in 0 .. MaxLogins /\ calls' = calls + 1 /\ Goes(p)
          /\ call'[p] = c
      BY <2>2, <3>2, Begun
    <3>4. AccountCall(p)'
      BY <1>1, <2>1, <3>1, <3>3 DEF AccountCall, Accounts!Ids
    <3> QED
      BY <2>1, <3>3, <3>4 DEF Moves, Counted
  <2>3. ASSUME Accounts!Begin(p, "insert", who, a, 0, Accounts!NewRow(who, Accounts!None, {a}))
        PROVE  Moves(p)
    <3> DEFINE row == Accounts!NewRow(who, "none", {a})
               c == [op |-> "insert", who |-> who, app |-> a, uid |-> 0, row |-> row]
    <3>1. row \in Profile /\ row.name = 0 /\ row.union = who
      BY DEF Profile, Accounts!NewRow
    <3>2. c \in CallType
      BY <3>1 DEF CallType, AccountOps, Visitor
    <3>3. call[p].op = "idle" /\ calls' \in 0 .. MaxLogins /\ calls' = calls + 1 /\ Goes(p)
          /\ call'[p] = c
      <4> HIDE DEF row
      <4> QED
        BY <2>3, <3>2, Begun DEF Accounts!None, row
    <3>4. AccountCall(p)'
      <4> HIDE DEF row
      <4> QED
        BY <3>1, <3>3 DEF AccountCall, Visitor
    <3> QED
      BY <2>1, <3>3, <3>4 DEF Moves, Counted
  <2> QED
    BY <1>2, <2>2, <2>3 DEF Accounts!FindByWechat
<1>3. ASSUME NEW phone \in Mobiles, Accounts!CreateWithPhone(p, phone)
      PROVE  Moves(p)
  <2> DEFINE row == Accounts!NewRow("none", phone, {})
             c == [op |-> "insert", who |-> phone, app |-> "none", uid |-> 0, row |-> row]
  <2>1. users' = users /\ overlapped' = overlapped
        /\ Accounts!Begin(p, "insert", phone, "none", 0, row)
    BY <1>3 DEF Accounts!CreateWithPhone, Accounts!None
  <2>2. row \in Profile /\ row.name = 0
    BY DEF Profile, Accounts!NewRow
  <2>3. c \in CallType
    BY <2>2 DEF CallType, AccountOps, Visitor
  <2>4. call[p].op = "idle" /\ calls' \in 0 .. MaxLogins /\ calls' = calls + 1 /\ Goes(p)
        /\ call'[p] = c
    <3> HIDE DEF row
    <3> QED
      BY <2>1, <2>3, Begun
  <2>5. AccountCall(p)'
    <3> HIDE DEF row
    <3> QED
      BY <2>2, <2>4, AccountAssumption DEF AccountCall, Visitor
  <2> QED
    BY <2>1, <2>4, <2>5 DEF Moves, Counted
<1>4. ASSUME NEW u \in Accounts!Uids, Accounts!FindById(p, u)
      PROVE  Moves(p)
  <2> DEFINE c == [op |-> "remember", who |-> "none", app |-> "none", uid |-> u, row |-> users[u]]
  <2>1. users' = users /\ u \in Accounts!Ids
        /\ Accounts!Begin(p, "remember", "none", "none", u, users[u])
    BY <1>4 DEF Accounts!FindById, Accounts!None
  <2>2. c \in CallType
    BY <1>1, <2>1 DEF CallType, AccountOps
  <2>3. call[p].op = "idle" /\ calls' \in 0 .. MaxLogins /\ calls' = calls + 1 /\ Goes(p)
        /\ call'[p] = c
    BY <2>1, <2>2, Begun
  <2>4. AccountCall(p)'
    BY <1>1, <2>1, <2>3 DEF AccountCall, Accounts!Ids
  <2> QED
    BY <2>1, <2>3, <2>4 DEF Moves, Counted
<1> QED
  BY <1>2, <1>3, <1>4

LEMMA ReturnMoves ==
    ASSUME AccountsInv, NEW p \in Procs,
           \/ Accounts!ReturnFound(p) \/ Accounts!Produce(p)
           \/ Accounts!DeleteProfile(p) \/ Accounts!SetProfile(p)
    PROVE  Moves(p)
<1>1. /\ Accounts!Return(p) /\ users' = users /\ calls' = calls
      /\ call[p].op \in {"found", "announce", "forget", "remember"}
  BY DEF Accounts!ReturnFound, Accounts!Produce, Accounts!DeleteProfile, Accounts!SetProfile
<1>2. Goes(p) /\ call'[p].op = "idle"
  BY <1>1, Returns
<1>3. AccountCall(p)'
  BY <1>2 DEF AccountCall
<1> QED
  BY <1>1, <1>2, <1>3 DEF Moves, Counted, AccountsInv, AccountType

LEMMA WriteMoves ==
    ASSUME AccountsInv, NEW p \in Procs, [Accounts!Next]_Accounts!uservars,
           \/ Accounts!UpdateWechat(p) \/ Accounts!Insert(p)
           \/ \E u \in Accounts!Uids, row \in Profile :
                 Edit(row) /\ Accounts!UpdateNonSensitiveInfo(p, u, row)
    PROVE  Moves(p)
<1>1. AccountType /\ users \in Seq(Profile) /\ Len(users) \in Nat
      /\ Accounts!Ids = 1 .. Len(users)
      /\ \A u \in Accounts!Ids : u \in Nat /\ users[u] \in Profile
  BY AccountRows DEF AccountsInv, AccountType
<1>2. \A u \in Accounts!Ids : u \in Accounts!Ids' /\ users'[u].union = users[u].union
  BY RowsKeep
<1>3. ASSUME Accounts!UpdateWechat(p)
      PROVE  Moves(p)
  <2> DEFINE c == call[p]
             row == [c.row EXCEPT !.open = {c.app}]
  <2>1. /\ c.op = "found" /\ c.who \in WechatUsers /\ c.uid \in Accounts!Ids
        /\ users[c.uid].union = c.who /\ calls' = calls /\ calls \in 0 .. MaxLogins
    BY <1>1, <1>3 DEF AccountsInv, AccountCall, Accounts!UpdateWechat, AccountType
  <2>2. CASE users' = users /\ Accounts!Return(p)
    <3>1. Goes(p) /\ call'[p].op = "idle"
      BY <2>2, Returns
    <3> QED
      BY <2>1, <2>2, <3>1 DEF Moves, Counted, AccountCall
  <2>3. CASE Accounts!UpdateNonZeroFields(c.uid, row) /\ Accounts!Goto(p, "forget")
    <3>1. Goes(p) /\ call'[p] = [call[p] EXCEPT !.op = "forget"]
      BY <2>3, GoesOn DEF AccountOps
    <3>2. call[p] \in CallType
      BY <1>1 DEF AccountType
    <3>3. call'[p].op = "forget" /\ call'[p].who = c.who /\ call'[p].uid = c.uid
      BY <3>1, <3>2 DEF CallType
    <3>4. AccountCall(p)'
      BY <1>2, <2>1, <3>3 DEF AccountCall
    <3>5. Len(users') = Len(users)
      BY <1>1, <2>3 DEF Accounts!UpdateNonZeroFields
    <3> QED
      BY <2>1, <3>1, <3>3, <3>4, <3>5 DEF Moves, Counted
  <2> QED
    BY <1>3, <2>2, <2>3 DEF Accounts!UpdateWechat
<1>4. ASSUME Accounts!Insert(p)
      PROVE  Moves(p)
  <2> DEFINE c == call[p]
             n == Len(users) + 1
  <2>1. /\ c.op = "insert" /\ c.who \in Visitor /\ c.row \in Profile
        /\ c.who \in WechatUsers => c.row.union = c.who
        /\ calls' = calls /\ calls \in 0 .. MaxLogins
    BY <1>1, <1>4 DEF AccountsInv, AccountCall, Accounts!Insert, AccountType
  <2>2. CASE users' = users /\ Accounts!Return(p)
    <3>1. Goes(p) /\ call'[p].op = "idle"
      BY <2>2, Returns
    <3> QED
      BY <2>1, <2>2, <3>1 DEF Moves, Counted, AccountCall
  <2>3. CASE /\ users' = Append(users, c.row)
             /\ call' = [call EXCEPT ![p].op = "announce", ![p].uid = n]
    <3>1. call \in [Procs -> CallType] /\ n \in Nat
      BY <1>1 DEF AccountType
    <3>2. Goes(p) /\ call'[p].op = "announce" /\ call'[p].who = c.who /\ call'[p].uid = n
      BY <2>3, <3>1 DEF Goes, CallType, AccountOps
    <3>3. Len(users') = n /\ n \in Accounts!Ids' /\ users'[n] = c.row
      BY <1>1, <2>1, <2>3 DEF Accounts!Ids
    <3>4. AccountCall(p)'
      BY <2>1, <3>2, <3>3 DEF AccountCall
    <3> QED
      BY <2>1, <3>2, <3>3, <3>4 DEF Moves, Counted
  <2> QED
    BY <1>4, <2>2, <2>3 DEF Accounts!Insert
<1>5. ASSUME NEW u \in Accounts!Uids, NEW row \in Profile, Edit(row),
             Accounts!UpdateNonSensitiveInfo(p, u, row)
      PROVE  Moves(p)
  <2> DEFINE c == [op |-> "forget", who |-> "none", app |-> "none", uid |-> u, row |-> <<>>]
  <2>1. /\ u \in Accounts!Ids /\ Accounts!Begin(p, "forget", "none", "none", u, <<>>)
        /\ users' = [users EXCEPT ![u] = Accounts!NonZero(users[u], row)]
    BY <1>5 DEF Accounts!UpdateNonSensitiveInfo, Accounts!UpdateNonZeroFields, Accounts!None
  <2>2. c \in CallType
    BY <1>1, <2>1 DEF CallType, AccountOps
  <2>3. call[p].op = "idle" /\ calls' \in 0 .. MaxLogins /\ calls' = calls + 1 /\ Goes(p)
        /\ call'[p] = c
    BY <2>1, <2>2, Begun
  <2>4. AccountCall(p)'
    BY <1>2, <2>1, <2>3, AccountAssumption DEF AccountCall
  <2>5. Len(users') = Len(users)
    BY <1>1, <2>1
  <2> QED
    BY <2>3, <2>4, <2>5 DEF Moves, Counted
<1> QED
  BY <1>3, <1>4, <1>5

\* A step is one of a process, or none of any.
LEMMA StepsMove ==
    ASSUME AccountsInv, [Accounts!Next]_Accounts!uservars
    PROVE  \/ call' = call /\ users' = users /\ calls' \in {calls, calls + 1} /\ calls' \in 0 .. MaxLogins
           \/ \E p \in Procs : Moves(p)
<1>1. calls \in 0 .. MaxLogins /\ MaxLogins \in Nat
  BY AccountAssumption DEF AccountsInv, AccountType
<1>2. CASE \/ \E phone \in Mobiles : Accounts!PhoneLogin(phone)
           \/ \E u \in Accounts!Uids : Accounts!Expire(u)
           \/ UNCHANGED Accounts!uservars
  BY <1>1, <1>2 DEF Accounts!PhoneLogin, Accounts!Expire, Accounts!uservars
<1> QED
  BY <1>2, AccountSteps, LoginMoves, ReturnMoves, WriteMoves DEF Reading

LEMMA CallsNext ==
    ASSUME AccountsInv, [Accounts!Next]_Accounts!uservars
    PROVE  /\ call' \in [Procs -> CallType] /\ calls' \in 0 .. MaxLogins
           /\ \A q \in Procs : AccountCall(q)'
           /\ RowsHaveIds'
<1>1. call \in [Procs -> CallType] /\ RowsHaveIds /\ calls \in Nat /\ Len(users) \in Nat
  BY AccountRows, AccountAssumption DEF AccountsInv, AccountType
<1>2. IsFiniteSet(Doing("insert")) /\ Cardinality(Doing("insert")) \in Nat
  <2>1. IsFiniteSet(Procs) /\ Doing("insert") \subseteq Procs
    BY AccountAssumption DEF Doing
  <2> QED
    BY <2>1, FS_Subset, FS_CardinalityType
<1>3. CASE call' = call /\ users' = users /\ calls' \in {calls, calls + 1} /\ calls' \in 0 .. MaxLogins
  <2>1. Doing("insert")' = Doing("insert")
    BY <1>3 DEF Doing
  <2> QED
    BY <1>1, <1>2, <1>3, <2>1, CallsKeep DEF RowsHaveIds
<1>4. ASSUME NEW p \in Procs, Moves(p)
      PROVE  /\ call' \in [Procs -> CallType] /\ calls' \in 0 .. MaxLogins
             /\ \A q \in Procs : AccountCall(q)'
             /\ RowsHaveIds'
  <2>1. \A q \in Procs : AccountCall(q)'
    BY <1>4, CallsKeep DEF Moves, Goes
  <2>2. Goes(p) /\ Counted(p)
    BY <1>4 DEF Moves
  <2>3. RowsHaveIds'
    <3>1. CASE /\ call[p].op # "insert" /\ call'[p].op # "insert" /\ Len(users') = Len(users)
               /\ calls' \in {calls, calls + 1}
      <4>1. Doing("insert")' = Doing("insert")
        BY <2>2, <3>1 DEF Doing, Goes
      <4> QED
        BY <1>1, <1>2, <3>1, <4>1 DEF RowsHaveIds
    <3>2. CASE /\ call[p].op # "insert" /\ call'[p].op = "insert" /\ Len(users') = Len(users)
               /\ calls' = calls + 1
      <4>1. Doing("insert")' = Doing("insert") \cup {p} /\ p \notin Doing("insert")
        BY <2>2, <3>2 DEF Doing, Goes
      <4> QED
        BY <1>1, <1>2, <3>2, <4>1, OneMore DEF RowsHaveIds
    <3>3. CASE /\ call[p].op = "insert" /\ call'[p].op # "insert"
               /\ Len(users') \in {Len(users), Len(users) + 1} /\ calls' = calls
      <4>1. Doing("insert")' = Doing("insert") \ {p} /\ p \in Doing("insert")
        BY <2>2, <3>3 DEF Doing, Goes
      <4> QED
        BY <1>1, <1>2, <3>3, <4>1, OneLess DEF RowsHaveIds
    <3> QED
      BY <2>2, <3>1, <3>2, <3>3 DEF Counted
  <2> QED
    BY <1>4, <2>1, <2>3 DEF Moves, Goes
<1> QED
  BY <1>3, <1>4, StepsMove

LEMMA RowsHaveTheirIds ==
    ASSUME AccountType, RowsHaveIds
    PROVE  Accounts!Ids \subseteq Accounts!Uids
<1>1. IsFiniteSet(Doing("insert")) /\ Cardinality(Doing("insert")) \in Nat
  <2>1. IsFiniteSet(Procs) /\ Doing("insert") \subseteq Procs
    BY AccountAssumption DEF Doing
  <2> QED
    BY <2>1, FS_Subset, FS_CardinalityType
<1>2. calls \in 0 .. MaxLogins /\ Len(users) \in Nat /\ MaxLogins \in Nat
      /\ Accounts!Ids = 1 .. Len(users)
  BY AccountRows, AccountAssumption DEF AccountType
<1>3. Len(users) <= MaxLogins
  BY <1>1, <1>2 DEF RowsHaveIds
<1> QED
  BY <1>2, <1>3 DEF Accounts!Uids

\* An id is free for the row that Insert makes.
LEMMA InsertHasAnId ==
    ASSUME AccountsInv, NEW p \in Procs, call[p].op = "insert"
    PROVE  Len(users) + 1 \in Accounts!Uids \ Accounts!Ids
<1>1. IsFiniteSet(Doing("insert")) /\ p \in Doing("insert")
  <2>1. IsFiniteSet(Procs) /\ Doing("insert") \subseteq Procs
    BY AccountAssumption DEF Doing
  <2> QED
    BY <2>1, FS_Subset DEF Doing
<1>2. Cardinality(Doing("insert")) \in Nat \ {0}
  BY <1>1, FS_CardinalityType, FS_EmptySet
<1>3. calls \in 0 .. MaxLogins /\ Len(users) \in Nat /\ MaxLogins \in Nat
      /\ Accounts!Ids = 1 .. Len(users) /\ Len(users) + Cardinality(Doing("insert")) <= calls
  BY AccountRows, AccountAssumption DEF AccountsInv, AccountType, RowsHaveIds
<1>4. Len(users) + 1 <= MaxLogins
  BY <1>2, <1>3
<1> QED
  BY <1>3, <1>4 DEF Accounts!Uids

Cached == {<<>>} \cup {<<r>> : r \in Profile}

\* Where a row or its traces come from: what a step does with the cache, the
\* events, what owners have set, and the sessions.
LEMMA TracesNext ==
    ASSUME AccountsInv, [Accounts!Next]_Accounts!uservars
    PROVE  /\ cached' \in [Accounts!Uids -> Cached]
           /\ registered' \in [Accounts!Uids -> Nat]
           /\ edited' \in [Accounts!Uids -> Nat \X (Mobiles \cup {"none"})]
           /\ faults' \in Nat
           /\ IdsAreFresh'
<1> DEFINE Edits == Nat \X (Mobiles \cup {"none"})
           Good == /\ cached' \in [Accounts!Uids -> Cached]
                   /\ registered' \in [Accounts!Uids -> Nat]
                   /\ edited' \in [Accounts!Uids -> Edits]
                   /\ faults' \in Nat
                   /\ \A u \in Accounts!Uids \ Accounts!Ids : registered'[u] = 0 /\ cached'[u] = <<>>
<1>1. /\ cached \in [Accounts!Uids -> Cached] /\ registered \in [Accounts!Uids -> Nat]
      /\ edited \in [Accounts!Uids -> Edits] /\ faults \in Nat
      /\ users \in Seq(Profile) /\ \A u \in Accounts!Ids : users[u] \in Profile
  BY AccountRows DEF AccountsInv, AccountType, Cached
<1>2. \A u \in Accounts!Uids \ Accounts!Ids : registered[u] = 0 /\ cached[u] = <<>>
  BY DEF AccountsInv, IdsAreFresh
<1>3. Accounts!Ids \subseteq Accounts!Uids /\ Accounts!Ids \subseteq Accounts!Ids'
  BY RowsKeep, RowsHaveTheirIds DEF AccountsInv
<1>4. \A q \in Procs : AccountCall(q)
  BY DEF AccountsInv
<1>5. CASE UNCHANGED <<cached, registered, edited>> /\ faults' \in {faults, faults + 1}
  <2>1. faults' \in Nat
    BY <1>1, <1>5
  <2> QED
    BY <1>1, <1>2, <1>3, <1>5, <2>1 DEF IdsAreFresh
<1>6. ASSUME NEW p \in Procs, Accounts!Produce(p)
      PROVE  Good
  <2>1. call[p].uid \in Accounts!Ids
    BY <1>4, <1>6 DEF AccountCall, Accounts!Produce
  <2>2. UNCHANGED <<cached, edited>>
    BY <1>6 DEF Accounts!Produce
  <2>3. CASE registered' = [registered EXCEPT ![call[p].uid] = @ + 1] /\ UNCHANGED faults
    BY <1>1, <1>2, <1>3, <2>1, <2>2, <2>3
  <2>4. CASE Accounts!Fault /\ UNCHANGED registered
    BY <1>1, <1>2, <2>2, <2>4 DEF Accounts!Fault
  <2> QED
    BY <1>6, <2>3, <2>4 DEF Accounts!Produce
<1>7. ASSUME NEW p \in Procs, Accounts!DeleteProfile(p)
      PROVE  Good
  <2>1. UNCHANGED <<registered, edited>>
    BY <1>7 DEF Accounts!DeleteProfile
  <2>2. CASE cached' = [cached EXCEPT ![call[p].uid] = <<>>] /\ UNCHANGED faults
    BY <1>1, <1>2, <2>1, <2>2 DEF Cached
  <2>3. CASE Accounts!Fault /\ UNCHANGED cached
    BY <1>1, <1>2, <2>1, <2>3 DEF Accounts!Fault
  <2> QED
    BY <1>7, <2>2, <2>3 DEF Accounts!DeleteProfile
<1>8. ASSUME NEW p \in Procs, Accounts!SetProfile(p)
      PROVE  Good
  <2>1. /\ UNCHANGED <<registered, edited, faults>>
        /\ cached' = [cached EXCEPT ![call[p].uid] = <<call[p].row>>]
    BY <1>8 DEF Accounts!SetProfile
  <2>2. call[p].uid \in Accounts!Ids /\ call[p].row \in Profile
    BY <1>4, <1>8 DEF AccountCall, Accounts!SetProfile
  <2>3. <<call[p].row>> \in Cached
    BY <2>2 DEF Cached
  <2> QED
    BY <1>1, <1>2, <1>3, <2>1, <2>2, <2>3
<1>9. ASSUME NEW u \in Accounts!Uids, Accounts!Expire(u)
      PROVE  Good
  BY <1>1, <1>2, <1>9 DEF Accounts!Expire, Cached
<1>10. ASSUME NEW p \in Procs, Accounts!Insert(p)
       PROVE  Good
  <2>1. UNCHANGED <<cached, registered, faults>>
    BY <1>10 DEF Accounts!Insert
  <2>2. CASE edited' = edited
    BY <1>1, <1>2, <2>1, <2>2
  <2>3. CASE edited' = [edited EXCEPT ![Len(users) + 1] = <<0, call[p].row.phone>>]
    <3>1. call[p].row \in Profile
      BY <1>4, <1>10 DEF AccountCall, Accounts!Insert
    <3>2. <<0, call[p].row.phone>> \in Edits
      BY <3>1 DEF Profile
    <3>3. edited' \in [Accounts!Uids -> Edits]
      BY <1>1, <2>3, <3>2
    <3> QED
      BY <1>1, <1>2, <2>1, <3>3
  <2> QED
    BY <1>10, <2>2, <2>3 DEF Accounts!Insert
<1>11. ASSUME NEW p \in Procs, NEW u \in Accounts!Uids, NEW row \in Profile,
              Accounts!UpdateNonSensitiveInfo(p, u, row)
       PROVE  Good
  <2> DEFINE set == <<IF row.name = 0 THEN edited[u][1] ELSE row.name,
                      IF row.phone = "none" THEN edited[u][2] ELSE row.phone>>
  <2>1. UNCHANGED <<cached, registered, faults>> /\ edited' = [edited EXCEPT ![u] = set]
    BY <1>11 DEF Accounts!UpdateNonSensitiveInfo, Accounts!None
  <2>2. edited[u] \in Edits
    BY <1>1, <1>11
  <2>3. set \in Edits
    BY <1>11, <2>2 DEF Profile
  <2>4. edited' \in [Accounts!Uids -> Edits]
    <3> HIDE DEF set
    <3> QED
      BY <1>1, <2>1, <2>3
  <2> QED
    BY <1>1, <1>2, <2>1, <2>4
<1>12. ASSUME \/ \E p \in Procs :
                    \/ \E who \in WechatUsers, a \in Accounts!Apps : Accounts!FindByWechat(p, who, a)
                    \/ Accounts!ReturnFound(p)
                    \/ \E phone \in Mobiles : Accounts!CreateWithPhone(p, phone)
                    \/ \E u \in Accounts!Uids : Accounts!FindById(p, u)
                    \/ Accounts!UpdateWechat(p)
              \/ \E phone \in Mobiles : Accounts!PhoneLogin(phone)
              \/ UNCHANGED Accounts!uservars
       PROVE  UNCHANGED <<cached, registered, edited>> /\ faults' \in {faults, faults + 1}
  BY <1>12 DEF Accounts!FindByWechat, Accounts!ReturnFound, Accounts!CreateWithPhone,
               Accounts!FindById, Accounts!UpdateWechat, Accounts!PhoneLogin, Accounts!uservars,
               Accounts!Fault
<1>13. Good => /\ cached' \in [Accounts!Uids -> Cached] /\ registered' \in [Accounts!Uids -> Nat]
               /\ edited' \in [Accounts!Uids -> Edits] /\ faults' \in Nat /\ IdsAreFresh'
  BY <1>3 DEF IdsAreFresh
<1> QED
  BY <1>5, <1>6, <1>7, <1>8, <1>9, <1>10, <1>11, <1>12, <1>13, AccountSteps DEF Reading

LEMMA SessionsNext ==
    ASSUME AccountsInv, [Accounts!Next]_Accounts!uservars
    PROVE  SessionsAreOfRows'
<1> DEFINE Right(s) == /\ s.who \in Visitor
                       /\ s.who \in WechatUsers => s.uid \in Accounts!Ids /\ users[s.uid].union = s.who
<1>1. \A s \in sessions : Right(s)
  BY DEF AccountsInv, SessionsAreOfRows
<1>2. \A u \in Accounts!Ids : u \in Accounts!Ids' /\ users'[u].union = users[u].union
  BY RowsKeep
<1>3. \A q \in Procs : AccountCall(q)
  BY DEF AccountsInv
<1>4. ASSUME NEW who, NEW uid, Right([who |-> who, uid |-> uid]), Accounts!LogIn(who, uid)
      PROVE  \A s \in sessions' : Right(s)
  BY <1>1, <1>4 DEF Accounts!LogIn
<1>5. ASSUME NEW p \in Procs, Accounts!UpdateWechat(p) \/ Accounts!ReturnFound(p)
      PROVE  \A s \in sessions' : Right(s)
  <2>1. Right([who |-> call[p].who, uid |-> call[p].uid])
    BY <1>3, <1>5 DEF AccountCall, Accounts!UpdateWechat, Accounts!ReturnFound, Visitor
  <2> QED
    BY <1>1, <1>4, <1>5, <2>1 DEF Accounts!UpdateWechat, Accounts!ReturnFound
<1>6. ASSUME NEW p \in Procs, Accounts!Produce(p)
      PROVE  \A s \in sessions' : Right(s)
  <2>1. Right([who |-> call[p].who, uid |-> call[p].uid])
    BY <1>3, <1>6 DEF AccountCall, Accounts!Produce
  <2> QED
    BY <1>4, <1>6, <2>1 DEF Accounts!Produce
<1>7. ASSUME NEW phone \in Mobiles, Accounts!PhoneLogin(phone)
      PROVE  \A s \in sessions' : Right(s)
  <2>1. phone \notin WechatUsers
    BY AccountAssumption
  <2>2. \A u : Right([who |-> phone, uid |-> u])
    BY <2>1 DEF Visitor
  <2> QED
    BY <1>4, <1>7, <2>2 DEF Accounts!PhoneLogin
<1>8. ASSUME NEW p \in Procs, Accounts!DeleteProfile(p)
      PROVE  \A s \in sessions' : Right(s)
  <2>1. call[p].uid \in Accounts!Ids /\ call[p].who \in WechatUsers \cup {"none"}
        /\ (call[p].who \in WechatUsers => users[call[p].uid].union = call[p].who)
    BY <1>3, <1>8 DEF AccountCall, Accounts!DeleteProfile
  <2>2. sessions' = sessions \cup {[who |-> w, uid |-> call[p].uid] : w \in {call[p].who} \ {"none"}}
    BY <1>8 DEF Accounts!DeleteProfile, Accounts!None
  <2> QED
    BY <1>1, <2>1, <2>2 DEF Visitor
<1>9. ASSUME \/ \E p \in Procs :
                   \/ \E who \in WechatUsers, a \in Accounts!Apps : Accounts!FindByWechat(p, who, a)
                   \/ \E phone \in Mobiles : Accounts!CreateWithPhone(p, phone)
                   \/ \E u \in Accounts!Uids : Accounts!FindById(p, u)
                   \/ Accounts!SetProfile(p) \/ Accounts!Insert(p)
             \/ \E p \in Procs, u \in Accounts!Uids, row \in Profile :
                   Accounts!UpdateNonSensitiveInfo(p, u, row)
             \/ \E u \in Accounts!Uids : Accounts!Expire(u)
             \/ UNCHANGED Accounts!uservars
      PROVE  sessions' = sessions
  BY <1>9 DEF Accounts!FindByWechat, Accounts!CreateWithPhone, Accounts!FindById, Accounts!SetProfile,
              Accounts!Insert, Accounts!UpdateNonSensitiveInfo, Accounts!Expire, Accounts!uservars
<1>10. \A s \in sessions' : Right(s)
  BY <1>1, <1>5, <1>6, <1>7, <1>8, <1>9, AccountSteps DEF Reading
<1> QED
  BY <1>2, <1>10 DEF SessionsAreOfRows

Announced(u) ==
    /\ registered[u] + Cardinality(Announcing(u)) <= 1
    /\ faults = 0 => registered[u] + Cardinality(Announcing(u)) = 1

LEMMA BeginIs ==
    ASSUME call \in [Procs -> CallType], NEW p \in Procs, NEW op, NEW who, NEW app, NEW uid, NEW row,
           Accounts!Begin(p, op, who, app, uid, row)
    PROVE  call[p].op = "idle" /\ call'[p].op = op
<1> DEFINE c == [op |-> op, who |-> who, app |-> app, uid |-> uid, row |-> row]
<1>1. call' = [call EXCEPT ![p] = c] /\ c.op = op
  BY DEF Accounts!Begin
<1>2. call'[p] = c
  <2> HIDE DEF c
  <2> QED
    BY <1>1
<1> QED
  BY <1>1, <1>2 DEF Accounts!Begin, Accounts!Idle

LEMMA AnnouncedIs ==
    /\ Accounts!AnnouncedOnce <=> \A u \in Accounts!Ids : Announced(u)
    /\ (\A u \in Accounts!Ids' : Announced(u)') => Accounts!AnnouncedOnce'
<1>1. \A S : Accounts!Cardinality(S) = Cardinality(S)
  BY DEF Accounts!Cardinality, Cardinality
<1> QED
  BY <1>1 DEF Accounts!AnnouncedOnce, Announced, Announcing

LEMMA AnnouncedNext ==
    ASSUME AccountsInv, [Accounts!Next]_Accounts!uservars
    PROVE  Accounts!AnnouncedOnce'
<1> SUFFICES ASSUME NEW u \in Accounts!Ids'
             PROVE  Announced(u)'
  BY AnnouncedIs
<1>1. \A v : IsFiniteSet(Announcing(v)) /\ Cardinality(Announcing(v)) \in Nat
  <2> TAKE v
  <2>1. IsFiniteSet(Procs) /\ Announcing(v) \subseteq Procs
    BY AccountAssumption DEF Announcing
  <2> QED
    BY <2>1, FS_Subset, FS_CardinalityType
<1>2. /\ registered \in [Accounts!Uids -> Nat] /\ faults \in Nat
      /\ call \in [Procs -> CallType]
      /\ users \in Seq(Profile) /\ Len(users) \in Nat /\ Accounts!Ids = 1 .. Len(users)
      /\ Accounts!Ids \subseteq Accounts!Uids
  BY AccountRows, RowsHaveTheirIds DEF AccountsInv, AccountType
<1>3. \A v \in Accounts!Ids : Announced(v)
  BY AnnouncedIs DEF AccountsInv
<1>4. \A q \in Procs : AccountCall(q)
  BY DEF AccountsInv
<1>5. ASSUME Announcing(u)' = Announcing(u), registered' = registered,
             faults' \in {faults, faults + 1}, Len(users') = Len(users)
      PROVE  Announced(u)'
  <2>1. Announced(u)
    BY <1>2, <1>3, <1>5 DEF Accounts!Ids
  <2>2. faults' = 0 => faults = 0
    BY <1>2, <1>5
  <2> QED
    BY <1>5, <2>1, <2>2 DEF Announced
<1>6. ASSUME NEW p \in Procs, Goes(p), call[p].op # "announce", call'[p].op # "announce",
             registered' = registered, faults' \in {faults, faults + 1}, Len(users') = Len(users)
      PROVE  Announced(u)'
  <2>1. Announcing(u)' = Announcing(u)
    BY <1>6 DEF Announcing, Goes
  <2> QED
    BY <1>5, <1>6, <2>1
<1>7. ASSUME NEW p \in Procs, Accounts!Insert(p)
      PROVE  Announced(u)'
  <2>1. UNCHANGED <<registered, faults>> /\ call[p].op = "insert"
    BY <1>7 DEF Accounts!Insert
  <2>2. CASE users' = users /\ Accounts!Return(p)
    <3>1. Goes(p) /\ call'[p].op = "idle"
      BY <2>2, Returns
    <3> QED
      BY <1>6, <2>1, <2>2, <3>1
  <2>3. CASE /\ users' = Append(users, call[p].row)
             /\ call' = [call EXCEPT ![p].op = "announce", ![p].uid = Len(users) + 1]
    <3> DEFINE n == Len(users) + 1
    <3>1. call'[p].op = "announce" /\ call'[p].uid = n /\ \A q \in Procs \ {p} : call'[q] = call[q]
      BY <1>2, <2>3 DEF CallType
    <3>2. Accounts!Ids' = Accounts!Ids \cup {n} /\ n \notin Accounts!Ids
      <4>1. call[p].row \in Profile
        BY <1>4, <2>1 DEF AccountCall
      <4>2. Len(users') = n
        BY <1>2, <2>3, <4>1
      <4> QED
        BY <1>2, <2>3, <4>1, <4>2 DEF Accounts!Ids
    <3>3. CASE u = n
      <4>1. Announcing(u)' = {p}
        <5>1. \A q \in Procs : ~(call[q].op = "announce" /\ call[q].uid = n)
          BY <1>4, <3>2 DEF AccountCall
        <5> QED
          BY <3>1, <3>3, <5>1 DEF Announcing
      <4>2. registered[n] = 0
        BY <2>1, InsertHasAnId DEF AccountsInv, IdsAreFresh
      <4>3. Cardinality({p}) = 1
        BY FS_Singleton
      <4>4. registered'[u] = 0 /\ Cardinality(Announcing(u)') = 1
        BY <2>1, <3>3, <4>1, <4>2, <4>3
      <4> QED
        BY <4>4 DEF Announced
    <3>4. CASE u # n
      <4>1. Announcing(u)' = Announcing(u)
        BY <2>1, <3>1, <3>4 DEF Announcing
      <4>2. Announced(u)
        BY <1>3, <3>2, <3>4
      <4> QED
        BY <2>1, <4>1, <4>2 DEF Announced
    <3> QED
      BY <3>3, <3>4
  <2> QED
    BY <1>7, <2>2, <2>3 DEF Accounts!Insert
<1>8. ASSUME NEW p \in Procs, Accounts!Produce(p)
      PROVE  Announced(u)'
  <2> DEFINE v == call[p].uid
  <2>1. call[p].op = "announce" /\ v \in Accounts!Ids /\ users' = users
    BY <1>4, <1>8 DEF AccountCall, Accounts!Produce
  <2>2. Goes(p) /\ call'[p].op = "idle"
    BY <1>8, Returns DEF Accounts!Produce
  <2>3. Announced(u) /\ u \in Accounts!Uids
    BY <1>2, <1>3, <2>1 DEF Accounts!Ids
  <2>4. \/ registered' = [registered EXCEPT ![v] = @ + 1] /\ faults' = faults
        \/ registered' = registered /\ faults' = faults + 1
    BY <1>8 DEF Accounts!Produce, Accounts!Fault
  <2>5. CASE u = v
    <3>1. Announcing(u)' = Announcing(u) \ {p} /\ p \in Announcing(u)
      BY <2>1, <2>2, <2>5 DEF Announcing, Goes
    <3>2. Cardinality(Announcing(u)') = Cardinality(Announcing(u)) - 1
      BY <1>1, <3>1, OneLess
    <3>3. registered[u] \in Nat
      BY <1>2, <2>3
    <3>4. CASE registered' = [registered EXCEPT ![v] = @ + 1] /\ faults' = faults
      <4>1. registered'[u] = registered[u] + 1
        BY <1>2, <2>3, <2>5, <3>4
      <4> QED
        BY <1>1, <2>3, <3>2, <3>3, <3>4, <4>1 DEF Announced
    <3>5. CASE registered' = registered /\ faults' = faults + 1
      BY <1>1, <1>2, <2>3, <3>2, <3>3, <3>5 DEF Announced
    <3> QED
      BY <2>4, <3>4, <3>5
  <2>6. CASE u # v
    <3>1. Announcing(u)' = Announcing(u)
      BY <2>1, <2>2, <2>6 DEF Announcing, Goes
    <3>2. registered'[u] = registered[u] /\ (faults' = 0 => faults = 0)
      BY <1>2, <2>3, <2>4, <2>6
    <3> QED
      BY <2>3, <3>1, <3>2 DEF Announced
  <2> QED
    BY <2>5, <2>6
<1>9. ASSUME NEW p \in Procs, Moves(p), registered' = registered, faults' \in {faults, faults + 1},
             Len(users') = Len(users), call[p].op # "announce", call'[p].op # "announce"
      PROVE  Announced(u)'
  BY <1>6, <1>9 DEF Moves
<1>10. ASSUME NEW p \in Procs,
              \/ \E who \in WechatUsers, a \in Accounts!Apps : Accounts!FindByWechat(p, who, a)
              \/ \E phone \in Mobiles : Accounts!CreateWithPhone(p, phone)
              \/ \E v \in Accounts!Uids : Accounts!FindById(p, v)
       PROVE  Announced(u)'
  <2>1. Moves(p)
    BY <1>10, LoginMoves
  <2>2. users' = users /\ registered' = registered /\ faults' = faults
    BY <1>10 DEF Accounts!FindByWechat, Accounts!CreateWithPhone, Accounts!FindById
  <2>3. \E op \in {"found", "insert", "remember"} : \E who, app, uid, row :
           Accounts!Begin(p, op, who, app, uid, row)
    BY <1>10 DEF Accounts!FindByWechat, Accounts!CreateWithPhone, Accounts!FindById
  <2>4. call[p].op # "announce" /\ call'[p].op \in {"found", "insert", "remember"}
    BY <1>2, <2>3, BeginIs
  <2> QED
    BY <1>9, <2>1, <2>2, <2>4
<1>11. ASSUME NEW p \in Procs,
              Accounts!ReturnFound(p) \/ Accounts!DeleteProfile(p) \/ Accounts!SetProfile(p)
       PROVE  Announced(u)'
  <2>1. Moves(p) /\ Accounts!Return(p)
    BY <1>11, ReturnMoves DEF Accounts!ReturnFound, Accounts!DeleteProfile, Accounts!SetProfile
  <2>2. users' = users /\ registered' = registered /\ faults' \in {faults, faults + 1}
        /\ call[p].op # "announce"
    BY <1>11 DEF Accounts!ReturnFound, Accounts!DeleteProfile, Accounts!SetProfile, Accounts!Fault
  <2>3. call'[p].op = "idle"
    BY <2>1, Returns
  <2> QED
    BY <1>9, <2>1, <2>2, <2>3
<1>12. ASSUME NEW p \in Procs, Accounts!UpdateWechat(p)
       PROVE  Announced(u)'
  <2>1. Moves(p)
    BY <1>12, WriteMoves
  <2>2. registered' = registered /\ faults' \in {faults, faults + 1} /\ call[p].op = "found"
        /\ (Accounts!Goto(p, "forget") \/ Accounts!Return(p))
    BY <1>12 DEF Accounts!UpdateWechat, Accounts!Fault
  <2>3. call'[p].op \in {"idle", "forget"}
    <3>1. call[p] \in CallType
      BY <1>2
    <3> QED
      BY <2>2, <3>1, Returns, GoesOn DEF AccountOps, CallType
  <2>4. Len(users') = Len(users)
    BY <2>1, <2>2, <2>3 DEF Moves, Counted
  <2> QED
    BY <1>9, <2>1, <2>2, <2>3, <2>4
<1>13. ASSUME NEW p \in Procs, NEW v \in Accounts!Uids, NEW row \in Profile, Edit(row),
              Accounts!UpdateNonSensitiveInfo(p, v, row)
       PROVE  Announced(u)'
  <2>1. Moves(p)
    BY <1>13, WriteMoves
  <2>2. registered' = registered /\ faults' = faults /\ call[p].op = "idle"
        /\ call'[p].op = "forget"
    BY <1>2, <1>13, BeginIs DEF Accounts!UpdateNonSensitiveInfo
  <2>3. Len(users') = Len(users)
    BY <2>1, <2>2 DEF Moves, Counted
  <2> QED
    BY <1>9, <2>1, <2>2, <2>3
<1>14. ASSUME \/ \E phone \in Mobiles : Accounts!PhoneLogin(phone)
              \/ \E v \in Accounts!Uids : Accounts!Expire(v)
              \/ UNCHANGED Accounts!uservars
       PROVE  Announced(u)'
  <2>1. UNCHANGED <<call, users, registered>> /\ faults' \in {faults, faults + 1}
    BY <1>14 DEF Accounts!PhoneLogin, Accounts!Expire, Accounts!uservars, Accounts!Fault
  <2>2. Announcing(u)' = Announcing(u)
    BY <2>1 DEF Announcing
  <2> QED
    BY <1>5, <2>1, <2>2
<1> QED
  BY <1>7, <1>8, <1>10, <1>11, <1>12, <1>13, <1>14, AccountSteps DEF Reading

LEMMA EditsNext ==
    ASSUME AccountsInv, [Accounts!Next]_Accounts!uservars
    PROVE  Accounts!EditsStay'
<1> SUFFICES ASSUME NEW u \in Accounts!Ids', u \notin overlapped'
             PROVE  <<users'[u].name, users'[u].phone>> = edited'[u]
  BY DEF Accounts!EditsStay
<1>1. CASE u \in Accounts!Ids
  BY <1>1, NamesStay
<1>2. CASE u \notin Accounts!Ids
  <2>1. /\ users \in Seq(Profile) /\ Len(users) \in Nat /\ Accounts!Ids = 1 .. Len(users)
        /\ edited \in [Accounts!Uids -> Nat \X (Mobiles \cup {"none"})]
    BY AccountRows DEF AccountsInv, AccountType
  <2>2. users' # users
    BY <1>2 DEF Accounts!Ids
  <2>3. PICK p \in Procs : Accounts!Insert(p)
    <3>1. ASSUME NEW p \in Procs, Accounts!UpdateWechat(p)
          PROVE  Accounts!Ids' = Accounts!Ids
      BY <2>1, <3>1 DEF Accounts!UpdateWechat, Accounts!UpdateNonZeroFields, Accounts!Ids
    <3>2. ASSUME NEW p \in Procs, NEW v \in Accounts!Uids, NEW row \in Profile,
                 Accounts!UpdateNonSensitiveInfo(p, v, row)
          PROVE  Accounts!Ids' = Accounts!Ids
      BY <2>1, <3>2 DEF Accounts!UpdateNonSensitiveInfo, Accounts!UpdateNonZeroFields, Accounts!Ids
    <3> QED
      BY <1>2, <2>2, <3>1, <3>2, AccountSteps, ReadingWritesNoRow
  <2> DEFINE row == call[p].row
             n == Len(users) + 1
  <2>4. users' = Append(users, row) /\ edited' = [edited EXCEPT ![n] = <<0, row.phone>>]
    BY <2>2, <2>3 DEF Accounts!Insert
  <2>5. row \in Profile /\ row.name = 0 /\ n \in Accounts!Uids
    BY <2>3, InsertHasAnId DEF AccountsInv, AccountCall, Accounts!Insert
  <2>6. u = n /\ users'[n] = row
    BY <1>2, <2>1, <2>4, <2>5 DEF Accounts!Ids
  <2> QED
    BY <2>1, <2>4, <2>5, <2>6
<1> QED
  BY <1>1, <1>2

Forgetting(u) == \E p \in Procs : call[p].op = "forget" /\ call[p].uid = u
Shown(u) == cached[u] \in {<<>>, <<users[u]>>} \/ Forgetting(u)

LEMMA CacheNext ==
    ASSUME AccountsInv, [Accounts!Next]_Accounts!uservars
    PROVE  Accounts!CacheShowsTheRow'
<1> SUFFICES ASSUME NEW u \in Accounts!Ids', u \notin outdated'
             PROVE  Shown(u)'
  BY DEF Accounts!CacheShowsTheRow, Shown, Forgetting
<1>1. /\ users \in Seq(Profile) /\ Len(users) \in Nat /\ Accounts!Ids = 1 .. Len(users)
      /\ cached \in [Accounts!Uids -> Cached]
      /\ call \in [Procs -> CallType]
      /\ Accounts!Ids \subseteq Accounts!Uids
  BY AccountRows, RowsHaveTheirIds DEF AccountsInv, AccountType, Cached
<1>2. \A v \in Accounts!Ids : v \notin outdated => Shown(v)
  BY DEF AccountsInv, Accounts!CacheShowsTheRow, Shown, Forgetting
<1>3. \A q \in Procs : AccountCall(q)
  BY DEF AccountsInv
<1>4. ASSUME NEW p \in Procs, Goes(p), call[p].op # "forget", Forgetting(u)
      PROVE  Forgetting(u)'
  BY <1>4 DEF Forgetting, Goes
<1>5. ASSUME users' = users, cached' = cached, outdated' = outdated,
             Forgetting(u) => Forgetting(u)'
      PROVE  Shown(u)'
  BY <1>2, <1>5 DEF Shown, Accounts!Ids
<1>6. ASSUME NEW p \in Procs, Accounts!Insert(p)
      PROVE  Shown(u)'
  <2>1. cached' = cached /\ outdated' = outdated /\ call[p].op = "insert"
    BY <1>6 DEF Accounts!Insert
  <2>2. Goes(p)
    BY <1>6, WriteMoves DEF Moves
  <2>3. CASE users' = users
    BY <1>4, <1>5, <2>1, <2>2, <2>3
  <2>4. CASE users' = Append(users, call[p].row)
    <3>1. call[p].row \in Profile
      BY <1>3, <2>1 DEF AccountCall
    <3>2. u \in Accounts!Ids \cup {Len(users) + 1} /\ \A v \in Accounts!Ids : users'[v] = users[v]
      BY <1>1, <2>4, <3>1 DEF Accounts!Ids
    <3>3. CASE u \in Accounts!Ids
      BY <1>2, <1>4, <2>1, <2>2, <3>2, <3>3 DEF Shown
    <3>4. CASE u = Len(users) + 1
      <4>1. cached[u] = <<>>
        BY <2>1, <3>4, InsertHasAnId DEF AccountsInv, IdsAreFresh
      <4> QED
        BY <2>1, <4>1 DEF Shown
    <3> QED
      BY <3>2, <3>3, <3>4
  <2> QED
    BY <1>6, <2>3, <2>4 DEF Accounts!Insert
<1>7. ASSUME NEW p \in Procs, Accounts!UpdateWechat(p)
      PROVE  Shown(u)'
  <2> DEFINE c == call[p]
             row == [c.row EXCEPT !.open = {c.app}]
  <2>1. cached' = cached /\ outdated' = outdated /\ c.op = "found"
    BY <1>7 DEF Accounts!UpdateWechat
  <2>2. CASE users' = users /\ Accounts!Return(p)
    BY <1>4, <1>5, <2>1, <2>2, Returns
  <2>3. CASE Accounts!UpdateNonZeroFields(c.uid, row) /\ Accounts!Goto(p, "forget")
    <3>1. Goes(p) /\ call'[p] = [call[p] EXCEPT !.op = "forget"]
      BY <2>3, GoesOn DEF AccountOps
    <3>2. call'[p].op = "forget" /\ call'[p].uid = c.uid
      BY <1>1, <3>1 DEF CallType
    <3>3. CASE u = c.uid
      BY <3>2, <3>3 DEF Shown, Forgetting
    <3>4. CASE u # c.uid
      <4>1. u \in Accounts!Ids /\ users'[u] = users[u]
        BY <1>1, <2>3, <3>4 DEF Accounts!UpdateNonZeroFields, Accounts!Ids
      <4> QED
        BY <1>2, <1>4, <2>1, <3>1, <4>1 DEF Shown
    <3> QED
      BY <3>3, <3>4
  <2> QED
    BY <1>7, <2>2, <2>3 DEF Accounts!UpdateWechat
<1>8. ASSUME NEW p \in Procs, NEW v \in Accounts!Uids, NEW row \in Profile, Edit(row),
             Accounts!UpdateNonSensitiveInfo(p, v, row)
      PROVE  Shown(u)'
  <2>1. /\ cached' = cached /\ outdated' = outdated
        /\ users' = [users EXCEPT ![v] = Accounts!NonZero(users[v], row)]
        /\ Accounts!Begin(p, "forget", "none", "none", v, <<>>)
    BY <1>8 DEF Accounts!UpdateNonSensitiveInfo, Accounts!UpdateNonZeroFields, Accounts!None
  <2>2. Goes(p)
    BY <1>8, WriteMoves DEF Moves
  <2>3. call[p].op = "idle" /\ call'[p].op = "forget" /\ call'[p].uid = v
    BY <1>1, <2>1 DEF Accounts!Begin, Accounts!Idle
  <2>4. CASE u = v
    BY <2>3, <2>4 DEF Shown, Forgetting
  <2>5. CASE u # v
    <3>1. u \in Accounts!Ids /\ users'[u] = users[u]
      BY <1>1, <2>1, <2>5 DEF Accounts!Ids
    <3> QED
      BY <1>2, <1>4, <2>1, <2>2, <2>3, <3>1 DEF Shown
  <2> QED
    BY <2>4, <2>5
<1>9. ASSUME NEW p \in Procs, Accounts!DeleteProfile(p)
      PROVE  Shown(u)'
  <2> DEFINE v == call[p].uid
  <2>1. Goes(p) /\ users' = users /\ call[p].op = "forget" /\ u \in Accounts!Ids
    BY <1>9, Returns DEF Accounts!DeleteProfile, Accounts!Ids
  <2>2. CASE u = v
    <3>1. cached' = [cached EXCEPT ![v] = <<>>]
      BY <1>9, <2>2 DEF Accounts!DeleteProfile
    <3> QED
      BY <1>1, <2>1, <2>2, <3>1 DEF Shown
  <2>3. CASE u # v
    <3>1. u \notin outdated /\ cached'[u] = cached[u]
      BY <1>1, <1>9, <2>1, <2>3 DEF Accounts!DeleteProfile
    <3>2. Forgetting(u) => Forgetting(u)'
      BY <2>1, <2>3 DEF Forgetting, Goes
    <3> QED
      BY <1>2, <2>1, <3>1, <3>2 DEF Shown
  <2> QED
    BY <2>2, <2>3
<1>10. ASSUME NEW p \in Procs, Accounts!SetProfile(p)
       PROVE  Shown(u)'
  <2> DEFINE v == call[p].uid
  <2>1. /\ Goes(p) /\ users' = users /\ call[p].op = "remember" /\ u \in Accounts!Ids
        /\ cached' = [cached EXCEPT ![v] = <<call[p].row>>]
    BY <1>10, Returns DEF Accounts!SetProfile, Accounts!Ids
  <2>2. CASE u = v
    <3>1. call[p].row = users[v]
      BY <1>10, <2>2 DEF Accounts!SetProfile
    <3>2. cached'[u] = <<users[u]>>
      BY <1>1, <2>1, <2>2, <3>1
    <3> QED
      BY <2>1, <3>2 DEF Shown
  <2>3. CASE u # v
    <3>1. u \notin outdated /\ cached'[u] = cached[u]
      BY <1>1, <1>10, <2>1, <2>3 DEF Accounts!SetProfile
    <3> QED
      BY <1>2, <1>4, <2>1, <3>1 DEF Shown
  <2> QED
    BY <2>2, <2>3
<1>11. ASSUME NEW v \in Accounts!Uids, Accounts!Expire(v)
       PROVE  Shown(u)'
  <2>1. /\ users' = users /\ call' = call /\ u \in Accounts!Ids
        /\ cached' = [cached EXCEPT ![v] = <<>>] /\ outdated' = outdated \ {v}
    BY <1>11 DEF Accounts!Expire, Accounts!Ids
  <2>2. CASE u = v
    BY <1>1, <2>1, <2>2 DEF Shown
  <2>3. CASE u # v
    <3>1. u \notin outdated /\ cached'[u] = cached[u] /\ Forgetting(u)' = Forgetting(u)
      BY <1>1, <2>1, <2>3 DEF Forgetting
    <3> QED
      BY <1>2, <2>1, <3>1 DEF Shown
  <2> QED
    BY <2>2, <2>3
<1>12. ASSUME NEW p \in Procs,
              \/ \E who \in WechatUsers, a \in Accounts!Apps : Accounts!FindByWechat(p, who, a)
              \/ \E phone \in Mobiles : Accounts!CreateWithPhone(p, phone)
              \/ \E v \in Accounts!Uids : Accounts!FindById(p, v)
       PROVE  Shown(u)'
  <2>1. Goes(p)
    BY <1>12, LoginMoves DEF Moves
  <2>2. users' = users /\ cached' = cached /\ outdated' = outdated
    BY <1>12 DEF Accounts!FindByWechat, Accounts!CreateWithPhone, Accounts!FindById
  <2>3. \E op, who, app, uid, row : Accounts!Begin(p, op, who, app, uid, row)
    BY <1>12 DEF Accounts!FindByWechat, Accounts!CreateWithPhone, Accounts!FindById
  <2>4. call[p].op = "idle"
    BY <1>1, <2>3, BeginIs
  <2> QED
    BY <1>4, <1>5, <2>1, <2>2, <2>4
<1>13. ASSUME NEW p \in Procs, Accounts!ReturnFound(p) \/ Accounts!Produce(p)
       PROVE  Shown(u)'
  <2>1. /\ users' = users /\ cached' = cached /\ outdated' = outdated
        /\ call[p].op \in {"found", "announce"} /\ Accounts!Return(p)
    BY <1>13 DEF Accounts!ReturnFound, Accounts!Produce
  <2> QED
    BY <1>4, <1>5, <2>1, Returns
<1>14. ASSUME \/ \E phone \in Mobiles : Accounts!PhoneLogin(phone)
              \/ UNCHANGED Accounts!uservars
       PROVE  Shown(u)'
  <2>1. UNCHANGED <<call, users, cached, outdated>>
    BY <1>14 DEF Accounts!PhoneLogin, Accounts!uservars
  <2> QED
    BY <1>5, <2>1 DEF Forgetting
<1> QED
  BY <1>6, <1>7, <1>8, <1>9, <1>10, <1>11, <1>12, <1>13, <1>14, AccountSteps DEF Reading

LEMMA AccountsNext == AccountsInv /\ [Accounts!Next]_Accounts!uservars => AccountsInv'
<1> SUFFICES ASSUME AccountsInv, [Accounts!Next]_Accounts!uservars
             PROVE  AccountsInv'
  OBVIOUS
<1>1. AccountType'
  BY CallsNext, RowsKeep, TracesNext DEF AccountType, Cached
<1> QED
  BY <1>1, CallsNext, RowsKeep, TracesNext, SessionsNext, AnnouncedNext, EditsNext, CacheNext
  DEF AccountsInv

LEMMA AccountsInit == Accounts!Init => AccountsInv
<1> SUFFICES ASSUME Accounts!Init
             PROVE  AccountsInv
  OBVIOUS
<1>1. Accounts!Ids = {} /\ Len(users) = 0 /\ users \in Seq(Profile)
  BY DEF Accounts!Init, Accounts!Ids
<1>2. \A p \in Procs : call[p] = Accounts!Idle
  BY DEF Accounts!Init
<1>3. AccountType
  <2>1. Accounts!Idle \in CallType
    BY DEF Accounts!Idle, Accounts!None, CallType, AccountOps
  <2>2. call \in [Procs -> CallType]
    BY <2>1 DEF Accounts!Init
  <2>3. <<0, "none">> \in Nat \X (Mobiles \cup {"none"})
    OBVIOUS
  <2>4. edited \in [Accounts!Uids -> Nat \X (Mobiles \cup {"none"})]
    BY <2>3 DEF Accounts!Init, Accounts!None
  <2>5. cached \in [Accounts!Uids -> {<<>>} \cup {<<r>> : r \in Profile}]
    BY DEF Accounts!Init
  <2>6. registered \in [Accounts!Uids -> Nat] /\ calls \in 0 .. MaxLogins /\ faults \in Nat
    BY AccountAssumption DEF Accounts!Init
  <2> QED
    BY <1>1, <2>2, <2>4, <2>5, <2>6 DEF AccountType
<1>4. RowsHaveIds
  <2>1. Doing("insert") = {}
    BY <1>2 DEF Doing, Accounts!Idle
  <2>2. calls = 0
    BY DEF Accounts!Init
  <2> QED
    BY <1>1, <2>1, <2>2, FS_EmptySet DEF RowsHaveIds
<1>5. \A p \in Procs : AccountCall(p)
  BY <1>2 DEF AccountCall, Accounts!Idle
<1>6. SessionsAreOfRows /\ IdsAreFresh
  BY DEF Accounts!Init, SessionsAreOfRows, IdsAreFresh
<1>7. UniqueRows /\ Accounts!AnnouncedOnce /\ Accounts!EditsStay /\ Accounts!CacheShowsTheRow
  BY <1>1 DEF UniqueRows, Accounts!AnnouncedOnce, Accounts!EditsStay, Accounts!CacheShowsTheRow
<1> QED
  BY <1>3, <1>4, <1>5, <1>6, <1>7 DEF AccountsInv

LEMMA AccountsAreRight ==
    AccountsInv => /\ Accounts!LoginsAgree /\ Accounts!AnnouncedOnce
                   /\ Accounts!EditsStay /\ Accounts!CacheShowsTheRow
<1> SUFFICES ASSUME AccountsInv, NEW s \in sessions, s.who \in WechatUsers
             PROVE  Accounts!ByWechat(s.who) = {s.uid}
  BY DEF AccountsInv, Accounts!LoginsAgree
<1>1. s.uid \in Accounts!Ids /\ users[s.uid].union = s.who /\ s.who # "none"
  BY AccountAssumption DEF AccountsInv, SessionsAreOfRows
<1>2. \A v \in Accounts!Ids : users[v].union = s.who => v = s.uid
  BY <1>1 DEF AccountsInv, UniqueRows
<1> QED
  BY <1>1, <1>2 DEF Accounts!ByWechat

-----------------------------------------------------------------------------
\* A quotient is the number of whole parts.
LEMMA WholeParts ==
    ASSUME NEW n \in Nat, NEW q \in Nat, NEW k \in Nat \ {0}, k * q <= n, n < k * q + k
    PROVE  n \div k = q
<1> DEFINE d == n \div k
<1>1. d \in Nat /\ k * d <= n /\ n < k * d + k
  <2>1. n % k \in 0 .. k - 1 /\ n = k * d + (n % k)
    OBVIOUS
  <2>2. d \in Nat
    OBVIOUS
  <2> QED
    BY <2>1, <2>2
<1> HIDE DEF d
<1>2. k * d \in Nat /\ k * q \in Nat
  BY <1>1
<1>3. ~(d < q)
  <2> SUFFICES ASSUME d < q PROVE FALSE
    OBVIOUS
  <2>1. PICK e \in Nat : q = d + 1 + e
    BY <1>1
  <2>2. k * q = k * d + k + k * e /\ k * e \in Nat
    BY <1>1, <2>1
  <2> QED
    BY <1>1, <1>2, <2>2
<1>4. ~(q < d)
  <2> SUFFICES ASSUME q < d PROVE FALSE
    OBVIOUS
  <2>1. PICK e \in Nat : d = q + 1 + e
    BY <1>1
  <2>2. k * d = k * q + k + k * e /\ k * e \in Nat
    BY <1>1, <2>1
  <2> QED
    BY <1>1, <1>2, <2>2
<1> QED
  BY <1>1, <1>3, <1>4 DEF d

-----------------------------------------------------------------------------
(***************************************************************************)
(* Logins.  In them s1 is rows, s2 is now, s3 is node, s4 is states, s5 is *)
(* asked, s6 is codes, s7 is received and s8 is answers.                   *)
(***************************************************************************)
Apps == {0, 1}

\* The first id of a generator's millisecond; as many as four times its steps
\* have its milliseconds and its application.
First(ms, a) == Logins!Id(ms, a, 0)

LEMMA IdsAreNumbers ==
    \A ms, step \in Nat, a \in Apps :
        /\ Logins!Id(ms, a, step) \in Nat /\ First(ms, a) \in Nat
        /\ Logins!Id(ms, a, step) = First(ms, a) + step
<1>1. IdSteps \in Nat \ {0}
  BY AccountAssumption
<1> TAKE ms, step \in Nat, a \in Apps
<1> DEFINE b == (ms * 2 + a) * 4
<1>2. b \in Nat
  BY DEF Apps
<1>3. b * IdSteps \in Nat
  <2> HIDE DEF b
  <2> QED
    BY <1>1, <1>2
<1>4. Logins!Id(ms, a, step) = b * IdSteps + step /\ First(ms, a) = b * IdSteps + 0
  BY DEF Logins!Id, First
<1> QED
  <2> HIDE DEF b
  <2> QED
    BY <1>3, <1>4

\* AppID undoes Id, and still does three times the steps later.
LEMMA IdsTellTheirApp ==
    ASSUME NEW ms \in Nat, NEW a \in Apps, NEW id \in Nat,
           First(ms, a) <= id, id < First(ms, a) + 4 * IdSteps
    PROVE  Logins!AppID(id) = a
<1> DEFINE k == 4 * IdSteps
           q == ms * 2 + a
<1>1. k \in Nat \ {0} /\ IdSteps \in Nat \ {0}
  BY AccountAssumption
<1>2. q \in Nat
  BY DEF Apps
<1>3. First(ms, a) = k * q
  <2>1. First(ms, a) = (q * 4) * IdSteps + 0
    BY DEF First, Logins!Id
  <2> HIDE DEF q
  <2> QED
    BY <1>1, <1>2, <2>1
<1>4. id \div k = q
  <2> HIDE DEF k, q
  <2>1. k * q <= id /\ id < k * q + k
    BY <1>3 DEF k
  <2> QED
    BY <1>1, <1>2, <2>1, WholeParts
<1>5. q % 2 = a
  BY DEF Apps
<1>6. Logins!AppID(id) = (id \div k) % 2
  BY DEF Logins!AppID
<1> QED
  BY <1>4, <1>5, <1>6

\* A later millisecond has later ids.
LEMMA LaterIsMore ==
    ASSUME NEW ms \in Nat, NEW later \in Nat, ms < later, NEW a \in Apps,
           NEW step \in 0 .. IdSteps - 1
    PROVE  Logins!Id(ms, a, step) < First(later, a)
<1>1. IdSteps \in Nat \ {0}
  BY AccountAssumption
<1> DEFINE b == (ms * 2 + a) * 4
<1>2. PICK d \in Nat : later = ms + 1 + d
  <2>1. later = ms + 1 + (later - ms - 1) /\ later - ms - 1 \in Nat
    OBVIOUS
  <2> QED
    BY <2>1
<1>3. b \in Nat /\ (later * 2 + a) * 4 = b + 8 + 8 * d
  BY <1>2 DEF Apps
<1>4. First(later, a) = (b + 8 + 8 * d) * IdSteps + 0 /\ Logins!Id(ms, a, step) = b * IdSteps + step
  BY <1>3 DEF First, Logins!Id
<1>5. (b + 8 + 8 * d) * IdSteps = b * IdSteps + 8 * IdSteps + 8 * (d * IdSteps)
      /\ b * IdSteps \in Nat /\ d * IdSteps \in Nat
  <2> HIDE DEF b
  <2> QED
    BY <1>1, <1>3
<1> QED
  <2> HIDE DEF b
  <2> QED
    BY <1>1, <1>4, <1>5

LoginPcs == {"idle", "send", "sent", "inviter", "verify", "find", "id", "insert", "ddl", "perms",
             "in", "error", "wrong", "unknown", "refused"}

LoginType == [op : {"idle", "send", "wechat", "login", "register"}, pc : LoginPcs,
              who : Arrivals \cup Mobiles \cup {0}, app : AppHeaders \cup {NoApp}, key : Nat,
              id : Nat, invitation : {0, 1, 2}, failed : BOOLEAN]

LoginsTyped ==
    /\ s1 \subseteq [table : {"users", "users_ielts"}, id : Nat,
                     who : Arrivals \cup Mobiles \cup {0}, auto : BOOLEAN]
    /\ IsFiniteSet(s1)
    /\ s2 \in Nat \ {0}
    /\ s3 \in [Apps -> [ms : Nat, step : 0 .. IdSteps - 1]]
    /\ \A a \in Apps : s3[a].ms <= s2
    /\ \A a \in s5 : a.key \in Nat
    /\ \A s \in s4 : s.invitation \in {1, 2}
    /\ s7 \in [Mobiles -> SUBSET Nat]
    /\ call \in [Procs -> LoginType]
    /\ calls \in 0 .. MaxRequests

AppOf(c) == IF c.app = NoApp THEN 0 ELSE c.app
LastId(a) == Logins!Id(s3[a].ms, a, s3[a].step)

\* A generator has given the id.
OfGenerator(a, id) ==
    \E ms \in Nat \ {0}, step \in 0 .. IdSteps - 1 : id = Logins!Id(ms, a, step) /\ id <= LastId(a)

Autos == {r \in s1 : r.auto}
WaitingPcs == {"inviter", "verify", "find", "id", "insert"}
Waiting == {p \in Procs : call[p].pc \in WaitingPcs}

\* Every row with an id of MySQL is a request's that waits no more.
AutosAreCounted == Cardinality(Autos) + Cardinality(Waiting) <= calls

\* The id is a generator's for the first application, or one of MySQL's after
\* it: no more of them than there are rows with such ids.
Near(id) ==
    \E ms \in Nat : First(ms, 0) <= id /\ id < First(ms, 0) + IdSteps + Cardinality(Autos)

RowsHaveOrigins ==
    \A r \in s1 :
        \/ r.auto /\ r.table = "users" /\ Near(r.id)
        \/ ~r.auto /\ \E a \in Apps : r.table = Logins!tableNameFromAppId(a) /\ OfGenerator(a, r.id)

UniqueUsers ==
    \A r, s \in s1 : r.table = s.table /\ (r.id = s.id \/ r.who = s.who) => r = s

\* A generator gives an id once.
Inserting(p) == call[p].pc = "insert" /\ AppOf(call[p]) \in Apps
IdsAreOnce ==
    \A p \in Procs : Inserting(p) =>
        /\ \A q \in Procs \ {p} :
              Inserting(q) /\ AppOf(call[q]) = AppOf(call[p]) => call[q].id # call[p].id
        /\ \A r \in s1 :
              ~r.auto /\ r.table = Logins!tableNameFromAppId(AppOf(call[p])) => r.id # call[p].id

\* There is a last id.
HasLast ==
    \E n \in {0} \cup {r.id : r \in Logins!Of("users")} : \A r \in Logins!Of("users") : r.id <= n

AnswersHaveRows ==
    \A a \in s8 : \E r \in Logins!Of(Logins!UserTable(a.app)) : r.who = a.who /\ r.id = a.id

StatesAreAsked == \A s \in s4 : \E a \in s5 : a.by = s.key /\ a.invitation = s.invitation

\* What a request holds, by where it is.
LoginCall(p) ==
    LET c == call[p] IN
    /\ c.pc \in WaitingPcs \ {"insert"} => c.id = 0
    /\ c.pc = "insert" => IF AppOf(c) \in Apps THEN OfGenerator(AppOf(c), c.id) ELSE c.id = 0
    /\ c.pc = "refused" => \E r \in Logins!Of(Logins!UserTable(c.app)) : r.who = c.who \/ r.auto
    /\ c.op \in {"login", "register"} =>
          /\ c.who \in Mobiles /\ c.key \in s7[c.who] \cup {0}
          /\ c.pc \notin {"verify", "wrong", "error"} => c.key # 0
    /\ c.invitation # 0 => \E a \in s5 : a.by = c.key /\ a.invitation = c.invitation

LoginsInv ==
    /\ LoginsTyped
    /\ \A p \in Procs : LoginCall(p)
    /\ AutosAreCounted
    /\ RowsHaveOrigins
    /\ UniqueUsers
    /\ IdsAreOnce
    /\ HasLast
    /\ AnswersHaveRows
    /\ StatesAreAsked

LEMMA LastIds ==
    \A n \in [ms : Nat, step : 0 .. IdSteps - 1], a \in Apps :
        /\ n.ms \in Nat /\ n.step \in Nat
        /\ Logins!Id(n.ms, a, n.step) \in Nat /\ First(n.ms, a) \in Nat
        /\ Logins!Id(n.ms, a, n.step) = First(n.ms, a) + n.step
<1> TAKE n \in [ms : Nat, step : 0 .. IdSteps - 1], a \in Apps
<1>1. n.ms \in Nat /\ n.step \in Nat
  BY AccountAssumption
<1> QED
  BY <1>1, IdsAreNumbers

\* A generator's next id is after its last.
LEMMA Generated ==
    ASSUME LoginsInv, NEW a \in Apps, Logins!NextStep(a).step < IdSteps
    PROVE  /\ Logins!NextStep(a) \in [ms : Nat, step : 0 .. IdSteps - 1]
           /\ Logins!NextStep(a).ms = s2
           /\ LastId(a) \in Nat
           /\ LastId(a) < Logins!Id(s2, a, Logins!NextStep(a).step)
<1>1. /\ s3[a] \in [ms : Nat, step : 0 .. IdSteps - 1] /\ s3[a].ms <= s2 /\ s2 \in Nat
      /\ IdSteps \in Nat \ {0}
  BY AccountAssumption DEF LoginsInv, LoginsTyped
<1>2. LastId(a) = First(s3[a].ms, a) + s3[a].step /\ LastId(a) \in Nat
      /\ First(s3[a].ms, a) \in Nat
  BY <1>1, LastIds DEF LastId
<1>3. CASE s3[a].ms = s2
  <2>1. Logins!NextStep(a) = [ms |-> s2, step |-> s3[a].step + 1]
    BY <1>3 DEF Logins!NextStep
  <2>2. s3[a].step + 1 \in 0 .. IdSteps - 1
    <3>1. Logins!NextStep(a).step = s3[a].step + 1
      BY <2>1
    <3>2. s3[a].step + 1 < IdSteps
      BY <3>1
    <3>3. s3[a].step \in 0 .. IdSteps - 1 /\ IdSteps \in Nat
      BY <1>1
    <3> QED
      BY <3>2, <3>3
  <2>3. Logins!Id(s2, a, s3[a].step + 1) = First(s2, a) + (s3[a].step + 1)
    <3>1. s3[a].step + 1 \in Nat /\ s2 \in Nat
      BY <1>1, <2>2
    <3> QED
      BY <3>1, IdsAreNumbers
  <2>4. /\ Logins!NextStep(a) \in [ms : Nat, step : 0 .. IdSteps - 1]
        /\ Logins!NextStep(a).ms = s2 /\ Logins!NextStep(a).step = s3[a].step + 1
    BY <1>1, <2>1, <2>2
  <2>5. LastId(a) = First(s2, a) + s3[a].step /\ First(s2, a) \in Nat
    BY <1>2, <1>3
  <2>6. First(s2, a) + s3[a].step < First(s2, a) + (s3[a].step + 1)
    BY <1>1, <2>5
  <2>7. Logins!Id(s2, a, Logins!NextStep(a).step) = First(s2, a) + (s3[a].step + 1)
    BY <2>3, <2>4
  <2>8. LastId(a) < Logins!Id(s2, a, Logins!NextStep(a).step)
    BY <2>5, <2>6, <2>7
  <2> QED
    BY <1>2, <2>4, <2>8
<1>4. CASE s3[a].ms # s2
  <2>1. Logins!NextStep(a) = [ms |-> s2, step |-> 0]
    BY <1>4 DEF Logins!NextStep
  <2>2. s3[a].ms < s2
    BY <1>1, <1>4
  <2>3. Logins!Id(s3[a].ms, a, s3[a].step) < First(s2, a)
    BY <1>1, <2>2, LaterIsMore
  <2> QED
    BY <1>1, <1>2, <2>1, <2>3 DEF LastId, First
<1> QED
  BY <1>3, <1>4

\* Nothing is taken away.
LEMMA LoginsGrow ==
    ASSUME LoginsInv, [Logins!Next]_Logins!loginVars
    PROVE  /\ s1 \subseteq s1' /\ s5 \subseteq s5'
           /\ s7' \in [Mobiles -> SUBSET Nat] /\ \A t \in Mobiles : s7[t] \subseteq s7'[t]
           /\ s3' \in [Apps -> [ms : Nat, step : 0 .. IdSteps - 1]]
           /\ \A a \in Apps : s3'[a].ms <= s2' /\ LastId(a) <= LastId(a)'
           /\ \A a \in Apps : \A id : OfGenerator(a, id) => OfGenerator(a, id)'
           /\ s2' \in Nat \ {0} /\ s2 <= s2'
<1> DEFINE Node == s3' = s3 \/ \E a \in Apps : /\ Logins!NextStep(a).step < IdSteps
                                               /\ s3' = [s3 EXCEPT ![a] = Logins!NextStep(a)]
                                               /\ s2' = s2
           Received == s7' = s7 \/ \E p \in Procs :
                          s7' = [s7 EXCEPT ![call[p].who] = @ \cup {call[p].key}]
           Clock == s2' \in {s2, s2 + 1}
<1>1. /\ s3 \in [Apps -> [ms : Nat, step : 0 .. IdSteps - 1]]
      /\ \A a \in Apps : s3[a].ms <= s2
      /\ s2 \in Nat \ {0} /\ s7 \in [Mobiles -> SUBSET Nat] /\ \A p \in Procs : call[p].key \in Nat
  BY DEF LoginsInv, LoginsTyped, LoginType
<1>2. s1 \subseteq s1' /\ s5 \subseteq s5' /\ Clock
  <2>1. ASSUME NEW p \in Procs, Logins!Step(p)
        PROVE  s1 \subseteq s1' /\ s5 \subseteq s5' /\ s2' = s2
    BY <2>1, Zenon DEF Logins!Step, Logins!Callback, Logins!WithPhone, Logins!SetPhoneCode, Logins!Send,
                Logins!getInviterCode, Logins!Verify, Logins!Find, Logins!Generate, Logins!Insert,
                Logins!getMemberDDL, Logins!FindPersonalPermissions, Logins!Return, Logins!Rows,
                Logins!Keys
  <2>2. ASSUME \/ \E i \in {1, 2} : Logins!AuthURL(i)
               \/ Logins!Expire \/ Logins!Tick \/ UNCHANGED Logins!loginVars
        PROVE  s1 \subseteq s1' /\ s5 \subseteq s5' /\ Clock
    BY <2>2 DEF Logins!AuthURL, Logins!Expire, Logins!Tick, Logins!loginVars, Logins!Rows, Logins!Keys
  <2> QED
    BY <2>1, <2>2, Zenon DEF Logins!Next
<1>3. Node
  <2>1. ASSUME NEW p \in Procs, Logins!Generate(p)
        PROVE  Node
    BY <2>1, Zenon DEF Logins!Generate, Logins!Known, Apps
  <2>2. ASSUME NEW p \in Procs, Logins!Step(p), ~Logins!Generate(p)
        PROVE  s3' = s3
    BY <2>2, Zenon DEF Logins!Step, Logins!Callback, Logins!WithPhone, Logins!SetPhoneCode, Logins!Send,
                Logins!getInviterCode, Logins!Verify, Logins!Find, Logins!Insert,
                Logins!getMemberDDL, Logins!FindPersonalPermissions, Logins!Return, Logins!Rows,
                Logins!Keys
  <2>3. ASSUME \/ \E i \in {1, 2} : Logins!AuthURL(i)
               \/ Logins!Expire \/ Logins!Tick \/ UNCHANGED Logins!loginVars
        PROVE  s3' = s3
    BY <2>3 DEF Logins!AuthURL, Logins!Expire, Logins!Tick, Logins!loginVars, Logins!Rows, Logins!Keys
  <2> QED
    BY <2>1, <2>2, <2>3 DEF Logins!Next
<1>4. Received
  <2>1. ASSUME NEW p \in Procs, Logins!Send(p)
        PROVE  Received
    BY <2>1, Zenon DEF Logins!Send
  <2>2. ASSUME NEW p \in Procs, Logins!Step(p), ~Logins!Send(p)
        PROVE  s7' = s7
    BY <2>2, Zenon DEF Logins!Step, Logins!Callback, Logins!WithPhone, Logins!SetPhoneCode, Logins!Generate,
                Logins!getInviterCode, Logins!Verify, Logins!Find, Logins!Insert,
                Logins!getMemberDDL, Logins!FindPersonalPermissions, Logins!Return, Logins!Rows,
                Logins!Keys
  <2>3. ASSUME \/ \E i \in {1, 2} : Logins!AuthURL(i)
               \/ Logins!Expire \/ Logins!Tick \/ UNCHANGED Logins!loginVars
        PROVE  s7' = s7
    BY <2>3 DEF Logins!AuthURL, Logins!Expire, Logins!Tick, Logins!loginVars, Logins!Rows, Logins!Keys
  <2> QED
    BY <2>1, <2>2, <2>3 DEF Logins!Next
<1>5. s7' \in [Mobiles -> SUBSET Nat] /\ \A t \in Mobiles : s7[t] \subseteq s7'[t]
  <2>1. ASSUME NEW p \in Procs, s7' = [s7 EXCEPT ![call[p].who] = @ \cup {call[p].key}]
        PROVE  s7' \in [Mobiles -> SUBSET Nat] /\ \A t \in Mobiles : s7[t] \subseteq s7'[t]
    <3>1. \A t \in Mobiles : s7'[t] = IF t = call[p].who THEN s7[t] \cup {call[p].key} ELSE s7[t]
      BY <1>1, <2>1
    <3> QED
      BY <1>1, <2>1, <3>1
  <2> QED
    BY <1>1, <1>4, <2>1
<1>6. /\ s3' \in [Apps -> [ms : Nat, step : 0 .. IdSteps - 1]]
      /\ \A a \in Apps : s3'[a].ms <= s2' /\ LastId(a) <= LastId(a)'
  <2>1. \A a \in Apps : LastId(a) \in Nat
    BY <1>1, LastIds DEF LastId
  <2>2. CASE s3' = s3
    BY <1>1, <1>2, <2>1, <2>2 DEF LastId
  <2>3. ASSUME NEW a \in Apps, Logins!NextStep(a).step < IdSteps,
               s3' = [s3 EXCEPT ![a] = Logins!NextStep(a)], s2' = s2
        PROVE  /\ s3' \in [Apps -> [ms : Nat, step : 0 .. IdSteps - 1]]
               /\ \A b \in Apps : s3'[b].ms <= s2' /\ LastId(b) <= LastId(b)'
    <3> DEFINE next == Logins!NextStep(a)
    <3>1. /\ next \in [ms : Nat, step : 0 .. IdSteps - 1] /\ next.ms = s2
          /\ LastId(a) < Logins!Id(s2, a, next.step)
      BY <2>3, Generated
    <3> HIDE DEF next
    <3>2. Logins!Id(s2, a, next.step) \in Nat
      <4>1. next.step \in Nat
        BY <3>1, AccountAssumption
      <4> QED
        BY <1>1, <4>1, IdsAreNumbers
    <3>3. s3' = [s3 EXCEPT ![a] = next]
      BY <2>3 DEF next
    <3>4. LastId(a) <= LastId(a)'
      <4>1. s3'[a] = next
        BY <1>1, <3>3
      <4>2. LastId(a)' = Logins!Id(s2, a, next.step)
        BY <3>1, <4>1 DEF LastId
      <4> QED
        BY <2>1, <3>1, <3>2, <4>2
    <3>5. \A b \in Apps \ {a} : s3'[b] = s3[b] /\ LastId(b)' = LastId(b)
      BY <1>1, <3>3 DEF LastId
    <3> QED
      BY <1>1, <2>1, <2>3, <3>1, <3>3, <3>4, <3>5
  <2> QED
    BY <1>3, <2>2, <2>3
<1>7. \A a \in Apps : \A id : OfGenerator(a, id) => OfGenerator(a, id)'
  <2> TAKE a \in Apps
  <2> TAKE id
  <2> HAVE OfGenerator(a, id)
  <2>1. PICK ms \in Nat \ {0}, step \in 0 .. IdSteps - 1 :
                id = Logins!Id(ms, a, step) /\ id <= LastId(a)
    BY DEF OfGenerator
  <2>2. id \in Nat /\ LastId(a) \in Nat /\ LastId(a)' \in Nat
    <3>1. step \in Nat
      BY AccountAssumption
    <3>2. Logins!Id(ms, a, step) \in Nat
      BY <3>1, IdsAreNumbers
    <3>3. LastId(a) \in Nat /\ LastId(a)' \in Nat
      BY <1>1, <1>6, LastIds DEF LastId
    <3> QED
      BY <2>1, <3>2, <3>3
  <2>3. id <= LastId(a)'
    BY <1>6, <2>1, <2>2
  <2> QED
    BY <2>1, <2>3 DEF OfGenerator
<1> QED
  BY <1>1, <1>2, <1>5, <1>6, <1>7

\* A request goes on, and no other.
LoginGoes(p) ==
    /\ call' \in [Procs -> LoginType]
    /\ \A q \in Procs \ {p} : call'[q] = call[q]

LEMMA LoginGoesTo ==
    ASSUME LoginsInv, NEW p \in Procs, NEW c \in LoginType, call' = [call EXCEPT ![p] = c]
    PROVE  LoginGoes(p) /\ call'[p] = c
BY DEF LoginsInv, LoginsTyped, LoginGoes

LEMMA LoginGoto ==
    ASSUME LoginsInv, NEW p \in Procs, NEW next \in LoginPcs, Logins!Goto(p, next)
    PROVE  LoginGoes(p) /\ call'[p] = [call[p] EXCEPT !.pc = next]
BY DEF LoginsInv, LoginsTyped, LoginGoes, Logins!Goto, LoginType

LEMMA LoginFailed ==
    ASSUME LoginsInv, NEW p \in Procs, Logins!Failed(p)
    PROVE  LoginGoes(p) /\ call'[p] = [call[p] EXCEPT !.pc = "error", !.failed = TRUE]
<1> DEFINE c == [call[p] EXCEPT !.pc = "error", !.failed = TRUE]
<1>1. call \in [Procs -> LoginType] /\ call[p] \in LoginType
  BY DEF LoginsInv, LoginsTyped
<1>2. c \in LoginType
  BY <1>1 DEF LoginType, LoginPcs
<1>3. call' = [call EXCEPT ![p] = c]
  BY <1>1 DEF Logins!Failed
<1> QED
  BY <1>2, <1>3, LoginGoesTo

LEMMA LoginOthers ==
    ASSUME LoginsInv, [Logins!Next]_Logins!loginVars, NEW q \in Procs, call'[q] = call[q]
    PROVE  LoginCall(q)'
<1>1. LoginCall(q)
  BY DEF LoginsInv
<1>2. /\ s1 \subseteq s1' /\ s5 \subseteq s5' /\ \A t \in Mobiles : s7[t] \subseteq s7'[t]
      /\ \A a \in Apps : \A id : OfGenerator(a, id) => OfGenerator(a, id)'
  BY LoginsGrow
<1>3. AppOf(call[q])' = AppOf(call[q])
  BY DEF AppOf
<1>4. call[q].pc = "insert" =>
         IF AppOf(call[q]) \in Apps THEN OfGenerator(AppOf(call[q]), call[q].id)' ELSE call[q].id = 0
  BY <1>1, <1>2 DEF LoginCall
<1>5. call[q].pc = "refused" =>
         \E r \in Logins!Of(Logins!UserTable(call[q].app))' : r.who = call[q].who \/ r.auto
  BY <1>1, <1>2 DEF LoginCall, Logins!Of
<1> QED
  BY <1>1, <1>2, <1>4, <1>5 DEF LoginCall, AppOf

\* What a step of p, other than one of Find, Generate and Insert, does.
Passes(p) ==
    /\ LoginGoes(p) /\ LoginCall(p)' /\ call'[p].pc # "insert"
    /\ s1' = s1 /\ s3' = s3 /\ s8' = s8
    /\ calls' \in 0 .. MaxRequests /\ calls' \in {calls, calls + 1}
    /\ call'[p].pc \in WaitingPcs => call[p].pc \in WaitingPcs \/ calls' = calls + 1

LEMMA RequestsBegin ==
    ASSUME LoginsInv, NEW p \in Procs, NEW c \in LoginType, Logins!Begin(p, c)
    PROVE  /\ LoginGoes(p) /\ call'[p] = c
           /\ calls' \in 0 .. MaxRequests /\ calls' = calls + 1
<1>1. calls < MaxRequests /\ calls' = calls + 1 /\ MaxRequests \in Nat /\ calls \in Nat
  BY AccountAssumption DEF Logins!Begin, Logins!Called, LoginsInv, LoginsTyped
<1>2. call' = [call EXCEPT ![p] = c]
  BY DEF Logins!Begin
<1>3. calls' \in 0 .. MaxRequests
  BY <1>1
<1> QED
  BY <1>1, <1>2, <1>3, LoginGoesTo

LEMMA BeginPasses ==
    ASSUME LoginsInv, [Logins!Next]_Logins!loginVars, NEW p \in Procs,
           \/ \E who \in Arrivals, app \in AppHeaders : Logins!Callback(p, who, app, 0)
           \/ \E who \in Arrivals, app \in AppHeaders, a \in s5 : Logins!Callback(p, who, app, a.key)
           \/ \E op \in {"login", "register"}, t \in Mobiles, app \in AppHeaders :
                 \E code \in s7[t] \cup {0} : Logins!WithPhone(p, op, t, app, code)
           \/ \E t \in Mobiles : Logins!SetPhoneCode(p, t) /\ call' # call
    PROVE  Passes(p)
<1>1. ASSUME NEW who \in Arrivals, NEW app \in AppHeaders, NEW k \in Nat,
             Logins!Callback(p, who, app, k)
      PROVE  Passes(p)
  <2> DEFINE c == [Logins!Idle EXCEPT !.op = "wechat", !.pc = "inviter", !.who = who, !.app = app,
                                      !.key = k]
  <2>1. /\ c \in LoginType /\ c.pc = "inviter" /\ c.op = "wechat" /\ c.id = 0 /\ c.invitation = 0
    BY DEF Logins!Idle, Logins!Nothing, LoginType, LoginPcs
  <2>2. Logins!Begin(p, c) /\ s1' = s1 /\ s3' = s3 /\ s8' = s8
    BY <1>1 DEF Logins!Callback, Logins!Rows
  <2> HIDE DEF c
  <2>3. /\ LoginGoes(p) /\ call'[p] = c
        /\ calls' \in 0 .. MaxRequests /\ calls' = calls + 1
    BY <2>1, <2>2, RequestsBegin
  <2>4. LoginCall(p)'
    BY <2>1, <2>3 DEF LoginCall
  <2> QED
    BY <2>1, <2>2, <2>3, <2>4 DEF Passes
<1>2. ASSUME NEW op \in {"login", "register"}, NEW t \in Mobiles, NEW app \in AppHeaders,
             NEW code \in s7[t] \cup {0}, Logins!WithPhone(p, op, t, app, code)
      PROVE  Passes(p)
  <2> DEFINE c == [Logins!Idle EXCEPT !.op = op, !.pc = "verify", !.who = t, !.app = app,
                                      !.key = code]
  <2>1. code \in Nat
    BY DEF LoginsInv, LoginsTyped
  <2>2. /\ c \in LoginType /\ c.pc = "verify" /\ c.who = t /\ c.key = code /\ c.id = 0
        /\ c.invitation = 0
    BY <2>1 DEF Logins!Idle, Logins!Nothing, LoginType, LoginPcs
  <2>3. Logins!Begin(p, c) /\ s1' = s1 /\ s3' = s3 /\ s8' = s8 /\ s7' = s7
    BY <1>2 DEF Logins!WithPhone, Logins!Rows, Logins!Keys
  <2> HIDE DEF c
  <2>4. /\ LoginGoes(p) /\ call'[p] = c
        /\ calls' \in 0 .. MaxRequests /\ calls' = calls + 1
    BY <2>2, <2>3, RequestsBegin
  <2>5. LoginCall(p)'
    BY <2>2, <2>3, <2>4 DEF LoginCall
  <2> QED
    BY <2>2, <2>3, <2>4, <2>5 DEF Passes
<1>3. ASSUME NEW t \in Mobiles, Logins!SetPhoneCode(p, t), call' # call
      PROVE  Passes(p)
  <2> DEFINE c == [Logins!Idle EXCEPT !.op = "send", !.pc = "send", !.who = t, !.key = calls + 1]
  <2>1. calls + 1 \in Nat
    BY AccountAssumption DEF LoginsInv, LoginsTyped
  <2>2. /\ c \in LoginType /\ c.pc = "send" /\ c.op = "send" /\ c.invitation = 0
    BY <2>1 DEF Logins!Idle, Logins!Nothing, LoginType, LoginPcs
  <2>3. Logins!Begin(p, c) /\ s1' = s1 /\ s3' = s3 /\ s8' = s8
    BY <1>3 DEF Logins!SetPhoneCode, Logins!Rows
  <2> HIDE DEF c
  <2>4. /\ LoginGoes(p) /\ call'[p] = c
        /\ calls' \in 0 .. MaxRequests /\ calls' = calls + 1
    BY <2>2, <2>3, RequestsBegin
  <2>5. LoginCall(p)'
    BY <2>2, <2>4 DEF LoginCall, WaitingPcs
  <2> QED
    BY <2>2, <2>3, <2>4, <2>5 DEF Passes, WaitingPcs
<1>4. \A a \in s5 : a.key \in Nat
  BY DEF LoginsInv, LoginsTyped
<1> QED
  BY <1>1, <1>2, <1>3, <1>4

\* The request keeps what its LoginCall is about.
SameRequest(p) ==
    /\ call'[p].op = call[p].op /\ call'[p].who = call[p].who /\ call'[p].key = call[p].key
    /\ call'[p].app = call[p].app

LEMMA OnPasses ==
    ASSUME LoginsInv, [Logins!Next]_Logins!loginVars, NEW p \in Procs,
           \/ Logins!Send(p) \/ Logins!getInviterCode(p) \/ Logins!Verify(p)
           \/ Logins!getMemberDDL(p) \/ Logins!FindPersonalPermissions(p) \/ Logins!Return(p)
    PROVE  Passes(p)
<1>1. /\ s1' = s1 /\ s3' = s3 /\ s8' = s8 /\ calls' = calls /\ calls \in 0 .. MaxRequests
      /\ s5' = s5
  BY DEF Logins!Send, Logins!getInviterCode, Logins!Verify, Logins!getMemberDDL,
         Logins!FindPersonalPermissions, Logins!Return, Logins!Rows, Logins!Keys, LoginsInv, LoginsTyped
<1>2. call[p] \in LoginType /\ LoginCall(p) /\ \A t \in Mobiles : s7[t] \subseteq s7'[t]
  BY LoginsGrow DEF LoginsInv, LoginsTyped
<1>3. ASSUME LoginGoes(p), SameRequest(p), call'[p].invitation = call[p].invitation,
             call'[p].pc \in {"sent", "error", "wrong", "perms", "in"},
             call[p].op \in {"login", "register"} /\ call'[p].pc \notin {"error", "wrong"} =>
                 call[p].pc \notin {"verify", "wrong", "error"}
      PROVE  Passes(p)
  <2>1. LoginCall(p)'
    BY <1>1, <1>2, <1>3 DEF LoginCall, SameRequest, WaitingPcs
  <2> QED
    BY <1>1, <1>3, <2>1 DEF Passes, WaitingPcs
<1>4. ASSUME Logins!Failed(p)
      PROVE  Passes(p)
  <2>1. LoginGoes(p) /\ call'[p] = [call[p] EXCEPT !.pc = "error", !.failed = TRUE]
    BY <1>4, LoginFailed
  <2>2. SameRequest(p) /\ call'[p].invitation = call[p].invitation /\ call'[p].pc = "error"
    BY <1>2, <2>1 DEF LoginType, SameRequest
  <2> QED
    BY <1>3, <2>1, <2>2
<1>5. ASSUME NEW next \in LoginPcs, Logins!Goto(p, next)
      PROVE  /\ LoginGoes(p) /\ SameRequest(p) /\ call'[p].invitation = call[p].invitation
             /\ call'[p].pc = next /\ call'[p].id = call[p].id
  <2>1. LoginGoes(p) /\ call'[p] = [call[p] EXCEPT !.pc = next]
    BY <1>5, LoginGoto
  <2> QED
    BY <1>2, <2>1 DEF LoginType, SameRequest
<1>6. ASSUME Logins!Send(p)
      PROVE  Passes(p)
  <2>1. CASE Logins!Goto(p, "sent")
    BY <1>3, <1>5, <1>6, <2>1 DEF Logins!Send, LoginPcs
  <2> QED
    BY <1>4, <1>6, <2>1 DEF Logins!Send
<1>7. ASSUME Logins!getInviterCode(p)
      PROVE  Passes(p)
  <2>1. call[p].pc = "inviter" /\ call[p].id = 0 /\ s7' = s7
    BY <1>2, <1>7 DEF Logins!getInviterCode, LoginCall, WaitingPcs, Logins!Keys
  <2>2. ASSUME LoginGoes(p), SameRequest(p), call'[p].pc = "find", call'[p].id = call[p].id,
               call'[p].invitation # 0 =>
                   \E a \in s5 : a.by = call[p].key /\ a.invitation = call'[p].invitation
        PROVE  Passes(p)
    <3>1. LoginCall(p)'
      BY <1>1, <1>2, <2>1, <2>2 DEF LoginCall, SameRequest, WaitingPcs
    <3> QED
      BY <1>1, <2>1, <2>2, <3>1 DEF Passes, WaitingPcs
  <2>3. CASE Logins!Goto(p, "find")
    <3>1. /\ LoginGoes(p) /\ SameRequest(p) /\ call'[p].invitation = call[p].invitation
          /\ call'[p].pc = "find" /\ call'[p].id = call[p].id
      BY <1>5, <2>3 DEF LoginPcs
    <3> QED
      BY <1>2, <2>2, <3>1 DEF LoginCall
  <2>4. ASSUME NEW s \in s4, s.key = call[p].key,
               call' = [call EXCEPT ![p].invitation = s.invitation, ![p].pc = "find"]
        PROVE  Passes(p)
    <3> DEFINE c == [call[p] EXCEPT !.invitation = s.invitation, !.pc = "find"]
    <3>1. s.invitation \in {1, 2} /\ call \in [Procs -> LoginType]
      BY DEF LoginsInv, LoginsTyped
    <3>2. c \in LoginType
      BY <1>2, <3>1 DEF LoginType, LoginPcs
    <3>3. call' = [call EXCEPT ![p] = c]
      BY <2>4, <3>1
    <3>4. LoginGoes(p) /\ call'[p] = c
      BY <3>2, <3>3, LoginGoesTo
    <3>5. SameRequest(p) /\ call'[p].pc = "find" /\ call'[p].id = call[p].id
          /\ call'[p].invitation = s.invitation
      BY <1>2, <3>4 DEF LoginType, SameRequest
    <3>6. \E a \in s5 : a.by = call[p].key /\ a.invitation = s.invitation
      BY <2>4 DEF LoginsInv, StatesAreAsked
    <3> QED
      BY <2>2, <3>4, <3>5, <3>6
  <2> QED
    BY <1>7, <2>3, <2>4 DEF Logins!getInviterCode
<1>8. ASSUME Logins!Verify(p)
      PROVE  Passes(p)
  <2>1. call[p].pc = "verify" /\ call[p].id = 0 /\ s7' = s7
    BY <1>2, <1>8 DEF Logins!Verify, LoginCall, WaitingPcs, Logins!Keys
  <2>2. CASE Logins!Right(p) /\ Logins!Goto(p, IF call[p].op = "login" THEN "find" ELSE "id")
    <3>1. PICK next \in {"find", "id"} : Logins!Goto(p, next)
      BY <2>2
    <3>2. /\ LoginGoes(p) /\ SameRequest(p) /\ call'[p].invitation = call[p].invitation
          /\ call'[p].pc = next /\ call'[p].id = call[p].id
      BY <1>5, <3>1 DEF LoginPcs
    <3>3. call[p].key # 0
      BY <2>2 DEF Logins!Right, Logins!Nothing
    <3>4. LoginCall(p)'
      BY <1>1, <1>2, <2>1, <3>2, <3>3 DEF LoginCall, SameRequest, WaitingPcs
    <3> QED
      BY <1>1, <2>1, <3>2, <3>4 DEF Passes, WaitingPcs
  <2>3. CASE Logins!Goto(p, "wrong")
    BY <1>3, <1>5, <2>3 DEF LoginPcs
  <2> QED
    BY <1>4, <1>8, <2>2, <2>3 DEF Logins!Verify
<1>9. ASSUME Logins!getMemberDDL(p)
      PROVE  Passes(p)
  BY <1>3, <1>5, <1>9 DEF Logins!getMemberDDL, LoginPcs
<1>10. ASSUME Logins!FindPersonalPermissions(p)
       PROVE  Passes(p)
  <2>1. ASSUME NEW next \in {"in", "error"}, Logins!Goto(p, next)
        PROVE  Passes(p)
    BY <1>3, <1>5, <1>10, <2>1 DEF Logins!FindPersonalPermissions, LoginPcs
  <2> QED
    BY <1>4, <1>10, <2>1 DEF Logins!FindPersonalPermissions
<1>11. ASSUME Logins!Return(p)
       PROVE  Passes(p)
  <2>1. Logins!Idle \in LoginType
    BY DEF Logins!Idle, Logins!Nothing, LoginType, LoginPcs
  <2>2. call' = [call EXCEPT ![p] = Logins!Idle]
    BY <1>11 DEF Logins!Return
  <2>3. LoginGoes(p) /\ call'[p] = Logins!Idle
    BY <2>1, <2>2, LoginGoesTo
  <2>4. LoginCall(p)'
    BY <2>3 DEF LoginCall, Logins!Idle, Logins!Nothing, WaitingPcs
  <2> QED
    BY <1>1, <2>3, <2>4 DEF Passes, Logins!Idle, WaitingPcs
<1> QED
  BY <1>6, <1>7, <1>8, <1>9, <1>10, <1>11

\* A search leads to the row, to "nobody", or to a new row's id.
LEMMA FindGoes ==
    ASSUME LoginsInv, [Logins!Next]_Logins!loginVars, NEW p \in Procs, Logins!Find(p)
    PROVE  /\ LoginGoes(p) /\ LoginCall(p)' /\ call'[p].pc # "insert"
           /\ s1' = s1 /\ s3' = s3 /\ calls' = calls /\ call[p].pc \in WaitingPcs
           /\ AnswersHaveRows'
<1>1. /\ s1' = s1 /\ s3' = s3 /\ calls' = calls /\ s5' = s5 /\ s7' = s7 /\ call[p].pc = "find"
      /\ call[p] \in LoginType /\ call \in [Procs -> LoginType] /\ LoginCall(p) /\ AnswersHaveRows
  BY DEF Logins!Find, Logins!Keys, LoginsInv, LoginsTyped
<1>2. ASSUME LoginGoes(p), SameRequest(p), call'[p].invitation = call[p].invitation,
             \/ call'[p].pc \in {"ddl", "unknown"}
             \/ call'[p].pc = "id" /\ call'[p].id = call[p].id
      PROVE  LoginCall(p)' /\ call'[p].pc # "insert"
  BY <1>1, <1>2 DEF LoginCall, SameRequest, WaitingPcs
<1>3. ASSUME NEW next \in {"unknown", "id"}, Logins!Goto(p, next), s8' = s8
      PROVE  LoginGoes(p) /\ LoginCall(p)' /\ call'[p].pc # "insert" /\ AnswersHaveRows'
  <2>1. LoginGoes(p) /\ call'[p] = [call[p] EXCEPT !.pc = next]
    BY <1>3, LoginGoto DEF LoginPcs
  <2>2. SameRequest(p) /\ call'[p].invitation = call[p].invitation /\ call'[p].pc = next
        /\ call'[p].id = call[p].id
    BY <1>1, <2>1 DEF LoginType, SameRequest
  <2>3. AnswersHaveRows'
    BY <1>1, <1>3 DEF AnswersHaveRows, Logins!Of
  <2> QED
    BY <1>2, <2>1, <2>2, <2>3
<1>4. ASSUME NEW r \in Logins!Of(Logins!Sharded("users", call[p].app)), r.who = call[p].who,
             call' = [call EXCEPT ![p].id = r.id, ![p].pc = "ddl"], Logins!CameTo(p, r.id)
      PROVE  LoginGoes(p) /\ LoginCall(p)' /\ call'[p].pc # "insert" /\ AnswersHaveRows'
  <2> DEFINE c == [call[p] EXCEPT !.id = r.id, !.pc = "ddl"]
  <2>1. r \in s1 /\ r.id \in Nat
    BY DEF Logins!Of, LoginsInv, LoginsTyped
  <2>2. c \in LoginType /\ call' = [call EXCEPT ![p] = c]
    BY <1>1, <1>4, <2>1 DEF LoginType, LoginPcs
  <2>3. LoginGoes(p) /\ call'[p] = c
    BY <2>2, LoginGoesTo
  <2>4. SameRequest(p) /\ call'[p].invitation = call[p].invitation /\ call'[p].pc = "ddl"
    BY <1>1, <2>3 DEF LoginType, SameRequest
  <2>5. Logins!Sharded("users", call[p].app) = Logins!UserTable(call[p].app)
    BY DEF Logins!Sharded, Logins!UserTable
  <2>6. AnswersHaveRows'
    <3>1. s8' = s8 \cup {[who |-> call[p].who, app |-> call[p].app, id |-> r.id]}
      BY <1>4 DEF Logins!CameTo
    <3> QED
      BY <1>1, <1>4, <2>5, <3>1 DEF AnswersHaveRows, Logins!Of
  <2> QED
    BY <1>2, <2>3, <2>4, <2>6
<1>5. LoginGoes(p) /\ LoginCall(p)' /\ call'[p].pc # "insert" /\ AnswersHaveRows'
  BY <1>3, <1>4 DEF Logins!Find
<1> QED
  BY <1>1, <1>5 DEF WaitingPcs

LEMMA GivenIds ==
    ASSUME LoginsInv, NEW a \in Apps, NEW id, OfGenerator(a, id)
    PROVE  id \in Nat \ {0} /\ LastId(a) \in Nat /\ id <= LastId(a)
<1>1. PICK ms \in Nat \ {0}, step \in 0 .. IdSteps - 1 :
              id = Logins!Id(ms, a, step) /\ id <= LastId(a)
  BY DEF OfGenerator
<1>2. LastId(a) \in Nat
  BY LastIds DEF LoginsInv, LoginsTyped, LastId
<1>3. step \in Nat /\ IdSteps \in Nat \ {0}
  BY AccountAssumption
<1>4. id = First(ms, a) + step /\ First(ms, a) \in Nat
  BY <1>1, <1>3, IdsAreNumbers
<1>5. Logins!Id(0, a, 0) < First(ms, a) /\ Logins!Id(0, a, 0) \in Nat
  BY <1>3, LaterIsMore, IdsAreNumbers
<1> QED
  BY <1>1, <1>2, <1>3, <1>4, <1>5

LEMMA TablesOfApps ==
    \A a, b \in Apps : Logins!tableNameFromAppId(a) = Logins!tableNameFromAppId(b) => a = b
BY DEF Apps, Logins!tableNameFromAppId

LEMMA OnceKeeps ==
    ASSUME LoginsInv, NEW p \in Procs, LoginGoes(p), ~Inserting(p)', s1' = s1
    PROVE  IdsAreOnce'
<1>1. IdsAreOnce
  BY DEF LoginsInv
<1>2. \A q \in Procs : Inserting(q)' =>
         /\ q # p /\ Inserting(q)
         /\ AppOf(call[q])' = AppOf(call[q]) /\ call'[q].id = call[q].id
  BY DEF Inserting, AppOf, LoginGoes
<1> SUFFICES ASSUME NEW x \in Procs, Inserting(x)'
             PROVE  /\ \A q \in Procs \ {x} :
                          Inserting(q)' /\ AppOf(call[q])' = AppOf(call[x])' =>
                              call'[q].id # call'[x].id
                    /\ \A r \in s1 :
                          ~r.auto /\ r.table = Logins!tableNameFromAppId(AppOf(call[x])') =>
                              r.id # call'[x].id
  BY DEF IdsAreOnce
<1>3. \A r \in s1 : ~r.auto /\ r.table = Logins!tableNameFromAppId(AppOf(call[x])) => r.id # call[x].id
  BY <1>1, <1>2 DEF IdsAreOnce
<1>4. \A r \in s1 : ~r.auto /\ r.table = Logins!tableNameFromAppId(AppOf(call[x])') => r.id # call'[x].id
  <2>1. AppOf(call[x])' = AppOf(call[x]) /\ call'[x].id = call[x].id
    BY <1>2
  <2> QED
    BY <1>3, <2>1
<1> QED
  BY <1>1, <1>2, <1>4 DEF IdsAreOnce

LEMMA GenerateGoes ==
    ASSUME LoginsInv, [Logins!Next]_Logins!loginVars, NEW p \in Procs, Logins!Generate(p)
    PROVE  /\ LoginGoes(p) /\ LoginCall(p)' /\ s1' = s1 /\ s8' = s8 /\ calls' = calls
           /\ call[p].pc \in WaitingPcs
           /\ IdsAreOnce'
<1> PICK a : a = AppOf(call[p])
  OBVIOUS
<1>1. /\ s1' = s1 /\ s8' = s8 /\ calls' = calls /\ s5' = s5 /\ s7' = s7 /\ call[p].pc = "id"
      /\ call[p] \in LoginType /\ call \in [Procs -> LoginType] /\ LoginCall(p) /\ IdsAreOnce
      /\ s3 \in [Apps -> [ms : Nat, step : 0 .. IdSteps - 1]] /\ s2 \in Nat \ {0}
  BY DEF Logins!Generate, Logins!Keys, LoginsInv, LoginsTyped
<1>2. CASE a \notin Apps /\ Logins!Goto(p, "insert") /\ s3' = s3
  <2>1. LoginGoes(p) /\ call'[p] = [call[p] EXCEPT !.pc = "insert"]
    BY <1>2, LoginGoto DEF LoginPcs
  <2>2. SameRequest(p) /\ call'[p].invitation = call[p].invitation /\ call'[p].pc = "insert"
        /\ call'[p].id = call[p].id /\ AppOf(call[p])' = AppOf(call[p])
    BY <1>1, <2>1 DEF LoginType, SameRequest, AppOf
  <2>3. LoginCall(p)'
    BY <1>1, <1>2, <2>2 DEF LoginCall, SameRequest, WaitingPcs
  <2>4. IdsAreOnce'
    BY <1>1, <1>2, <2>1, <2>2, OnceKeeps DEF Inserting
  <2> QED
    BY <1>1, <2>1, <2>3, <2>4 DEF WaitingPcs
<1>3. CASE /\ a \in Apps /\ Logins!NextStep(a).step < IdSteps
           /\ s3' = [s3 EXCEPT ![a] = Logins!NextStep(a)]
           /\ call' = [call EXCEPT ![p].id = Logins!Id(s2, a, Logins!NextStep(a).step),
                                   ![p].pc = "insert"]
  <2> PICK next : next = Logins!NextStep(a)
    OBVIOUS
  <2> PICK id : id = Logins!Id(s2, a, next.step)
    OBVIOUS
  <2> DEFINE c == [call[p] EXCEPT !.id = id, !.pc = "insert"]
  <2>1. /\ next \in [ms : Nat, step : 0 .. IdSteps - 1] /\ next.ms = s2
        /\ LastId(a) \in Nat /\ LastId(a) < id
    BY <1>3, Generated
  <2>2. next.step \in Nat /\ id \in Nat
    BY <1>1, <1>3, <2>1, LastIds
  <2>3. c \in LoginType /\ call' = [call EXCEPT ![p] = c]
    BY <1>1, <1>3, <2>2 DEF LoginType, LoginPcs
  <2>4. LoginGoes(p) /\ call'[p] = c
    BY <2>3, LoginGoesTo
  <2>5. /\ SameRequest(p) /\ call'[p].invitation = call[p].invitation /\ call'[p].pc = "insert"
        /\ call'[p].id = id /\ AppOf(call[p])' = a
    BY <1>1, <2>4 DEF LoginType, SameRequest, AppOf
  <2>6. OfGenerator(a, id)'
    <3>1. s3'[a] = next
      BY <1>1, <1>3
    <3>2. LastId(a)' = id
      BY <2>1, <3>1 DEF LastId
    <3> QED
      BY <1>1, <2>1, <2>2, <3>2 DEF OfGenerator
  <2>7. LoginCall(p)'
    BY <1>1, <1>3, <2>5, <2>6 DEF LoginCall, SameRequest, WaitingPcs
  <2>8. ASSUME NEW q \in Procs \ {p}, Inserting(q), AppOf(call[q]) = a
        PROVE  call[q].id # id
    <3>1. OfGenerator(a, call[q].id)
      BY <1>3, <2>8 DEF LoginsInv, LoginCall, Inserting
    <3> QED
      BY <1>3, <2>1, <2>2, <3>1, GivenIds
  <2>9. ASSUME NEW r \in s1, ~r.auto, r.table = Logins!tableNameFromAppId(a)
        PROVE  r.id # id
    <3>1. PICK b \in Apps : r.table = Logins!tableNameFromAppId(b) /\ OfGenerator(b, r.id)
      BY <2>9 DEF LoginsInv, RowsHaveOrigins
    <3>2. b = a
      BY <1>3, <2>9, <3>1, TablesOfApps
    <3> QED
      BY <1>3, <2>1, <2>2, <3>1, <3>2, GivenIds
  <2>10. \A q \in Procs \ {p} : Inserting(q)' = Inserting(q) /\ AppOf(call[q])' = AppOf(call[q])
                                /\ call'[q].id = call[q].id
    BY <2>4 DEF Inserting, AppOf, LoginGoes
  <2>11. IdsAreOnce'
    <3> HIDE DEF c
    <3> SUFFICES ASSUME NEW x \in Procs, Inserting(x)'
                 PROVE  /\ \A q \in Procs \ {x} :
                              Inserting(q)' /\ AppOf(call[q])' = AppOf(call[x])' =>
                                  call'[q].id # call'[x].id
                        /\ \A r \in s1 :
                              ~r.auto /\ r.table = Logins!tableNameFromAppId(AppOf(call[x])') =>
                                  r.id # call'[x].id
      BY <1>1 DEF IdsAreOnce
    <3>1. CASE x = p
      BY <2>5, <2>8, <2>9, <2>10, <3>1
    <3>2. CASE x # p
      BY <1>1, <2>5, <2>8, <2>10, <3>2 DEF IdsAreOnce
    <3> QED
      BY <3>1, <3>2
  <2> QED
    BY <1>1, <2>4, <2>7, <2>11 DEF WaitingPcs
<1> QED
  BY <1>2, <1>3 DEF Logins!Generate, Logins!Known, Apps, AppOf

\* MySQL's next id is after all of its table.
LEMMA NextIdIsNew ==
    ASSUME LoginsInv
    PROVE  \E n \in Nat : /\ Logins!NextId = 1 + n
                          /\ n = 0 \/ \E r \in Logins!Of("users") : n = r.id
                          /\ \A r \in Logins!Of("users") : r.id <= n
<1> DEFINE S == {0} \cup {r.id : r \in Logins!Of("users")}
           Last(n) == \A r \in Logins!Of("users") : r.id <= n
           last == CHOOSE n \in S : Last(n)
<1>1. last \in S /\ Last(last)
  <2>1. \E n \in S : Last(n)
    BY DEF LoginsInv, HasLast
  <2> HIDE DEF S, Last
  <2> QED
    BY <2>1
<1>2. \A r \in Logins!Of("users") : r.id \in Nat
  BY DEF Logins!Of, LoginsInv, LoginsTyped
<1>3. Logins!NextId = 1 + last
  BY DEF Logins!NextId
<1> QED
  <2> HIDE DEF last
  <2> QED
    BY <1>1, <1>2, <1>3

LEMMA AutosFinite ==
    ASSUME LoginsInv
    PROVE  /\ IsFiniteSet(Autos) /\ Cardinality(Autos) \in Nat
           /\ IsFiniteSet(Waiting) /\ Cardinality(Waiting) \in Nat
<1>1. IsFiniteSet(s1) /\ Autos \subseteq s1 /\ IsFiniteSet(Procs) /\ Waiting \subseteq Procs
  BY AccountAssumption DEF LoginsInv, LoginsTyped, Autos, Waiting
<1> QED
  BY <1>1, FS_Subset, FS_CardinalityType

\* The row that Insert is about.
NewUser(p, table, id) ==
    [table |-> table, id |-> id, who |-> call[p].who, auto |-> call[p].id = 0]

Asked(p, table, id) ==
    /\ table = Logins!UserTable(call[p].app)
    /\ id = IF call[p].id = 0 THEN Logins!NextId ELSE call[p].id

LEMMA InsertIds ==
    ASSUME LoginsInv, NEW p \in Procs, call[p].pc = "insert", NEW table, NEW id, Asked(p, table, id)
    PROVE  /\ table \in {"users", "users_ielts"} /\ id \in Nat
           /\ \/ /\ call[p].id = 0 /\ table = "users"
                 /\ id = Logins!NextId /\ ~Inserting(p)
              \/ /\ call[p].id # 0 /\ id = call[p].id /\ Inserting(p)
                 /\ table = Logins!tableNameFromAppId(AppOf(call[p]))
                 /\ OfGenerator(AppOf(call[p]), id)
<1>1. LoginCall(p)
  BY DEF LoginsInv
<1>2. NoApp \notin Apps
  BY AccountAssumption DEF Apps
<1>3. CASE AppOf(call[p]) \in Apps
  <2>1. OfGenerator(AppOf(call[p]), call[p].id)
    BY <1>1, <1>3 DEF LoginCall
  <2>2. call[p].id \in Nat \ {0}
    BY <1>3, <2>1, GivenIds
  <2>3. table = Logins!tableNameFromAppId(AppOf(call[p]))
    BY <1>2, <1>3 DEF Asked, Logins!UserTable, Logins!Known, Logins!tableNameFromAppId, AppOf, Apps
  <2> QED
    BY <1>3, <2>1, <2>2, <2>3 DEF Asked, Inserting, Logins!tableNameFromAppId
<1>4. CASE AppOf(call[p]) \notin Apps
  <2>1. call[p].id = 0 /\ table = "users"
    BY <1>1, <1>4 DEF LoginCall, Asked, Logins!UserTable, Logins!Known, AppOf, Apps
  <2>2. Logins!NextId \in Nat
    BY NextIdIsNew
  <2> QED
    BY <1>4, <2>1, <2>2 DEF Asked, Inserting
<1> QED
  BY <1>3, <1>4

LEMMA InsertGoes ==
    ASSUME LoginsInv, [Logins!Next]_Logins!loginVars, NEW p \in Procs, Logins!Insert(p)
    PROVE  /\ LoginGoes(p) /\ LoginCall(p)' /\ call[p].pc = "insert" /\ calls' = calls
           /\ call'[p].pc \in {"refused", "ddl"} /\ s3' = s3
           /\ \/ s1' = s1 /\ s8' = s8
              \/ \E table, id :
                    /\ Asked(p, table, id)
                    /\ \A r \in Logins!Of(table) : r.id # id /\ r.who # call[p].who
                    /\ s1' = s1 \cup {NewUser(p, table, id)}
                    /\ s8' = s8 \cup {[who |-> call[p].who, app |-> call[p].app, id |-> id]}
<1> PICK table : table = Logins!UserTable(call[p].app)
  OBVIOUS
<1> PICK id : id = IF call[p].id = 0 THEN Logins!NextId ELSE call[p].id
  OBVIOUS
<1>1. /\ calls' = calls /\ s5' = s5 /\ s7' = s7 /\ s3' = s3 /\ call[p].pc = "insert"
      /\ call[p] \in LoginType /\ call \in [Procs -> LoginType] /\ LoginCall(p)
  BY DEF Logins!Insert, Logins!Keys, LoginsInv, LoginsTyped
<1>2. Asked(p, table, id)
  BY DEF Asked
<1>3. CASE /\ \E r \in Logins!Of(table) : r.id = id \/ r.who = call[p].who
           /\ Logins!Goto(p, "refused") /\ s1' = s1 /\ s8' = s8
  <2>1. LoginGoes(p) /\ call'[p] = [call[p] EXCEPT !.pc = "refused"]
    BY <1>3, LoginGoto DEF LoginPcs
  <2>2. SameRequest(p) /\ call'[p].invitation = call[p].invitation /\ call'[p].pc = "refused"
    BY <1>1, <2>1 DEF LoginType, SameRequest
  <2>3. \E r \in Logins!Of(table) : r.who = call[p].who \/ r.auto
    <3>1. PICK r \in Logins!Of(table) : r.id = id \/ r.who = call[p].who
      BY <1>3
    <3>2. CASE call[p].id = 0 /\ table = "users" /\ id = Logins!NextId
      <4>1. r.id # id
        BY <3>1, <3>2, NextIdIsNew DEF LoginsInv, LoginsTyped, Logins!Of
      <4> QED
        BY <3>1, <4>1
    <3>3. CASE /\ id = call[p].id /\ Inserting(p)
               /\ table = Logins!tableNameFromAppId(AppOf(call[p]))
      <4>1. r \in s1 /\ r.table = table
        BY DEF Logins!Of
      <4>2. ~r.auto => r.id # id
        BY <3>3, <4>1 DEF LoginsInv, IdsAreOnce
      <4> QED
        BY <3>1, <4>2
    <3> QED
      BY <1>1, <1>2, <3>2, <3>3, InsertIds
  <2>4. LoginCall(p)'
    <3>1. \E r \in Logins!Of(Logins!UserTable(call[p].app))' : r.who = call'[p].who \/ r.auto
      BY <1>3, <2>2, <2>3 DEF SameRequest, Logins!Of
    <3> QED
      BY <1>1, <2>2, <3>1 DEF LoginCall, SameRequest, WaitingPcs
  <2> QED
    BY <1>1, <1>3, <2>1, <2>2, <2>4
<1>4. CASE /\ \A r \in Logins!Of(table) : r.id # id /\ r.who # call[p].who
           /\ s1' = s1 \cup {NewUser(p, table, id)}
           /\ Logins!CameTo(p, id)
           /\ call' = [call EXCEPT ![p].id = id, ![p].pc = "ddl"]
  <2> DEFINE c == [call[p] EXCEPT !.id = id, !.pc = "ddl"]
  <2>1. id \in Nat
    BY <1>1, <1>2, InsertIds
  <2>2. c \in LoginType /\ call' = [call EXCEPT ![p] = c]
    BY <1>1, <1>4, <2>1 DEF LoginType, LoginPcs
  <2>3. LoginGoes(p) /\ call'[p] = c
    BY <2>2, LoginGoesTo
  <2>4. SameRequest(p) /\ call'[p].invitation = call[p].invitation /\ call'[p].pc = "ddl"
    BY <1>1, <2>3 DEF LoginType, SameRequest
  <2>5. LoginCall(p)'
    BY <1>1, <2>4 DEF LoginCall, SameRequest, WaitingPcs
  <2>6. s8' = s8 \cup {[who |-> call[p].who, app |-> call[p].app, id |-> id]}
    BY <1>4 DEF Logins!CameTo
  <2> QED
    BY <1>1, <1>2, <1>4, <2>3, <2>4, <2>5, <2>6
<1> QED
  BY <1>3, <1>4 DEF Logins!Insert, NewUser

\* What holds of the tables with a new row.
LEMMA NewUserFits ==
    ASSUME LoginsInv, NEW p \in Procs, call[p].pc = "insert", NEW table, NEW id, Asked(p, table, id),
           \A r \in Logins!Of(table) : r.id # id /\ r.who # call[p].who,
           s1' = s1 \cup {NewUser(p, table, id)}, s3' = s3,
           s8' = s8 \cup {[who |-> call[p].who, app |-> call[p].app, id |-> id]},
           LoginGoes(p), call'[p].pc \notin WaitingPcs, calls' = calls
    PROVE  /\ s1' \subseteq [table : {"users", "users_ielts"}, id : Nat,
                             who : Arrivals \cup Mobiles \cup {0}, auto : BOOLEAN]
           /\ IsFiniteSet(s1')
           /\ AutosAreCounted' /\ RowsHaveOrigins' /\ UniqueUsers' /\ IdsAreOnce' /\ HasLast'
           /\ AnswersHaveRows'
<1> PICK new : new = NewUser(p, table, id)
  OBVIOUS
<1>1. /\ new.table = table /\ new.id = id /\ new.who = call[p].who
      /\ new.auto = (call[p].id = 0) /\ s1' = s1 \cup {new}
  BY DEF NewUser
<1>2. /\ s1 \subseteq [table : {"users", "users_ielts"}, id : Nat,
                       who : Arrivals \cup Mobiles \cup {0}, auto : BOOLEAN]
      /\ IsFiniteSet(s1) /\ call[p] \in LoginType
      /\ s3 \in [Apps -> [ms : Nat, step : 0 .. IdSteps - 1]]
  BY DEF LoginsInv, LoginsTyped
<1>3. /\ table \in {"users", "users_ielts"} /\ id \in Nat
      /\ \/ /\ call[p].id = 0 /\ table = "users"
            /\ id = Logins!NextId /\ ~Inserting(p)
         \/ /\ call[p].id # 0 /\ id = call[p].id /\ Inserting(p)
            /\ table = Logins!tableNameFromAppId(AppOf(call[p]))
            /\ OfGenerator(AppOf(call[p]), id)
  BY InsertIds
<1>4. new \notin s1
  BY <1>1 DEF Logins!Of
<1>5. s1' \subseteq [table : {"users", "users_ielts"}, id : Nat,
                     who : Arrivals \cup Mobiles \cup {0}, auto : BOOLEAN]
  <2>1. new \in [table : {"users", "users_ielts"}, id : Nat,
                 who : Arrivals \cup Mobiles \cup {0}, auto : BOOLEAN]
    BY <1>2, <1>3 DEF NewUser, LoginType
  <2> QED
    BY <1>1, <1>2, <2>1
<1>6. IsFiniteSet(s1')
  BY <1>1, <1>2, <1>4, OneMore
<1>7. /\ IsFiniteSet(Autos) /\ Cardinality(Autos) \in Nat
      /\ IsFiniteSet(Waiting) /\ Cardinality(Waiting) \in Nat
  BY AutosFinite
<1>8. Cardinality(Autos') = Cardinality(Autos) + (IF new.auto THEN 1 ELSE 0)
  <2>1. CASE new.auto
    <3>1. Autos' = Autos \cup {new} /\ new \notin Autos
      BY <1>1, <1>4, <2>1 DEF Autos
    <3> QED
      BY <1>7, <2>1, <3>1, OneMore
  <2>2. CASE ~new.auto
    <3>1. Autos' = Autos
      BY <1>1, <2>2 DEF Autos
    <3> QED
      BY <1>7, <2>2, <3>1
  <2> QED
    BY <2>1, <2>2
<1>9. AutosAreCounted'
  <2>1. Waiting' = Waiting \ {p} /\ p \in Waiting
    BY DEF Waiting, WaitingPcs, LoginGoes
  <2>2. Cardinality(Waiting') = Cardinality(Waiting) - 1
    BY <1>7, <2>1, OneLess
  <2>3. AutosAreCounted /\ calls \in Nat
    BY AccountAssumption DEF LoginsInv, LoginsTyped
  <2> QED
    BY <1>7, <1>8, <2>2, <2>3 DEF AutosAreCounted
<1>10. IdSteps \in Nat \ {0} /\ \A ms \in Nat : First(ms, 0) \in Nat
  BY AccountAssumption, IdsAreNumbers DEF Apps
<1>11. RowsHaveOrigins'
  <2>1. \A x : Near(x) /\ x \in Nat => Near(x)'
    BY <1>7, <1>8, <1>10 DEF Near
  <2>2. \A a \in Apps : \A x : OfGenerator(a, x) => OfGenerator(a, x)'
    BY DEF OfGenerator, LastId
  <2>3. ASSUME NEW r \in s1
        PROVE  \/ r.auto /\ r.table = "users" /\ Near(r.id)'
               \/ ~r.auto /\ \E a \in Apps : r.table = Logins!tableNameFromAppId(a) /\ OfGenerator(a, r.id)'
    <3>1. r.id \in Nat
      BY <1>2
    <3> QED
      BY <2>1, <2>2, <2>3, <3>1 DEF LoginsInv, RowsHaveOrigins
  <2>4. CASE call[p].id = 0 /\ table = "users" /\ id = Logins!NextId
    <3>1. PICK n \in Nat : /\ id = 1 + n
                           /\ n = 0 \/ \E r \in Logins!Of("users") : n = r.id
      BY <2>4, NextIdIsNew
    <3>2. Near(id)'
      <4>1. CASE n = 0
        <5>1. First(0, 0) = 0
          <6>1. First(0, 0) = 0 * IdSteps + 0
            BY DEF First, Logins!Id
          <6> QED
            BY <1>10, <6>1
        <5>2. Cardinality(Autos') \in Nat /\ Cardinality(Autos') >= 1
          <6>1. Cardinality(Autos') = Cardinality(Autos) + 1
            BY <1>1, <1>8, <2>4
          <6> QED
            BY <1>7, <6>1
        <5> QED
          BY <1>10, <3>1, <4>1, <5>1, <5>2 DEF Near
      <4>2. ASSUME NEW r \in Logins!Of("users"), n = r.id
            PROVE  Near(id)'
        <5>1. \E ms \in Nat : First(ms, 0) <= n /\ n < First(ms, 0) + IdSteps + Cardinality(Autos)
          <6>1. CASE r.auto
            BY <4>2, <6>1 DEF LoginsInv, RowsHaveOrigins, Logins!Of, Near
          <6>2. CASE ~r.auto
            <7>1. PICK a \in Apps : r.table = Logins!tableNameFromAppId(a) /\ OfGenerator(a, n)
              BY <4>2, <6>2 DEF LoginsInv, RowsHaveOrigins, Logins!Of
            <7>2. a = 0
              BY <7>1 DEF Logins!Of, Logins!tableNameFromAppId, Apps
            <7>3. PICK ms \in Nat \ {0}, step \in 0 .. IdSteps - 1 : n = Logins!Id(ms, 0, step)
              BY <7>1, <7>2 DEF OfGenerator
            <7>4. n = First(ms, 0) + step /\ First(ms, 0) \in Nat
              BY <1>10, <7>3, IdsAreNumbers DEF Apps
            <7> QED
              BY <1>7, <1>10, <7>3, <7>4
          <6> QED
            BY <6>1, <6>2
        <5>2. Cardinality(Autos') = Cardinality(Autos) + 1
          BY <1>1, <1>8, <2>4
        <5> QED
          BY <1>7, <1>10, <3>1, <5>1, <5>2 DEF Near
      <4> QED
        BY <3>1, <4>1, <4>2
    <3> QED
      BY <1>1, <2>3, <2>4, <3>2 DEF RowsHaveOrigins
  <2>5. CASE /\ call[p].id # 0 /\ Inserting(p)
             /\ table = Logins!tableNameFromAppId(AppOf(call[p]))
             /\ OfGenerator(AppOf(call[p]), id)
    <3>1. \E a \in Apps : table = Logins!tableNameFromAppId(a) /\ OfGenerator(a, id)'
      <4> PICK a : a = AppOf(call[p])
        OBVIOUS
      <4> QED
        BY <2>2, <2>5 DEF Inserting
    <3> QED
      BY <1>1, <2>3, <2>5, <3>1 DEF RowsHaveOrigins
  <2> QED
    BY <1>3, <2>4, <2>5
<1>12. UniqueUsers'
  <2>1. \A r \in s1 : ~(r.table = table /\ (r.id = id \/ r.who = call[p].who))
    BY DEF Logins!Of
  <2> QED
    BY <1>1, <2>1 DEF LoginsInv, UniqueUsers
<1>13. IdsAreOnce'
  <2>1. \A q \in Procs : Inserting(q)' =>
           /\ q # p /\ Inserting(q)
           /\ AppOf(call[q])' = AppOf(call[q]) /\ call'[q].id = call[q].id
    BY DEF Inserting, AppOf, LoginGoes, WaitingPcs
  <2> SUFFICES ASSUME NEW x \in Procs, Inserting(x)'
               PROVE  /\ \A q \in Procs \ {x} :
                            Inserting(q)' /\ AppOf(call[q])' = AppOf(call[x])' =>
                                call'[q].id # call'[x].id
                      /\ \A r \in s1' :
                            ~r.auto /\ r.table = Logins!tableNameFromAppId(AppOf(call[x])') =>
                                r.id # call'[x].id
    BY DEF IdsAreOnce
  <2>2. x # p /\ Inserting(x) /\ AppOf(call[x])' = AppOf(call[x]) /\ call'[x].id = call[x].id
    BY <2>1
  <2>3. IdsAreOnce
    BY DEF LoginsInv
  <2>4. \A r \in s1 : ~r.auto /\ r.table = Logins!tableNameFromAppId(AppOf(call[x])) => r.id # call[x].id
    BY <2>2, <2>3 DEF IdsAreOnce
  <2>5. ~new.auto /\ new.table = Logins!tableNameFromAppId(AppOf(call[x])) => new.id # call[x].id
    <3> SUFFICES ASSUME ~new.auto, new.table = Logins!tableNameFromAppId(AppOf(call[x]))
                 PROVE  new.id # call[x].id
      OBVIOUS
    <3>1. id = call[p].id /\ Inserting(p) /\ table = Logins!tableNameFromAppId(AppOf(call[p]))
      BY <1>1, <1>3
    <3>2. AppOf(call[x]) = AppOf(call[p])
      BY <1>1, <2>2, <3>1, TablesOfApps DEF Inserting
    <3>3. call[x].id # call[p].id
      BY <2>2, <2>3, <3>1, <3>2 DEF IdsAreOnce
    <3> QED
      BY <1>1, <3>1, <3>3
  <2>6. \A r \in s1' : ~r.auto /\ r.table = Logins!tableNameFromAppId(AppOf(call[x])') =>
                          r.id # call'[x].id
    BY <1>1, <2>2, <2>4, <2>5
  <2>7. \A q \in Procs \ {x} : Inserting(q)' /\ AppOf(call[q])' = AppOf(call[x])' =>
                                  call'[q].id # call'[x].id
    BY <2>1, <2>2, <2>3 DEF IdsAreOnce
  <2> QED
    BY <2>6, <2>7
<1>14. HasLast'
  <2> DEFINE U == Logins!Of("users")
  <2>1. PICK n \in {0} \cup {r.id : r \in U} : \A r \in U : r.id <= n
    BY DEF LoginsInv, HasLast
  <2>2. U' = IF table = "users" THEN U \cup {new} ELSE U
    BY <1>1 DEF Logins!Of
  <2>3. n \in Nat /\ \A r \in U : r.id \in Nat
    BY <1>2 DEF Logins!Of
  <2> HIDE DEF U
  <2>4. \E m \in {0} \cup {r.id : r \in U'} : \A r \in U' : r.id <= m
    <3>1. CASE table = "users" /\ n < id
      BY <1>1, <1>3, <2>1, <2>2, <2>3, <3>1
    <3>2. CASE table = "users" /\ ~(n < id)
      BY <1>1, <1>3, <2>1, <2>2, <2>3, <3>2
    <3>3. CASE table # "users"
      BY <2>1, <2>2, <3>3
    <3> QED
      BY <3>1, <3>2, <3>3
  <2> QED
    BY <2>4 DEF HasLast, U
<1>15. AnswersHaveRows'
  <2>1. ASSUME NEW a \in s8
        PROVE  \E r \in s1' : r.table = Logins!UserTable(a.app) /\ r.who = a.who /\ r.id = a.id
    BY <1>1 DEF LoginsInv, AnswersHaveRows, Logins!Of
  <2>2. new \in s1' /\ new.table = Logins!UserTable(call[p].app)
    BY <1>1 DEF Asked
  <2> QED
    BY <1>1, <2>1, <2>2 DEF AnswersHaveRows, Logins!Of
<1> QED
  BY <1>5, <1>6, <1>9, <1>11, <1>12, <1>13, <1>14, <1>15

\* The tables stay as they are.
LEMMA TablesKeep ==
    ASSUME LoginsInv, [Logins!Next]_Logins!loginVars, s1' = s1
    PROVE  RowsHaveOrigins' /\ UniqueUsers' /\ HasLast'
<1>1. Autos' = Autos
  BY DEF Autos
<1>2. \A x : Near(x) => Near(x)'
  BY <1>1 DEF Near
<1>3. \A a \in Apps : \A x : OfGenerator(a, x) => OfGenerator(a, x)'
  BY LoginsGrow
<1> QED
  BY <1>2, <1>3 DEF LoginsInv, RowsHaveOrigins, UniqueUsers, HasLast, Logins!Of

LEMMA WaitingKeeps ==
    ASSUME LoginsInv, s1' = s1, NEW p \in Procs, LoginGoes(p), calls' \in {calls, calls + 1},
           call'[p].pc \in WaitingPcs => call[p].pc \in WaitingPcs \/ calls' = calls + 1
    PROVE  AutosAreCounted'
<1>1. Autos' = Autos
  BY DEF Autos
<1>2. /\ IsFiniteSet(Autos) /\ Cardinality(Autos) \in Nat
      /\ IsFiniteSet(Waiting) /\ Cardinality(Waiting) \in Nat
  BY AutosFinite
<1>3. AutosAreCounted /\ calls \in Nat
  BY AccountAssumption DEF LoginsInv, LoginsTyped
<1>4. CASE call'[p].pc \in WaitingPcs /\ call[p].pc \in WaitingPcs
  <2>1. Waiting' = Waiting
    BY <1>4 DEF Waiting, LoginGoes
  <2> QED
    BY <1>1, <1>2, <1>3, <2>1 DEF AutosAreCounted
<1>5. CASE call'[p].pc \in WaitingPcs /\ call[p].pc \notin WaitingPcs
  <2>1. Waiting' = Waiting \cup {p} /\ p \notin Waiting
    BY <1>5 DEF Waiting, LoginGoes
  <2> QED
    BY <1>1, <1>2, <1>3, <1>5, <2>1, OneMore DEF AutosAreCounted
<1>6. CASE call'[p].pc \notin WaitingPcs /\ call[p].pc \in WaitingPcs
  <2>1. Waiting' = Waiting \ {p} /\ p \in Waiting
    BY <1>6 DEF Waiting, LoginGoes
  <2>2. Cardinality(Waiting') = Cardinality(Waiting) - 1
    BY <1>2, <2>1, OneLess
  <2>3. calls <= calls'
    BY <1>3
  <2> QED
    BY <1>1, <1>2, <1>3, <2>2, <2>3 DEF AutosAreCounted
<1>7. CASE call'[p].pc \notin WaitingPcs /\ call[p].pc \notin WaitingPcs
  <2>1. Waiting' = Waiting
    BY <1>7 DEF Waiting, LoginGoes
  <2> QED
    BY <1>1, <1>2, <1>3, <2>1 DEF AutosAreCounted
<1> QED
  BY <1>4, <1>5, <1>6, <1>7

\* The keys that are asked for, and the states of them that are cached.
LEMMA AskedNext ==
    ASSUME LoginsInv, [Logins!Next]_Logins!loginVars
    PROVE  /\ StatesAreAsked'
           /\ \A a \in s5' : a.key \in Nat
           /\ \A s \in s4' : s.invitation \in {1, 2}
<1> DEFINE Good == /\ StatesAreAsked'
                   /\ \A a \in s5' : a.key \in Nat
                   /\ \A s \in s4' : s.invitation \in {1, 2}
<1>1. /\ StatesAreAsked /\ \A a \in s5 : a.key \in Nat
      /\ \A s \in s4 : s.invitation \in {1, 2}
      /\ calls \in Nat
  BY AccountAssumption DEF LoginsInv, LoginsTyped
<1>2. CASE s4' \subseteq s4 /\ s5' = s5
  BY <1>1, <1>2 DEF StatesAreAsked
<1>3. ASSUME NEW i \in {1, 2}, Logins!AuthURL(i)
      PROVE  Good
  <2>1. CASE UNCHANGED <<s4, s5>>
    BY <1>2, <2>1
  <2>2. CASE /\ s4' = {s \in s4 : s.key # Logins!State} \cup {[key |-> Logins!State, invitation |-> i]}
             /\ s5' = s5 \cup {[key |-> Logins!State, invitation |-> i, by |-> calls + 1]}
    <3>1. Logins!State = calls + 1
      BY DEF Logins!State
    <3> DEFINE new == [key |-> calls + 1, invitation |-> i, by |-> calls + 1]
    <3>2. new \in s5' /\ new.key \in Nat /\ new.by = calls + 1 /\ new.invitation = i
      BY <1>1, <2>2, <3>1
    <3>3. \A a \in s5' : a \in s5 \/ a = new
      BY <2>2, <3>1
    <3>4. \A s \in s4' : s \in s4 \/ (s.key = calls + 1 /\ s.invitation = i)
      BY <2>2, <3>1
    <3>5. s5 \subseteq s5'
      BY <2>2
    <3> HIDE DEF new
    <3>6. StatesAreAsked'
      BY <1>1, <3>2, <3>4, <3>5 DEF StatesAreAsked
    <3> QED
      BY <1>1, <3>2, <3>3, <3>4, <3>6
  <2> QED
    BY <1>3, <2>1, <2>2 DEF Logins!AuthURL
<1>4. ASSUME Logins!Expire
      PROVE  s4' \subseteq s4 /\ s5' = s5
  BY <1>4, Zenon DEF Logins!Expire
<1>5. ASSUME NEW p \in Procs, Logins!Step(p)
      PROVE  s4' = s4 /\ s5' = s5
  BY <1>5, Zenon DEF Logins!Step, Logins!Callback, Logins!WithPhone, Logins!SetPhoneCode, Logins!Send,
              Logins!getInviterCode, Logins!Verify, Logins!Find, Logins!Generate, Logins!Insert,
              Logins!getMemberDDL, Logins!FindPersonalPermissions, Logins!Return, Logins!Keys
<1>6. ASSUME Logins!Tick \/ UNCHANGED Logins!loginVars
      PROVE  s4' = s4 /\ s5' = s5
  BY <1>6 DEF Logins!Tick, Logins!loginVars, Logins!Keys
<1> QED
  BY <1>2, <1>3, <1>4, <1>5, <1>6 DEF Logins!Next

LEMMA LoginsNext == LoginsInv /\ [Logins!Next]_Logins!loginVars => LoginsInv'
<1> SUFFICES ASSUME LoginsInv, [Logins!Next]_Logins!loginVars
             PROVE  LoginsInv'
  OBVIOUS
<1> DEFINE RowsTyped == s1 \subseteq [table : {"users", "users_ielts"}, id : Nat,
                                      who : Arrivals \cup Mobiles \cup {0}, auto : BOOLEAN]
           Rest == /\ RowsTyped' /\ IsFiniteSet(s1')
                   /\ call' \in [Procs -> LoginType] /\ calls' \in 0 .. MaxRequests
                   /\ (\A q \in Procs : LoginCall(q))'
                   /\ AutosAreCounted' /\ RowsHaveOrigins' /\ UniqueUsers' /\ IdsAreOnce' /\ HasLast'
                   /\ AnswersHaveRows'
<1>1. /\ RowsTyped /\ IsFiniteSet(s1) /\ call \in [Procs -> LoginType] /\ calls \in 0 .. MaxRequests
      /\ calls \in Nat /\ MaxRequests \in Nat
      /\ AutosAreCounted /\ IdsAreOnce /\ AnswersHaveRows
  BY AccountAssumption DEF LoginsInv, LoginsTyped
<1>2. ASSUME NEW p \in Procs, LoginGoes(p), LoginCall(p)'
      PROVE  call' \in [Procs -> LoginType] /\ (\A q \in Procs : LoginCall(q))'
  BY <1>2, LoginOthers DEF LoginGoes
<1>3. ASSUME NEW p \in Procs, Passes(p)
      PROVE  Rest
  <2>1. call' \in [Procs -> LoginType] /\ (\A q \in Procs : LoginCall(q))'
    BY <1>2, <1>3 DEF Passes
  <2>2. AutosAreCounted'
    BY <1>3, WaitingKeeps DEF Passes
  <2>3. IdsAreOnce'
    BY <1>3, OnceKeeps DEF Passes, Inserting
  <2>4. AnswersHaveRows' /\ s1' = s1 /\ calls' \in 0 .. MaxRequests
    BY <1>1, <1>3 DEF Passes, AnswersHaveRows, Logins!Of
  <2> QED
    BY <1>1, <2>1, <2>2, <2>3, <2>4, TablesKeep
<1>4. ASSUME NEW p \in Procs, Logins!Find(p)
      PROVE  Rest
  <2>1. /\ LoginGoes(p) /\ LoginCall(p)' /\ call'[p].pc # "insert"
        /\ s1' = s1 /\ calls' = calls /\ call[p].pc \in WaitingPcs
        /\ AnswersHaveRows'
    BY <1>4, FindGoes
  <2>2. AutosAreCounted' /\ IdsAreOnce'
    BY <2>1, WaitingKeeps, OnceKeeps DEF Inserting
  <2> QED
    BY <1>1, <1>2, <2>1, <2>2, TablesKeep
<1>5. ASSUME NEW p \in Procs, Logins!Generate(p)
      PROVE  Rest
  <2>1. /\ LoginGoes(p) /\ LoginCall(p)' /\ s1' = s1 /\ s8' = s8 /\ calls' = calls
        /\ call[p].pc \in WaitingPcs /\ IdsAreOnce'
    BY <1>5, GenerateGoes
  <2>2. AutosAreCounted'
    BY <2>1, WaitingKeeps
  <2>3. AnswersHaveRows'
    BY <1>1, <2>1 DEF AnswersHaveRows, Logins!Of
  <2> QED
    BY <1>1, <1>2, <2>1, <2>2, <2>3, TablesKeep
<1>6. ASSUME NEW p \in Procs, Logins!Insert(p)
      PROVE  Rest
  <2>1. /\ LoginGoes(p) /\ LoginCall(p)' /\ call[p].pc = "insert" /\ calls' = calls
        /\ call'[p].pc \in {"refused", "ddl"} /\ s3' = s3
    BY <1>6, InsertGoes
  <2>2. call[p].pc \in WaitingPcs /\ call'[p].pc \notin WaitingPcs /\ call'[p].pc # "insert"
    BY <2>1 DEF WaitingPcs
  <2>3. CASE s1' = s1 /\ s8' = s8
    <3>1. AutosAreCounted' /\ IdsAreOnce'
      BY <2>1, <2>2, <2>3, WaitingKeeps, OnceKeeps DEF Inserting
    <3>2. AnswersHaveRows'
      BY <1>1, <2>3 DEF AnswersHaveRows, Logins!Of
    <3> QED
      BY <1>1, <1>2, <2>1, <2>3, <3>1, <3>2, TablesKeep
  <2>4. ASSUME NEW table, NEW id, Asked(p, table, id),
               \A r \in Logins!Of(table) : r.id # id /\ r.who # call[p].who,
               s1' = s1 \cup {NewUser(p, table, id)},
               s8' = s8 \cup {[who |-> call[p].who, app |-> call[p].app, id |-> id]}
        PROVE  Rest
    <3>1. /\ RowsTyped' /\ IsFiniteSet(s1')
          /\ AutosAreCounted' /\ RowsHaveOrigins' /\ UniqueUsers' /\ IdsAreOnce' /\ HasLast'
          /\ AnswersHaveRows'
      BY <2>1, <2>2, <2>4, NewUserFits
    <3> QED
      BY <1>1, <1>2, <2>1, <3>1
  <2> QED
    BY <1>6, <2>3, <2>4, InsertGoes
<1>7. ASSUME call' = call, s1' = s1, s8' = s8, calls' \in {calls, calls + 1}, calls' \in 0 .. MaxRequests
      PROVE  Rest
  <2>1. (\A q \in Procs : LoginCall(q))'
    BY <1>7, LoginOthers
  <2>2. AutosAreCounted'
    <3>1. Autos' = Autos /\ Waiting' = Waiting
      BY <1>7 DEF Autos, Waiting
    <3> QED
      BY <1>1, <1>7, <3>1, AutosFinite DEF AutosAreCounted
  <2>3. IdsAreOnce' /\ AnswersHaveRows'
    BY <1>1, <1>7 DEF IdsAreOnce, Inserting, AppOf, AnswersHaveRows, Logins!Of
  <2> QED
    BY <1>1, <1>7, <2>1, <2>2, <2>3, TablesKeep
<1>8. ASSUME NEW p \in Procs, NEW t \in Mobiles, Logins!SetPhoneCode(p, t), call' = call
      PROVE  Rest
  <2>1. /\ s1' = s1 /\ s8' = s8 /\ calls < MaxRequests /\ calls' = calls + 1
    BY <1>8 DEF Logins!SetPhoneCode, Logins!Begin, Logins!Called, Logins!Rows
  <2>2. calls' \in 0 .. MaxRequests
    BY <1>1, <2>1
  <2> QED
    BY <1>7, <1>8, <2>1, <2>2
<1>9. ASSUME NEW i \in {1, 2}, Logins!AuthURL(i)
      PROVE  Rest
  <2>1. /\ call' = call /\ s1' = s1 /\ s8' = s8 /\ calls < MaxRequests /\ calls' = calls + 1
    BY <1>9 DEF Logins!AuthURL, Logins!Called, Logins!Rows
  <2>2. calls' \in 0 .. MaxRequests
    BY <1>1, <2>1
  <2> QED
    BY <1>7, <2>1, <2>2
<1>10. ASSUME Logins!Expire \/ Logins!Tick \/ UNCHANGED Logins!loginVars
       PROVE  Rest
  <2>1. call' = call /\ s1' = s1 /\ s8' = s8 /\ calls' = calls
    BY <1>10 DEF Logins!Expire, Logins!Tick, Logins!loginVars, Logins!Rows
  <2> QED
    BY <1>1, <1>7, <2>1
<1>11. ASSUME NEW p \in Procs, Logins!Step(p)
       PROVE  Rest
  <2>1. CASE \/ \E who \in Arrivals, app \in AppHeaders : Logins!Callback(p, who, app, 0)
             \/ \E who \in Arrivals, app \in AppHeaders, a \in s5 : Logins!Callback(p, who, app, a.key)
             \/ \E op \in {"login", "register"}, t \in Mobiles, app \in AppHeaders :
                   \E code \in s7[t] \cup {0} : Logins!WithPhone(p, op, t, app, code)
             \/ \E t \in Mobiles : Logins!SetPhoneCode(p, t)
    BY <1>3, <1>8, <2>1, BeginPasses
  <2>2. CASE \/ Logins!Send(p) \/ Logins!getInviterCode(p) \/ Logins!Verify(p)
             \/ Logins!getMemberDDL(p) \/ Logins!FindPersonalPermissions(p) \/ Logins!Return(p)
    BY <1>3, <2>2, OnPasses
  <2> QED
    BY <1>4, <1>5, <1>6, <1>11, <2>1, <2>2 DEF Logins!Step, Logins!Nothing
<1>12. Rest
  BY <1>9, <1>10, <1>11 DEF Logins!Next
<1>13. LoginsTyped'
  BY <1>12, AskedNext, LoginsGrow DEF LoginsTyped
<1> QED
  BY <1>12, <1>13, AskedNext DEF LoginsInv

LEMMA LoginsInit == Logins!Init => LoginsInv
<1> SUFFICES ASSUME Logins!Init
             PROVE  LoginsInv
  OBVIOUS
<1>1. /\ s1 = {} /\ s2 = 1 /\ s3 = [a \in Apps |-> [ms |-> 0, step |-> 0]] /\ s4 = {} /\ s5 = {}
      /\ s7 = [t \in Mobiles |-> {}] /\ s8 = {} /\ calls = 0
      /\ call = [p \in Procs |-> Logins!Idle]
  BY DEF Logins!Init, Logins!Known, Apps
<1>2. Logins!Idle \in LoginType /\ Logins!Idle.pc = "idle"
  BY DEF Logins!Idle, Logins!Nothing, LoginType, LoginPcs
<1>3. LoginsTyped
  <2>1. IsFiniteSet({})
    BY FS_EmptySet
  <2>2. 0 \in 0 .. IdSteps - 1 /\ 0 \in 0 .. MaxRequests
    BY AccountAssumption
  <2>3. s3 \in [Apps -> [ms : Nat, step : 0 .. IdSteps - 1]] /\ \A a \in Apps : s3[a].ms <= s2
    BY <1>1, <2>2
  <2>4. call \in [Procs -> LoginType]
    BY <1>1, <1>2
  <2> QED
    BY <1>1, <2>1, <2>2, <2>3, <2>4 DEF LoginsTyped
<1>4. \A p \in Procs : LoginCall(p)
  BY <1>1 DEF LoginCall, Logins!Idle, Logins!Nothing, WaitingPcs
<1>5. AutosAreCounted
  <2>1. Autos = {} /\ Waiting = {}
    BY <1>1, <1>2 DEF Autos, Waiting, WaitingPcs
  <2> QED
    BY <1>1, <2>1, FS_EmptySet DEF AutosAreCounted
<1>6. IdsAreOnce
  BY <1>1, <1>2 DEF IdsAreOnce, Inserting
<1>7. HasLast
  <2>1. Logins!Of("users") = {}
    BY <1>1 DEF Logins!Of
  <2> QED
    BY <2>1 DEF HasLast
<1> QED
  BY <1>1, <1>3, <1>4, <1>5, <1>6, <1>7
  DEF LoginsInv, RowsHaveOrigins, UniqueUsers, AnswersHaveRows, StatesAreAsked

LEMMA LoginsAreRight ==
    LoginsInv => Logins!AppsAreApart /\ Logins!RefusedAreThere /\ Logins!KeysAreTheirs
<1> SUFFICES ASSUME LoginsInv
             PROVE  Logins!AppsAreApart /\ Logins!RefusedAreThere /\ Logins!KeysAreTheirs
  OBVIOUS
<1>1. \A p \in Procs : LoginCall(p)
  BY DEF LoginsInv
<1>2. Logins!RefusedAreThere /\ Logins!KeysAreTheirs
  BY <1>1 DEF LoginCall, Logins!RefusedAreThere, Logins!KeysAreTheirs, Logins!Nothing
<1>3. ASSUME NEW r \in s1
      PROVE  r.table = Logins!tableNameFromAppId(Logins!AppID(r.id))
  <2>1. r.id \in Nat /\ IdSteps \in Nat \ {0}
    BY AccountAssumption DEF LoginsInv, LoginsTyped
  <2>2. CASE r.auto /\ r.table = "users" /\ Near(r.id)
    <3>1. PICK ms \in Nat : First(ms, 0) <= r.id /\ r.id < First(ms, 0) + IdSteps + Cardinality(Autos)
      BY <2>2 DEF Near
    <3>2. Cardinality(Autos) <= 3 * IdSteps
      BY AccountAssumption, AutosFinite DEF LoginsInv, LoginsTyped, AutosAreCounted
    <3>3. r.id < First(ms, 0) + 4 * IdSteps
      <4>1. First(ms, 0) \in Nat /\ Cardinality(Autos) \in Nat
        BY IdsAreNumbers, AutosFinite DEF Apps
      <4> QED
        BY <2>1, <3>1, <3>2, <4>1
    <3>4. Logins!AppID(r.id) = 0
      BY <2>1, <3>1, <3>3, IdsTellTheirApp DEF Apps
    <3> QED
      BY <2>2, <3>4 DEF Logins!tableNameFromAppId
  <2>3. ASSUME NEW a \in Apps, r.table = Logins!tableNameFromAppId(a), OfGenerator(a, r.id)
        PROVE  r.table = Logins!tableNameFromAppId(Logins!AppID(r.id))
    <3>1. PICK ms \in Nat \ {0}, step \in 0 .. IdSteps - 1 : r.id = Logins!Id(ms, a, step)
      BY <2>3 DEF OfGenerator
    <3>2. step \in Nat /\ step < IdSteps
      BY <2>1
    <3>3. r.id = First(ms, a) + step /\ First(ms, a) \in Nat
      BY <3>1, <3>2, IdsAreNumbers
    <3>4. First(ms, a) <= r.id /\ r.id < First(ms, a) + 4 * IdSteps
      BY <2>1, <3>2, <3>3
    <3>5. Logins!AppID(r.id) = a
      BY <2>1, <3>4, IdsTellTheirApp
    <3> QED
      BY <2>3, <3>5
  <2> QED
    BY <2>2, <2>3 DEF LoginsInv, RowsHaveOrigins
<1>4. ASSUME NEW a \in s8, NEW b \in s8, a.who = b.who
      PROVE  a.id = b.id <=> (a.app = 1 <=> b.app = 1)
  <2>1. PICK r \in s1 : r.table = Logins!UserTable(a.app) /\ r.who = a.who /\ r.id = a.id
    BY DEF LoginsInv, AnswersHaveRows, Logins!Of
  <2>2. PICK s \in s1 : s.table = Logins!UserTable(b.app) /\ s.who = b.who /\ s.id = b.id
    BY DEF LoginsInv, AnswersHaveRows, Logins!Of
  <2>3. r.table = s.table <=> (a.app = 1 <=> b.app = 1)
    BY <2>1, <2>2 DEF Logins!UserTable, Logins!Known, Logins!tableNameFromAppId
  <2>4. r.id = s.id => r.table = s.table
    BY <1>3
  <2>5. r.table = s.table => r = s
    BY <1>4, <2>1, <2>2 DEF LoginsInv, UniqueUsers
  <2> QED
    BY <2>1, <2>2, <2>3, <2>4, <2>5
<1>5. Logins!AppsAreApart
  BY <1>3, <1>4 DEF Logins!AppsAreApart
<1> QED
  BY <1>2, <1>5

-----------------------------------------------------------------------------
(***************************************************************************)
(* The theorem.                                                            *)
(***************************************************************************)
LEMMA OneScene == [Next]_vars => scene' = scene
BY DEF Next, PeopleNext, vars, besideStream

LEMMA UserSteps ==
    ASSUME scene = "user", [Next]_vars
    PROVE  [Accounts!Next]_Accounts!uservars
BY DEF Next, PeopleNext, vars, accountsOnly, callsOnly, Accounts!uservars

LEMMA LoginSteps ==
    ASSUME scene = "login", [Next]_vars
    PROVE  [Logins!Next]_Logins!loginVars
BY DEF Next, PeopleNext, vars, slots, callsOnly, Logins!loginVars

LEMMA SceneBegins ==
    ASSUME Init
    PROVE  /\ scene = "user" => Accounts!Init
           /\ scene = "login" => Logins!Init
BY DEF Init, PeopleInit

\* However many people log in, from however many devices and applications, and
\* whatever calls meet, fail or are repeated: one person has one account that is
\* announced once, edits of a profile are not undone, the cache shows the row,
\* codes, states and ids prove what they should, and ids of two applications are
\* apart (User and Login: the properties AccountsAreSound names).
THEOREM AccountsAreRightlyKept == Spec => []AccountsAreSound
<1> DEFINE SceneInv == /\ scene = "user" => AccountsInv
                       /\ scene = "login" => LoginsInv
<1>1. Init => SceneInv
  BY SceneBegins, AccountsInit, LoginsInit
<1>2. SceneInv /\ [Next]_vars => SceneInv'
  BY OneScene, UserSteps, AccountsNext, LoginSteps, LoginsNext
<1>3. SceneInv => AccountsAreSound
  BY AccountsAreRight, LoginsAreRight DEF AccountsAreSound
<1> QED
  BY <1>1, <1>2, <1>3, PTL DEF Spec
=============================================================================
