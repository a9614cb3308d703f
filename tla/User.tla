-------------------------------- MODULE User --------------------------------
(***************************************************************************)
(* Accounts (internal/user): a person logs in through WeChat, from the web *)
(* or from the mini program, or registers with a phone number; whoever     *)
(* logs in for the first time gets a row of table `users` and is announced *)
(* in one registration event.  A login reads the row and, when the open id *)
(* of its application is not stored yet, writes all it has read back with  *)
(* it.  Profiles are read through a cache that every update deletes.       *)
(*                                                                         *)
(* Left out: verification codes (a phone call of the model has passed      *)
(* Verify), the state parameter of WeChat, avatars, and calls that fail    *)
(* before they change anything.                                            *)
(***************************************************************************)
EXTENDS Integers, Sequences, FiniteSets

CONSTANTS
    People,        \* union ids of WeChat
    Phones,        \* phone numbers
    Procs,         \* web handlers
    MaxCalls,      \* bound: calls that start
    MaxFaults      \* bound: calls to the broker, the cache, the database that fail

VARIABLES
    users,         \* table users; a row's index is its id
    cached,        \* the cached profile of each id, or <<>>
    registered,    \* registration events by id: how many were produced
    sessions,      \* who was logged in as which id
    call,          \* what each process is doing
    calls, faults, \* counters for the bounds
    edited,        \* history: name and phone of an id as last set by its owner
    overlapped,    \* history: ids edited between a login's read and its write
    outdated       \* history: ids whose cache got, or kept, what was overwritten

uservars == <<users, cached, registered, sessions, call, calls, faults,
              edited, overlapped, outdated>>

None == "none"
Apps == {"web", "mini"}
Idle == [op |-> "idle", who |-> None, app |-> None, uid |-> 0, row |-> <<>>]
Ids == DOMAIN users
Uids == 1..MaxCalls

\* open[a]: the open id of application a is stored.
NewRow(who, phone, apps) ==
    [name |-> 0, phone |-> phone, union |-> who, open |-> apps]

Init ==
    /\ users = <<>>
    /\ cached = [u \in Uids |-> <<>>]
    /\ registered = [u \in Uids |-> 0]
    /\ sessions = {}
    /\ call = [p \in Procs |-> Idle]
    /\ calls = 0
    /\ faults = 0
    /\ edited = [u \in Uids |-> <<0, None>>]
    /\ overlapped = {}
    /\ outdated = {}

----------------------------------------------------------------------------
(* Table users *)

ByWechat(who) == {u \in Ids : users[u].union = who}
ByPhone(phone) == {u \in Ids : users[u].phone = phone}

\* Mutant: the phone alone is unique.
DuplicatePhone(u, row) ==
    \E v \in Ids \ {u} : row.phone # None /\ users[v].phone = row.phone

\* A unique index refuses a row whose union id or phone another row has.
Duplicate(u, row) ==
    \E v \in Ids \ {u} : \/ row.union # None /\ users[v].union = row.union
                         \/ row.phone # None /\ users[v].phone = row.phone

\* Mutant: the whole row is written.
EveryField(old, row) == row

\* gorm's Updates: what is zero in `row` keeps its value.
NonZero(old, row) ==
    [name  |-> IF row.name = 0 THEN old.name ELSE row.name,
     phone |-> IF row.phone = None THEN old.phone ELSE row.phone,
     union |-> IF row.union = None THEN old.union ELSE row.union,
     open  |-> old.open \cup row.open]

UpdateNonZeroFields(u, row) ==
    users' = [users EXCEPT ![u] = NonZero(@, row)]

----------------------------------------------------------------------------
(* Calls *)

Begin(p, op, who, app, uid, row) ==
    /\ call[p] = Idle
    /\ calls < MaxCalls
    /\ calls' = calls + 1
    /\ call' = [call EXCEPT ![p] = [op |-> op, who |-> who, app |-> app,
                                    uid |-> uid, row |-> row]]

Goto(p, op) == call' = [call EXCEPT ![p].op = op]
Return(p) == call' = [call EXCEPT ![p] = Idle]
Fault == faults < MaxFaults /\ faults' = faults + 1

LogIn(who, uid) == sessions' = sessions \cup {[who |-> who, uid |-> uid]}

\* FindByWechat, the first step of a login from application a.
FindByWechat(p, who, a) ==
    /\ \/ \E u \in ByWechat(who) : Begin(p, "found", who, a, u, users[u])
       \/ ByWechat(who) = {} /\ Begin(p, "insert", who, a, 0, NewRow(who, None, {a}))
    /\ UNCHANGED <<users, cached, registered, sessions, faults, edited,
                   overlapped, outdated>>

\* Mutant: the row is written past the cache.
UpdateWechatUncached(p) ==
    LET c == call[p]  row == [c.row EXCEPT !.open = {c.app}] IN
    /\ c.op = "found"
    /\ c.app \notin c.row.open
    /\ ~Duplicate(c.uid, row)
    /\ UpdateNonZeroFields(c.uid, row)
    /\ Return(p)
    /\ LogIn(c.who, c.uid)
    /\ UNCHANGED <<cached, registered, calls, faults, edited, overlapped, outdated>>

\* The deferred function: an open id that was missing goes into the row,
\* together with all that was read before.  A failure is logged.
UpdateWechat(p) ==
    LET c == call[p]  row == [c.row EXCEPT !.open = {c.app}] IN
    /\ c.op = "found"
    /\ c.app \notin c.row.open
    /\ \/ /\ ~Duplicate(c.uid, row)
          /\ UpdateNonZeroFields(c.uid, row)
          /\ Goto(p, "forget")
          /\ UNCHANGED <<sessions, faults>>
       \/ /\ \/ Duplicate(c.uid, row) /\ UNCHANGED faults
             \/ Fault
          /\ Return(p)
          /\ LogIn(c.who, c.uid)
          /\ UNCHANGED users
    /\ UNCHANGED <<cached, registered, calls, edited, overlapped, outdated>>

\* Nothing is missing in the row: the login is done.
ReturnFound(p) ==
    LET c == call[p] IN
    /\ c.op = "found"
    /\ c.app \in c.row.open
    /\ Return(p)
    /\ LogIn(c.who, c.uid)
    /\ UNCHANGED <<users, cached, registered, calls, faults, edited, overlapped, outdated>>

\* Mutant: a login that finds the row made by another goes on as if it were new.
InsertOrFind(p) ==
    LET c == call[p]  u == CHOOSE v \in ByWechat(c.row.union) : TRUE IN
    /\ c.op = "insert"
    /\ \/ /\ ~Duplicate(0, c.row)
          /\ users' = Append(users, c.row)
          /\ call' = [call EXCEPT ![p].op = "announce", ![p].uid = Len(users) + 1]
       \/ /\ c.row.union # None /\ Duplicate(0, c.row)
          /\ call' = [call EXCEPT ![p].op = "announce", ![p].uid = u]
          /\ UNCHANGED users
    /\ UNCHANGED <<cached, registered, sessions, calls, faults, edited, overlapped, outdated>>

\* Create, for a login or for a registration with a phone.
Insert(p) ==
    LET c == call[p] IN
    /\ c.op = "insert"
    /\ \/ /\ ~Duplicate(0, c.row)
          /\ users' = Append(users, c.row)
          /\ call' = [call EXCEPT ![p].op = "announce", ![p].uid = Len(users) + 1]
          /\ edited' = [edited EXCEPT ![Len(users) + 1] = <<0, c.row.phone>>]
       \/ Duplicate(0, c.row) /\ Return(p) /\ UNCHANGED <<users, edited>>
    /\ UNCHANGED <<cached, registered, sessions, calls, faults, overlapped, outdated>>

\* The registration event; that it was not sent is only logged.
Produce(p) ==
    LET c == call[p] IN
    /\ c.op = "announce"
    /\ \/ registered' = [registered EXCEPT ![c.uid] = @ + 1] /\ UNCHANGED faults
       \/ Fault /\ UNCHANGED registered
    /\ LogIn(c.who, c.uid)
    /\ Return(p)
    /\ UNCHANGED <<users, cached, calls, edited, overlapped, outdated>>

\* CreateWithPhone asks nothing first: the index tells.
CreateWithPhone(p, phone) ==
    /\ Begin(p, "insert", phone, None, 0, NewRow(None, phone, {}))
    /\ UNCHANGED <<users, cached, registered, sessions, faults, edited,
                   overlapped, outdated>>

\* An error of FindByPhone other than "not found" leads to a session of user 0.
PhoneLogin(phone) ==
    /\ calls < MaxCalls
    /\ calls' = calls + 1
    /\ \/ (\E u \in ByPhone(phone) : LogIn(phone, u)) /\ UNCHANGED faults
       \/ Fault /\ LogIn(phone, 0)
    /\ UNCHANGED <<users, cached, registered, call, edited, overlapped, outdated>>

\* Edit and BindPhone: the row, then the cache.
UpdateNonSensitiveInfo(p, u, row) ==
    /\ u \in Ids
    /\ ~Duplicate(u, row)
    /\ Begin(p, "forget", None, None, u, <<>>)
    /\ UpdateNonZeroFields(u, row)
    /\ edited' = [edited EXCEPT ![u] =
                     <<IF row.name = 0 THEN @[1] ELSE row.name,
                       IF row.phone = None THEN @[2] ELSE row.phone>>]
    /\ overlapped' = overlapped \cup
                       {v \in {u} : \E q \in Procs : call[q].op = "found" /\ call[q].uid = v}
    /\ UNCHANGED <<cached, registered, sessions, faults, outdated>>

EditName(p, u) ==
    UpdateNonSensitiveInfo(p, u, [NewRow(None, None, {}) EXCEPT !.name = calls + 1])

BindPhone(p, u, phone) ==
    UpdateNonSensitiveInfo(p, u, NewRow(None, phone, {}))

----------------------------------------------------------------------------
(* The cache *)

\* The end of repository Update; after it a login goes on to its session,
\* whether or not the update failed.
DeleteProfile(p) ==
    LET u == call[p].uid IN
    /\ call[p].op = "forget"
    /\ \/ /\ cached' = [cached EXCEPT ![u] = <<>>]
          /\ outdated' = outdated \ {u}
          /\ UNCHANGED faults
       \/ Fault /\ outdated' = outdated \cup {u} /\ UNCHANGED cached
    /\ sessions' = sessions \cup
                     {[who |-> w, uid |-> u] : w \in {call[p].who} \ {None}}
    /\ Return(p)
    /\ UNCHANGED <<users, registered, calls, edited, overlapped>>

\* FindById after a miss; a hit changes nothing.
FindById(p, u) ==
    /\ u \in Ids
    /\ cached[u] = <<>>
    /\ Begin(p, "remember", None, None, u, users[u])
    /\ UNCHANGED <<users, cached, registered, sessions, faults, edited,
                   overlapped, outdated>>

SetProfile(p) ==
    LET c == call[p] IN
    /\ c.op = "remember"
    /\ cached' = [cached EXCEPT ![c.uid] = <<c.row>>]
    /\ outdated' = IF c.row = users[c.uid] THEN outdated \ {c.uid}
                   ELSE outdated \cup {c.uid}
    /\ Return(p)
    /\ UNCHANGED <<users, registered, sessions, calls, faults, edited, overlapped>>

\* After 15 minutes.
Expire(u) ==
    /\ cached[u] # <<>>
    /\ cached' = [cached EXCEPT ![u] = <<>>]
    /\ outdated' = outdated \ {u}
    /\ UNCHANGED <<users, registered, sessions, call, calls, faults, edited, overlapped>>

----------------------------------------------------------------------------
Step(p) ==
    \/ \E who \in People, a \in Apps : FindByWechat(p, who, a)
    \/ UpdateWechat(p)
    \/ ReturnFound(p)
    \/ Insert(p)
    \/ Produce(p)
    \/ \E phone \in Phones : CreateWithPhone(p, phone)
    \/ \E u \in Uids : EditName(p, u)
    \/ \E u \in Uids, phone \in Phones : BindPhone(p, u, phone)
    \/ DeleteProfile(p)
    \/ \E u \in Uids : FindById(p, u)
    \/ SetProfile(p)

Next ==
    \/ \E p \in Procs : Step(p)
    \/ \E phone \in Phones : PhoneLogin(phone)
    \/ \E u \in Uids : Expire(u)

Spec == Init /\ [][Next]_uservars

----------------------------------------------------------------------------
Row == [name : 0..MaxCalls, phone : Phones \cup {None},
        union : People \cup {None}, open : SUBSET Apps]

\* Rows, sessions and calls have their types; a session may be that of user 0.
TypeOK ==
    /\ \A u \in Ids : users[u] \in Row
    /\ \A u \in Uids : cached[u] = <<>> \/ cached[u][1] \in Row
    /\ registered \in [Uids -> Nat]
    /\ \A s \in sessions : s.who \in People \cup Phones /\ s.uid \in 0..Len(users)
    /\ \A p \in Procs : call[p].uid \in 0..Len(users)
    /\ calls \in 0..MaxCalls /\ faults \in 0..MaxFaults

\* Whoever comes through WeChat is always the same user, from the web and from
\* the mini program, with first logins at once and rows written back by logins
\* (service/user.go:68): sessions of a person agree, and with the table.
LoginsAgree ==
    \A s \in sessions : s.who \in People => ByWechat(s.who) = {s.uid}

\* Every user is announced in one registration event and never in two, also
\* when two first logins race, unless it could not be sent (service/user.go:98).
AnnouncedOnce ==
    \A u \in Ids :
        LET announcing == {p \in Procs : call[p].op = "announce" /\ call[p].uid = u} IN
        /\ registered[u] + Cardinality(announcing) <= 1
        /\ faults = 0 => registered[u] + Cardinality(announcing) = 1

\* What users set of their profile stays until they set it again: the only
\* thing that takes it back is a login that read the row before the edit and
\* writes all of it back after (service/user.go:71, dao/user.go:51).
EditsStay ==
    \A u \in Ids \ overlapped : <<users[u].name, users[u].phone>> = edited[u]

\* A cached profile is the row, except while the update of the row has not
\* come to the cache, and after a delete failed or a reader put back what it
\* had read before an update (repository/user.go:41, 63).
CacheShowsTheRow ==
    \A u \in Ids \ outdated :
        \/ cached[u] \in {<<>>, <<users[u]>>}
        \/ \E p \in Procs : call[p].op = "forget" /\ call[p].uid = u
=============================================================================
