------------------------------- MODULE Login --------------------------------
(***************************************************************************)
(* How a login comes to its row.  WeChat sends a visitor back with a state *)
(* under which the invitation code lies in the cache; a phone proves       *)
(* itself by a code that was sent to it.  The header X-APP names the       *)
(* application: a callback of gorm puts the statements of the request to   *)
(* that application's table of users, and another gives a new row an id    *)
(* that tells the application (milliseconds, application, node, step).     *)
(* The callbacks belong to the connection all modules share, so they also  *)
(* see what a login asks of the tables of others.                          *)
(*                                                                         *)
(* One running program: each starts its generators with node 0.  What      *)
(* becomes of a found or new row is module User's.  Left out: headers that *)
(* are no number (answered 400), a context with a user and no application  *)
(* (nothing sets one), and codes that are guessed.                         *)
(***************************************************************************)
EXTENDS Integers, FiniteSets

CONSTANTS
    Procs,                        \* requests being served
    People, Phones,               \* union ids, and numbers
    Headers,                      \* values of X-APP, or NoApp
    NoApp,                        \* the header is missing
    Steps,                        \* ids of a generator in one millisecond
    MaxNow, MaxCalls, MaxFaults   \* bounds: milliseconds, requests, failing calls

VARIABLES
    rows,             \* of both tables of users
    now, node,        \* the clock; last millisecond and step of each generator
    states, asked,    \* the cached invitation codes; history: all there were
    codes, received,  \* the cached code of each phone; history: what came to it
    call, calls, faults,
    answers           \* history: which row a login came to

loginVars == <<rows, now, node, states, asked, codes, received, call, calls, faults, answers>>

Known == {0, 1}
Nothing == 0

Idle == [op |-> "idle", pc |-> "idle", who |-> Nothing, app |-> NoApp, key |-> Nothing,
         id |-> 0, invitation |-> Nothing, failed |-> FALSE]

Init ==
    /\ rows = {}
    /\ now = 1 /\ node = [a \in Known |-> [ms |-> 0, step |-> 0]]
    /\ states = {} /\ asked = {}
    /\ codes = [t \in Phones |-> Nothing] /\ received = [t \in Phones |-> {}]
    /\ call = [p \in Procs |-> Idle] /\ calls = 0 /\ faults = 0
    /\ answers = {}

-----------------------------------------------------------------------------
(* Tables and ids. *)

tableNameFromAppId(app) == IF app = 0 THEN "users" ELSE "users_ielts"

\* Where a query or an update of `table` goes.
Sharded(table, app) == IF app \in Known THEN tableNameFromAppId(app) ELSE table

\* Mutant: new rows go where the statement says.
OwnTable(app) == "users"

\* Where a new user goes; an application nobody knows is only logged.
UserTable(app) == IF app \in Known THEN tableNameFromAppId(app) ELSE "users"

\* Two bits of node, of which the program sets none.
Id(ms, app, step) == ((ms * 2 + app) * 4) * Steps + step
AppID(id) == (id \div (4 * Steps)) % 2

Of(table) == {r \in rows : r.table = table}

\* MySQL's AUTO_INCREMENT.
NextId == 1 + CHOOSE n \in {0} \cup {r.id : r \in Of("users")} :
                  \A r \in Of("users") : r.id <= n

-----------------------------------------------------------------------------
Called == calls < MaxCalls /\ calls' = calls + 1
Fault == faults < MaxFaults /\ faults' = faults + 1
Goto(p, pc) == call' = [call EXCEPT ![p].pc = pc]
Failed(p) == Fault /\ call' = [call EXCEPT ![p].pc = "error", ![p].failed = TRUE]

Rows == <<rows, node, answers>>
Keys == <<states, asked, codes, received>>

Begin(p, c) == call[p].pc = "idle" /\ Called /\ call' = [call EXCEPT ![p] = c]

Tick ==
    /\ now < MaxNow /\ now' = now + 1
    /\ UNCHANGED <<Rows, Keys, call, calls, faults>>

-----------------------------------------------------------------------------
(* What proves a visitor: WeChat's state, a phone's code. *)

\* Mutant: all visitors of an application share a state.
OneState == 1

\* A new uuid.
State == calls + 1

\* The visitor is sent to WeChat.  Without the cache the state is empty.
AuthURL(invitation) ==
    /\ Called
    /\ \/ /\ states' = {s \in states : s.key # State} \cup
                        {[key |-> State, invitation |-> invitation]}
          /\ asked' = asked \cup {[key |-> State, invitation |-> invitation, by |-> calls + 1]}
          /\ UNCHANGED faults
       \/ Fault /\ UNCHANGED <<states, asked>>
    /\ UNCHANGED <<Rows, now, codes, received, call>>

\* The code is cached before it is sent: the one before is void from here on.
SetPhoneCode(p, t) ==
    /\ \/ /\ Begin(p, [Idle EXCEPT !.op = "send", !.pc = "send", !.who = t, !.key = calls + 1])
          /\ codes' = [codes EXCEPT ![t] = calls + 1]
          /\ UNCHANGED faults
       \/ call[p].pc = "idle" /\ Called /\ Fault /\ UNCHANGED <<codes, call>>
    /\ UNCHANGED <<Rows, now, states, asked, received>>

Send(p) ==
    LET c == call[p] IN
    /\ c.pc = "send"
    /\ \/ /\ received' = [received EXCEPT ![c.who] = @ \cup {c.key}]
          /\ Goto(p, "sent")
          /\ UNCHANGED faults
       \/ Failed(p) /\ UNCHANGED received
    /\ UNCHANGED <<Rows, now, states, asked, codes, calls>>

\* Half an hour, or five minutes, are over.
Expire ==
    /\ \/ \E s \in states : states' = states \ {s} /\ UNCHANGED codes
       \/ \E t \in Phones : /\ codes[t] # Nothing
                            /\ codes' = [codes EXCEPT ![t] = Nothing]
                            /\ UNCHANGED states
    /\ UNCHANGED <<Rows, now, asked, received, call, calls, faults>>

-----------------------------------------------------------------------------
(* Logins. *)

Callback(p, who, app, s) ==
    /\ Begin(p, [Idle EXCEPT !.op = "wechat", !.pc = "inviter", !.who = who, !.app = app,
                             !.key = s])
    /\ UNCHANGED <<Rows, now, Keys, faults>>

\* A phone with a code, to log in or to register.
WithPhone(p, op, t, app, code) ==
    /\ Begin(p, [Idle EXCEPT !.op = op, !.pc = "verify", !.who = t, !.app = app, !.key = code])
    /\ UNCHANGED <<Rows, now, Keys, faults>>

getInviterCode(p) ==
    /\ call[p].pc = "inviter"
    /\ \/ \E s \in states : /\ s.key = call[p].key
                            /\ call' = [call EXCEPT ![p].invitation = s.invitation,
                                                    ![p].pc = "find"]
       \/ (\A s \in states : s.key # call[p].key) /\ Goto(p, "find")
    /\ UNCHANGED <<Rows, now, Keys, calls, faults>>

\* Mutant: no code is as good as the code that is not there.
Matches(p) == codes[call[p].who] = call[p].key

\* The code the cache has, which is not the empty one.
Right(p) == codes[call[p].who] = call[p].key /\ call[p].key # Nothing

Verify(p) ==
    /\ call[p].pc = "verify"
    /\ \/ /\ Goto(p, IF ~Right(p) THEN "wrong" ELSE IF call[p].op = "login" THEN "find" ELSE "id")
          /\ UNCHANGED faults
       \/ Failed(p)
    /\ UNCHANGED <<Rows, now, Keys, calls>>

CameTo(p, id) == answers' = answers \cup {[who |-> call[p].who, app |-> call[p].app, id |-> id]}

\* FindByWechat and FindByPhone.
Find(p) ==
    LET c == call[p]  found == {r \in Of(Sharded("users", c.app)) : r.who = c.who} IN
    /\ c.pc = "find"
    /\ \/ \E r \in found : /\ call' = [call EXCEPT ![p].id = r.id, ![p].pc = "ddl"]
                           /\ CameTo(p, r.id)
       \/ /\ found = {}
          /\ Goto(p, IF c.op = "login" THEN "unknown" ELSE "id")
          /\ UNCHANGED answers
    /\ UNCHANGED <<rows, node, now, Keys, calls, faults>>

\* Mutant: the step does not go on within a millisecond.
StepKept(a) == [ms |-> now, step |-> 0]

\* A generator that has no step left waits for the next millisecond.
NextStep(a) ==
    IF node[a].ms = now THEN [ms |-> now, step |-> node[a].step + 1] ELSE [ms |-> now, step |-> 0]

Generate(p) ==
    LET a == IF call[p].app = NoApp THEN 0 ELSE call[p].app IN
    /\ call[p].pc = "id"
    /\ \/ /\ a \in Known
          /\ NextStep(a).step < Steps
          /\ node' = [node EXCEPT ![a] = NextStep(a)]
          /\ call' = [call EXCEPT ![p].id = Id(now, a, NextStep(a).step), ![p].pc = "insert"]
       \/ a \notin Known /\ Goto(p, "insert") /\ UNCHANGED node
    /\ UNCHANGED <<rows, answers, now, Keys, calls, faults>>

\* An id or a person that is there refuses the row.
Insert(p) ==
    LET c == call[p]  table == UserTable(c.app)
        auto == c.id = 0
        id == IF auto THEN NextId ELSE c.id
        new == [table |-> table, id |-> id, who |-> c.who, auto |-> auto] IN
    /\ c.pc = "insert"
    /\ IF \E r \in Of(table) : r.id = id \/ r.who = c.who
       THEN Goto(p, "refused") /\ UNCHANGED <<rows, answers>>
       ELSE /\ rows' = rows \cup {new}
            /\ CameTo(p, id)
            /\ call' = [call EXCEPT ![p].id = id, ![p].pc = "ddl"]
    /\ UNCHANGED <<node, now, Keys, calls, faults>>

\* The session wants the membership, which it does without when there is an
\* error, and the permissions; another table has no such columns.
getMemberDDL(p) ==
    /\ call[p].pc = "ddl"
    /\ Goto(p, "perms")
    /\ UNCHANGED <<Rows, now, Keys, calls, faults>>

FindPersonalPermissions(p) ==
    LET there == Sharded("personal_permissions", call[p].app) = "personal_permissions" IN
    /\ call[p].pc = "perms"
    /\ \/ Goto(p, IF there THEN "in" ELSE "error") /\ UNCHANGED faults
       \/ Failed(p)
    /\ UNCHANGED <<Rows, now, Keys, calls>>

Return(p) ==
    /\ call[p].pc \in {"in", "error", "wrong", "unknown", "refused", "sent"}
    /\ call' = [call EXCEPT ![p] = Idle]
    /\ UNCHANGED <<Rows, now, Keys, calls, faults>>

Step(p) ==
    \/ \E who \in People, app \in Headers : Callback(p, who, app, Nothing)
    \/ \E who \in People, app \in Headers, a \in asked : Callback(p, who, app, a.key)
    \/ \E op \in {"login", "register"}, t \in Phones, app \in Headers :
          \E code \in received[t] \cup {Nothing} : WithPhone(p, op, t, app, code)
    \/ \E t \in Phones : SetPhoneCode(p, t)
    \/ Send(p) \/ getInviterCode(p) \/ Verify(p) \/ Find(p) \/ Generate(p) \/ Insert(p)
    \/ getMemberDDL(p) \/ FindPersonalPermissions(p) \/ Return(p)

Next == (\E p \in Procs : Step(p)) \/ (\E i \in {1, 2} : AuthURL(i)) \/ Expire \/ Tick

Spec == Init /\ [][Next]_loginVars

-----------------------------------------------------------------------------
(* Properties. *)

TypeOK ==
    /\ \A r \in rows : r.table \in {"users", "users_ielts"} /\ r.who \in People \cup Phones
    /\ \A a \in Known : node[a].ms <= now /\ node[a].step < Steps
    /\ \A p \in Procs : call[p].key \in 0..MaxCalls

\* Whoever logs in comes to the same row every time from one application, and
\* to another from another; and an id tells where its row is, whoever gave it
\* (user_callback.go:45, 96, 122).
AppsAreApart ==
    /\ \A a, b \in answers :
           a.who = b.who => (a.id = b.id <=> (a.app = 1 <=> b.app = 1))
    /\ \A r \in rows : r.table = tableNameFromAppId(AppID(r.id))

\* Nobody is told that they are registered when they are not: two new rows of
\* one millisecond do not get one id.  Ids that MySQL gives, one above the
\* last, may take the next of the generator (snowflake.go:62, user_callback.go:60).
RefusedAreThere ==
    \A p \in Procs : call[p].pc = "refused" =>
        \E r \in Of(UserTable(call[p].app)) : r.who = call[p].who \/ r.auto

\* Who passes with a phone has read a message to it (verification_code.go:38);
\* and the invitation of a visitor is the one of their own way to WeChat
\* (wechat_web_service.go:65, 106).
KeysAreTheirs ==
    \A p \in Procs :
        LET c == call[p] IN
        /\ c.op \in {"login", "register"} /\ c.pc \notin {"verify", "wrong", "error"} =>
               c.key \in received[c.who]
        /\ c.invitation # Nothing =>
               \E a \in asked : a.by = c.key /\ a.invitation = c.invitation

\* A login none of whose calls fails is answered.
LoginsSucceed == \A p \in Procs : call[p].pc = "error" => call[p].failed
=============================================================================
