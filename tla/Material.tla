------------------------------ MODULE Material ------------------------------
(***************************************************************************)
(* Recordings of interviews that users hand in (internal/material): an     *)
(* admin accepts or rejects them, an accepted one is worth thirty days of  *)
(* membership, by an event, and its user is told by SMS.                   *)
(*                                                                         *)
(* The consumer of the event, in internal/member, knows a grant by its key *)
(* alone; here the key is the millisecond of the acceptance.               *)
(***************************************************************************)
EXTENDS Integers, Sequences, FiniteSets

CONSTANTS
    Procs,          \* admins
    MaxMaterials,   \* bound: materials handed in
    MaxCalls,       \* bound: calls of admins
    MaxMillis,      \* bound: milliseconds that pass
    MaxFaults       \* bound: calls and events that fail

VARIABLES
    table,      \* table materials, by id: uid and status
    robot,      \* materials the admins' chat was told of
    call,
    events,     \* member_update_events, in the order and millisecond they were sent
    millis, calls, faults,
    told,       \* the users who got an SMS, and for what
    decided,    \* history: the statuses each material has had
    gaveUp      \* history: materials whose event was not sent

materialVars ==
    <<table, robot, call, events, millis, calls, faults, told, decided, gaveUp>>

Idle == [op |-> "idle"]
Initial == "INIT"
Accepted == "ACCEPTED"
Rejected == "REJECTED"
Statuses == {Initial, Accepted, Rejected}

Init ==
    /\ table = <<>> /\ robot = {}
    /\ call = [p \in Procs |-> Idle]
    /\ events = <<>>
    /\ millis = 0 /\ calls = 0 /\ faults = 0
    /\ told = {}
    /\ decided = [i \in 1 .. MaxMaterials |-> {}]
    /\ gaveUp = {}

Goto(p, c) == call' = [call EXCEPT ![p] = c]
Return(p) == Goto(p, Idle)
Fail == faults < MaxFaults /\ faults' = faults + 1
Called(p) == call[p] = Idle /\ calls < MaxCalls /\ calls' = calls + 1

\* Time passes.
Tick ==
    /\ millis < MaxMillis
    /\ millis' = millis + 1
    /\ UNCHANGED <<table, robot, call, events, calls, faults, told, decided, gaveUp>>

-----------------------------------------------------------------------------
(* Users hand in, and see what became of it. *)

\* The column's default stands in for the status that is not set.
toEntity(uid) == [uid |-> uid, status |-> Initial]

\* The chat is told, or the error is only logged.
Save ==
    /\ Len(table) < MaxMaterials
    /\ \E uid \in 1 .. 2 : table' = Append(table, toEntity(uid))
    /\ decided' = [decided EXCEPT ![Len(table')] = {Initial}]
    /\ \/ robot' = robot \cup {Len(table')} /\ UNCHANGED faults
       \/ Fail /\ UNCHANGED robot
    /\ UNCHANGED <<call, events, millis, calls, told, gaveUp>>

\* All of them for uid 0, an admin.
Find(uid) == {i \in DOMAIN table : uid = 0 \/ table[i].uid = uid}

-----------------------------------------------------------------------------
(* Admins. *)

\* The status of a row, whatever it was.
Stored(i, status) ==
    /\ table' = [table EXCEPT ![i].status = status]
    /\ decided' = [decided EXCEPT ![i] = @ \cup {status}]

Accept(p) ==
    /\ Called(p)
    /\ \E i \in Find(0) : Stored(i, Accepted) /\ Goto(p, [op |-> "accepted", id |-> i])
    /\ UNCHANGED <<robot, events, millis, faults, told, gaveUp>>

FindByID(i) == table[i]

\* Mutant: one key for all who are accepted.
KeyOfBiz(at) == 0

\* "material-accepted-<millisecond>".
Key(at) == at

\* The row that was updated is read again: when that fails the call does, and
\* nothing is sent; when the event fails it does not.
Reward(p) ==
    /\ call[p].op = "accepted"
    /\ LET i == call[p].id
           evt == [key |-> Key(millis), uid |-> FindByID(i).uid, days |-> 30, bizId |-> i,
                  at |-> millis]
       IN  \/ events' = Append(events, evt) /\ UNCHANGED <<faults, gaveUp>>
           \/ Fail /\ gaveUp' = gaveUp \cup {i} /\ UNCHANGED events
    /\ Return(p)
    /\ UNCHANGED <<table, robot, millis, calls, told, decided>>

Reject(p) ==
    /\ Called(p)
    /\ \E i \in Find(0) : Stored(i, Rejected)
    /\ UNCHANGED <<robot, call, events, millis, faults, told, gaveUp>>

\* Mutant: whoever was not rejected.
NotRejected(status) == status # Rejected

IsAccepted(status) == status = Accepted

\* Found and accepted, or refused.
Notify(p) ==
    /\ Called(p)
    /\ \E i \in Find(0) :
           IF IsAccepted(FindByID(i).status)
           THEN Goto(p, [op |-> "send", id |-> i, uid |-> FindByID(i).uid])
           ELSE Return(p)
    /\ UNCHANGED <<table, robot, events, millis, faults, told, decided, gaveUp>>

\* The user has a telephone and the SMS arrives, or the admin is told not.
Send(p) ==
    /\ call[p].op = "send"
    /\ \/ told' = told \cup {[uid |-> call[p].uid, id |-> call[p].id]} /\ UNCHANGED faults
       \/ Fail /\ UNCHANGED told
    /\ Return(p)
    /\ UNCHANGED <<table, robot, events, millis, calls, decided, gaveUp>>

Next ==
    \/ Tick \/ Save
    \/ \E p \in Procs : Accept(p) \/ Reward(p) \/ Reject(p) \/ Notify(p) \/ Send(p)

Spec == Init /\ [][Next]_materialVars

-----------------------------------------------------------------------------
(* Properties. *)

TypeOK ==
    /\ \A i \in DOMAIN table : table[i].status \in Statuses
    /\ \A p \in Procs : call[p].op \in {"idle", "accepted", "send"}
    /\ calls <= MaxCalls /\ millis <= MaxMillis /\ faults <= MaxFaults

\* The event is the first of its key: the consumer grants its days.
Granted(n) == \A o \in 1 .. n - 1 : events[o].key # events[n].key

\* Another was sent in the same millisecond, before it.
Crowded(n) == \E o \in 1 .. n - 1 : events[o].at = events[n].at

\* Whoever's material was accepted gets days for it, unless the event was not
\* sent, or another acceptance of the same millisecond came first
\* (web/admin.go:100).
AcceptedAreRewarded ==
    \A i \in DOMAIN table :
        Accepted \in decided[i] =>
            \/ \E n \in DOMAIN events :
                   /\ events[n].bizId = i /\ events[n].uid = table[i].uid
                   /\ Granted(n) \/ Crowded(n)
            \/ \E p \in Procs : call[p] = [op |-> "accepted", id |-> i]
            \/ i \in gaveUp

\* Only whoever's material was accepted is told so.
ToldWereAccepted ==
    \A t \in told : Accepted \in decided[t.id] /\ table[t.id].uid = t.uid
=============================================================================
