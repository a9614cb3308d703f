------------------------------ MODULE MCGrants ------------------------------
(***************************************************************************)
(* The receivers of what marketing grants, on small instances and in the   *)
(* long run: Member with events of two users, Permission with events that  *)
(* name the same projects in different orders, Credit with four calls on   *)
(* one account.  They share no row, so a behaviour runs one of them.       *)
(***************************************************************************)
EXTENDS Member, TLC

CONSTANTS
    Messages, MessageRows, Consumers, MaxMessages, MaxErrors,   \* Permission
    u1, u2, k1, k2, k3, e1, e2, e3, x1, x2, x3, job             \* the small instances

VARIABLES
    granted, ppc, pmsg, pos, seen, inserted, done, failed, pcalls, pfaults,
    credit, creditLog, expired, cpc, req, csnap, answer, batch, ccalls, cfaults,
    scene

Sold == (k1 :> [uid |-> u1, days |-> 1]) @@ (k2 :> [uid |-> u1, days |-> 2])
          @@ (k3 :> [uid |-> u2, days |-> 1])

\* Every two events share a project, and the three of them form a ring.
Wanted == (e1 :> <<1, 2, 2>>) @@ (e2 :> <<2, 3>>) @@ (e3 :> <<3, 1>>)

Permissions == INSTANCE Permission WITH
    Events <- Messages, Rows <- MessageRows, Workers <- Consumers,
    MaxCalls <- MaxMessages, MaxFaults <- MaxErrors, None <- NoRow,
    pc <- ppc, msg <- pmsg, calls <- pcalls, faults <- pfaults

\* What Permission's proofs assume.
ASSUME EventsAreNamed == Permissions!EventsNameRows

permissionVars == <<granted, ppc, pmsg, pos, seen, inserted, done, failed, pcalls, pfaults>>

Credits == INSTANCE Credit WITH
    Users <- {u1}, Keys <- {k1, k2}, Amounts <- {1}, Workers <- {x1, x2}, Job <- job,
    Limit <- 2, MaxCalls <- 4, MaxFaults <- 1,
    pc <- cpc, snap <- csnap, calls <- ccalls, faults <- cfaults

creditVars == <<credit, creditLog, expired, cpc, req, csnap, answer, batch, ccalls, cfaults>>

besideMember == <<permissionVars, creditVars, scene>>
besidePermission == <<vars, creditVars, scene>>
besideCredit == <<vars, permissionVars, scene>>

GrantsInit ==
    /\ Init /\ Permissions!Init /\ Credits!Init
    /\ scene \in {"member", "permission", "credit"}

GrantsNext ==
    \/ scene = "member" /\ Next /\ UNCHANGED besideMember
    \/ scene = "permission" /\ Permissions!Next /\ UNCHANGED besidePermission
    \/ scene = "credit" /\ Credits!Next /\ UNCHANGED besideCredit

allVars == <<vars, permissionVars, creditVars, scene>>

\* What goroutine w does without waiting for anybody.
WorkerStep(w) ==
    \/ scene = "member" /\ w \in Workers /\ Upsert(w) /\ UNCHANGED besideMember
    \/ scene = "permission" /\ Permissions!CreatePersonalPermission(w) /\ UNCHANGED besidePermission
    \/ scene = "credit" /\ w \in Workers /\ Credits!Step(w) /\ UNCHANGED besideCredit

\* What is being handled goes on, and the cron keeps starting Credit's job.
\* Nobody is obliged to call or to send, and no fault to happen.
GrantsSpec ==
    /\ GrantsInit
    /\ [][GrantsNext]_allVars
    /\ \A w \in {x1, x2, x3} : WF_allVars(WorkerStep(w))
    /\ WF_allVars(/\ scene = "credit"
                  /\ Credits!Step(job) \/ Credits!JobScan \/ Credits!JobCancel
                  /\ UNCHANGED besideCredit)

-----------------------------------------------------------------------------
\* The type invariants of Member and of Permission; Credit's is another run's.
GrantsTypeOK == TypeOK /\ Permissions!TypeOK

\* Memberships last no longer than for what was paid (Member!OnlyPaidDays; that
\* every day paid for counts is an invariant of its own); an event's
\* permissions are granted all or none (Permission!GrantsAreWhole), by one
\* transaction each (InsertedOnce).
GrantsAddUp ==
    /\ OnlyPaidDays
    /\ Permissions!GrantsAreWhole /\ Permissions!InsertedOnce

Handling(w) ==
    \/ w \in Workers /\ (pc[w] # "idle" \/ cpc[w] # "idle")
    \/ ppc[w] # "idle"

\* Every message is handled and every call returns: the unbounded retry loops
\* of Member and of Credit end, and so do transactions of Permission that
\* wait for each other's rows in a ring.
AllMessagesAreHandled == \A w \in {x1, x2, x3} : Handling(w) ~> ~Handling(w)

\* Credit!HoldsAreReleased: the job gives held credits back at last.
HoldsAreReleased == Credits!HoldsAreReleased
=============================================================================
