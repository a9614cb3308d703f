------------------------------ MODULE Feedback ------------------------------
(***************************************************************************)
(* What users think of the content (internal/feedback): a user sends it,   *)
(* an admin pages through the list, the undecided first, and adopts or     *)
(* rejects; whoever's feedback is adopted gets credits, by an event.       *)
(*                                                                         *)
(* Left out: the texts, and the page what it is about is on.               *)
(***************************************************************************)
EXTENDS Integers, Sequences, FiniteSets

CONSTANTS
    Procs,          \* admins deciding
    MaxFeedback,    \* bound: feedback sent
    MaxDecisions,   \* bound: calls of UpdateStatus
    MaxFaults,      \* bound: events and updates that fail
    Limit           \* of a page

VARIABLES
    table,      \* table feedbacks, by id: uid and status
    call,
    credits,    \* events credit_increase_events that were sent
    decisions, faults,
    pager,      \* the admin who pages: the next offset and what was seen
    adoptions,  \* history: how often each feedback was adopted
    lost,       \* history: how often its event was not sent
    moved,      \* history: a feedback was decided while the admin paged
    missed      \* history: what the admin did not see

feedbackVars ==
    <<table, call, credits, decisions, faults, pager, adoptions, lost, moved, missed>>

Pending == 0
Adopt == 1
Reject == 2

Idle == [op |-> "idle"]
NotPaging == [on |-> FALSE, offset |-> 0, seen |-> {}, due |-> {}]

Init ==
    /\ table = <<>>
    /\ call = [p \in Procs |-> Idle]
    /\ credits = {}
    /\ decisions = 0 /\ faults = 0
    /\ pager = NotPaging
    /\ adoptions = [f \in 1 .. MaxFeedback |-> 0]
    /\ lost = [f \in 1 .. MaxFeedback |-> 0]
    /\ moved = FALSE /\ missed = {}

Goto(p, c) == call' = [call EXCEPT ![p] = c]
Return(p) == Goto(p, Idle)
Fail == faults < MaxFaults /\ faults' = faults + 1
Count(history, f) == [history EXCEPT ![f] = @ + 1]

-----------------------------------------------------------------------------
(* Users. *)

\* The row of a new feedback: the caller's, whatever the form says.
toEntity(uid) == [uid |-> uid, status |-> Pending]

Create ==
    /\ Len(table) < MaxFeedback
    /\ table' = Append(table, toEntity(Len(table) + 1))
    /\ UNCHANGED <<call, credits, decisions, faults, pager, adoptions, lost, moved, missed>>

-----------------------------------------------------------------------------
(* Admins decide. *)

\* The row as it is before the update; an unknown id is refused.
Info(p, f) == /\ f \in DOMAIN table
              /\ call[p] = Idle

UpdateStatus(p) ==
    /\ decisions < MaxDecisions
    /\ decisions' = decisions + 1
    /\ \E f \in DOMAIN table, s \in {Adopt, Reject} :
           /\ Info(p, f)
           /\ Goto(p, [op |-> "update", id |-> f, uid |-> table[f].uid, status |-> s])
    /\ UNCHANGED <<table, credits, faults, pager, adoptions, lost, moved, missed>>

\* Mutant: the event goes out before the row is updated.
ProduceFirst(c, updated) == c.status = Adopt

\* Credits are due when the row says adopted.
Rewarded(c, updated) == updated /\ c.status = Adopt

\* The row by its id, whatever it says now.
Update(p) ==
    /\ call[p].op = "update"
    /\ LET c == call[p]
           Next(updated) == IF Rewarded(c, updated) THEN Goto(p, [c EXCEPT !.op = "produce"]) ELSE Return(p)
       IN  \/ /\ table' = [table EXCEPT ![c.id].status = c.status]
              /\ adoptions' = IF c.status = Adopt THEN Count(adoptions, c.id) ELSE adoptions
              /\ moved' = (moved \/ pager.on)
              /\ Next(TRUE)
              /\ UNCHANGED faults
           \/ Fail /\ Next(FALSE) /\ UNCHANGED <<table, adoptions, moved>>
    /\ UNCHANGED <<credits, decisions, pager, lost, missed>>

\* A random key, so each event is new to the consumer; an error is only logged.
Produce(p) ==
    /\ call[p].op = "produce"
    /\ LET f == call[p].id
       IN  \/ /\ credits' = credits \cup
                    {[key |-> Cardinality(credits) + 1, uid |-> call[p].uid, bizId |-> f, amount |-> 100]}
              /\ UNCHANGED <<faults, lost>>
           \/ Fail /\ lost' = Count(lost, f) /\ UNCHANGED credits
    /\ Return(p)
    /\ UNCHANGED <<table, decisions, pager, adoptions, moved, missed>>

-----------------------------------------------------------------------------
(* An admin pages through the list. *)

Undecided == {f \in DOMAIN table : table[f].status = Pending}

\* "status asc, id desc".
Before(f, g) ==
    \/ table[f].status < table[g].status
    \/ table[f].status = table[g].status /\ f > g

Rank(f) == Cardinality({g \in DOMAIN table : Before(g, f)})

\* Mutant: the offset counts from one.
FromOne(offset) == {f \in DOMAIN table : offset < Rank(f) /\ Rank(f) <= offset + Limit}

Page(offset) == {f \in DOMAIN table : offset <= Rank(f) /\ Rank(f) < offset + Limit}

\* The first page starts it; a page that is not full, or that shows decided
\* ones, ends it.  As many are undecided as PendingCount says.
List ==
    /\ LET from == IF pager.on THEN pager ELSE [NotPaging EXCEPT !.due = Undecided]
           page == Page(from.offset)
           seen == from.seen \cup page
           due == from.due \cap Undecided
       IN  /\ from.due # {}
           /\ IF Cardinality(page) < Limit \/ page \ Undecided # {}
              THEN pager' = NotPaging /\ missed' = due \ seen
              ELSE /\ pager' = [on |-> TRUE, offset |-> from.offset + Limit, seen |-> seen, due |-> due]
                   /\ missed' = {}
    /\ moved' = (pager.on /\ moved)
    /\ UNCHANGED <<table, call, credits, decisions, faults, adoptions, lost>>

Next ==
    \/ Create \/ List
    \/ \E p \in Procs : UpdateStatus(p) \/ Update(p) \/ Produce(p)

Spec == Init /\ [][Next]_feedbackVars

-----------------------------------------------------------------------------
(* Properties. *)

TypeOK ==
    /\ \A f \in DOMAIN table : table[f].status \in {Pending, Adopt, Reject}
    /\ Len(table) <= MaxFeedback /\ decisions <= MaxDecisions /\ faults <= MaxFaults
    /\ \A p \in Procs : call[p].op \in {"idle", "update", "produce"}

Sent(f) == Cardinality({e \in credits : e.bizId = f})
Sending(f) == Cardinality({p \in Procs : call[p].op = "produce" /\ call[p].id = f})

\* Each adoption sends one event, to whoever gave the feedback: it is sent, on
\* its way or lost, and nothing is sent for what was never adopted
\* (service/feedback.go:63).  An adoption of what was adopted before counts
\* again: the code does not look.
RewardsAreDue ==
    /\ \A f \in DOMAIN table : Sent(f) + Sending(f) + lost[f] = adoptions[f]
    /\ \A e \in credits : e.uid = table[e.bizId].uid

\* An admin who pages through the list sees all that is undecided throughout,
\* unless something is decided meanwhile: it leaves its place, and the next
\* page begins one too late (repository/dao/feedback.go:46).
PendingIsSeen == missed = {} \/ moved
=============================================================================
