----------------------------- MODULE Interview -----------------------------
(***************************************************************************)
(* The interviews of one user (internal/interview): journeys with their    *)
(* rounds, saved together in one transaction by forms that several windows *)
(* hold open.  A round that the user allowed to be shared must stay        *)
(* shared: the service compares the form with the rows before it saves it. *)
(*                                                                         *)
(* Left out: what journeys and rounds say besides; pages of the list.      *)
(***************************************************************************)
EXTENDS Integers, FiniteSets, TLC

CONSTANTS
    Procs,         \* windows
    Numbers,       \* numbers of rounds
    MaxJourneys,   \* bound: journeys
    MaxCalls       \* bound: forms sent

VARIABLES
    journeys,      \* ids in table interview_journeys: 1 .. journeys
    rounds,        \* table interview_rounds: id -> journey, number and sharing
    call, calls,
    everShared,    \* history: rounds that were shared
    unknown        \* history: shared rounds taken back by a form that could not know

interviewVars == <<journeys, rounds, call, calls, everShared, unknown>>

Idle == [op |-> "idle"]

InterviewRound(jid, number, shared) == [jid |-> jid, number |-> number, shared |-> shared]

Init ==
    /\ journeys = 0
    /\ rounds = <<>>
    /\ call = [p \in Procs |-> Idle]
    /\ calls = 0
    /\ everShared = {}
    /\ unknown = {}

Of(jid) == {i \in DOMAIN rounds : rounds[i].jid = jid}
IsShared(i) == rounds[i].shared
SharedOf(jid) == {i \in Of(jid) : IsShared(i)}

\* The journey with its rounds, in one transaction: what forms are opened with.
Find(jid) == [id |-> jid, rounds |-> Of(jid)]
Detail(jid) == Find(jid).rounds

\* What a form says of a journey: of some numbers, the row it was opened with,
\* whose number may have been changed, or 0; and whether it is to be shared.
\* A round that is not filled in has number 0.
Forms(jid) ==
    UNION {[ns -> [id : {0} \cup Detail(jid), shared : BOOLEAN]] : ns \in SUBSET (Numbers \cup {0})}

IsValid(form) == 0 \notin DOMAIN form

-----------------------------------------------------------------------------
\* Mutant: a form that shares one of its rounds is not compared.
UnsharedForm(form) ==
    IF \E n \in DOMAIN form : form[n].shared THEN {} ELSE {form[n].id : n \in DOMAIN form} \ {0}

\* The rows the form knows of and does not share.
Unshared(form) == {form[n].id : n \in {x \in DOMAIN form : form[x].id # 0 /\ ~form[x].shared}}

\* The service's check: of a journey that is there, and rounds that are.
Revokes(jid, form) == jid > 0 /\ Unshared(form) \cap SharedOf(jid) # {}

Save(p) ==
    /\ call[p] = Idle
    /\ calls < MaxCalls
    /\ calls' = calls + 1
    /\ \E jid \in 0 .. journeys : \E form \in Forms(jid) :
         IF ~IsValid(form) \/ Revokes(jid, form)
         THEN UNCHANGED call
         ELSE call' = [call EXCEPT ![p] =
                  [op |-> "save", jid |-> jid, form |-> form, seen |-> SharedOf(jid)]]
    /\ UNCHANGED <<journeys, rounds, everShared, unknown>>

\* The row an insert meets: that with its id, or else its journey and number.
Duplicates(table, jid, number, id) ==
    IF id \in DOMAIN table THEN {id}
    ELSE {i \in DOMAIN table : table[i].jid = jid /\ table[i].number = number}

\* One statement for each round, in the order of the numbers.
Upsert(table, jid, number, r) ==
    LET there == Duplicates(table, jid, number, r.id)
    IN  IF there = {}
        THEN table @@ (Cardinality(DOMAIN table) + 1 :> InterviewRound(jid, number, r.shared))
        ELSE [i \in DOMAIN table |->
                 IF i \in there THEN [table[i] EXCEPT !.shared = r.shared] ELSE table[i]]

Saved(jid, form) ==
    LET upTo[n \in 0 .. Cardinality(Numbers)] ==
            IF n = 0 THEN rounds
            ELSE IF n \in DOMAIN form THEN Upsert(upTo[n - 1], jid, n, form[n]) ELSE upTo[n - 1]
    IN  upTo[Cardinality(Numbers)]

\* The transaction.
SaveAll(p) ==
    /\ call[p].op = "save"
    /\ LET form == call[p].form
           jid == IF call[p].jid = 0 THEN journeys + 1 ELSE call[p].jid
           new == Saved(jid, form)
           taken == {i \in SharedOf(jid) : ~new[i].shared}
       IN  /\ jid <= MaxJourneys
           /\ journeys' = IF jid > journeys THEN jid ELSE journeys
           /\ rounds' = new
           /\ everShared' = everShared \cup {i \in DOMAIN new : new[i].shared}
           /\ unknown' = unknown \cup
                  {i \in taken : \/ i \notin call[p].seen
                                 \/ \A n \in DOMAIN form : form[n].id = i => form[n].shared}
    /\ call' = [call EXCEPT ![p] = Idle]
    /\ UNCHANGED calls

Next == \E p \in Procs : Save(p) \/ SaveAll(p)

Spec == Init /\ [][Next]_interviewVars

-----------------------------------------------------------------------------
(* Properties. *)

TypeOK ==
    /\ journeys \in 0 .. MaxJourneys
    /\ \A i \in DOMAIN rounds :
           rounds[i] \in [jid : 1 .. journeys, number : Numbers, shared : BOOLEAN]
    /\ calls \in 0 .. MaxCalls

\* A round that was shared stays shared, and keeps its place in its journey: it
\* is taken back only by a form checked before it was shared, or one that has a
\* new round in its place: opened before the round was there, or after its
\* number was changed, which is not saved (service/interview.go:61, "cannot be
\* revoked").
SharingStays ==
    /\ \A i \in everShared : rounds[i].shared \/ i \in unknown
    /\ \A i, j \in DOMAIN rounds :
           rounds[i].jid = rounds[j].jid /\ rounds[i].number = rounds[j].number => i = j
=============================================================================
