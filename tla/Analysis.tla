------------------------------ MODULE Analysis ------------------------------
(***************************************************************************)
(* The analysis of a resume (internal/resume/internal/service/analysis.go):*)
(* three goroutines call the language model, one call after the other, and *)
(* add up what was charged; the handler waits for all of them.  A user may *)
(* ask twice at the same time.                                             *)
(*                                                                         *)
(* A call of the model does what LLM.tla says it promises: it is answered  *)
(* and charged, refused for want of credits, or fails, charged or not.     *)
(***************************************************************************)
EXTENDS Integers, Sequences, FiniteSets, KeySum

CONSTANTS
    Requests,    \* analyses asked for
    Credits,     \* what the user has
    MaxFaults    \* bound: failing calls

VARIABLES
    balance,     \* credits of the user
    task,        \* the calls each goroutine of each request has left, or "failed"
    told,        \* what each request answered: "none", "ok", "noCredit", "error"
    amount,      \* the sum each request adds up
    reason,      \* the error errgroup keeps: the first
    spent,       \* history: what was charged for each request
    faults

analysisVars == <<balance, task, told, amount, reason, spent, faults>>

\* skillKeypoint, then rewriteSkills with what it found.
Skills == <<"skillKeypoint", "rewriteSkills">>
\* rewriteProject, then evaluatePrj of what it wrote.
Project == <<"rewriteProject", "evaluatePrj">>
Jobs == <<"rewriteJobs">>

Goroutines == {"skills", "project", "jobs"}
Calls == [skills |-> Skills, project |-> Project, jobs |-> Jobs]

Init ==
    /\ balance = Credits
    /\ task = [r \in Requests |-> Calls]
    /\ told = [r \in Requests |-> "none"]
    /\ amount = [r \in Requests |-> 0]
    /\ reason = [r \in Requests |-> "none"]
    /\ spent = [r \in Requests |-> 0]
    /\ faults = 0

Running(r, g) == task[r][g] \notin {<<>>, <<"failed">>}

\* Mutant: the sum is set to what the last call cost.
SetAmount(r, ok, c) == amount' = [amount EXCEPT ![r] = IF ok THEN c ELSE @]

\* atomic.AddInt64, after an answer.
Add(r, ok, c) == amount' = [amount EXCEPT ![r] = IF ok THEN @ + c ELSE @]

Charge(r, c) ==
    /\ c <= balance
    /\ balance' = balance - c
    /\ spent' = [spent EXCEPT ![r] = @ + c]

\* The next call of a goroutine is answered.
Invoke(r, g) ==
    /\ Running(r, g)
    /\ Charge(r, 1)
    /\ Add(r, TRUE, 1)
    /\ task' = [task EXCEPT ![r][g] = Tail(@)]
    /\ UNCHANGED <<told, reason, faults>>

\* It is not: the goroutine ends, the others go on.
InvokeFails(r, g) ==
    /\ Running(r, g)
    /\ \E why \in {"noCredit", "error"}, c \in {0, 1} :
         /\ why = "noCredit" => balance = 0 /\ c = 0 /\ UNCHANGED faults
         /\ why = "error" => faults < MaxFaults /\ faults' = faults + 1
         /\ Charge(r, c)
         /\ Add(r, FALSE, c)
         /\ reason' = [reason EXCEPT ![r] = IF @ = "none" THEN why ELSE @]
    /\ task' = [task EXCEPT ![r][g] = <<"failed">>]
    /\ UNCHANGED told

\* Mutant: the first error is answered at once.
Early(r) == (\A g \in Goroutines : ~Running(r, g)) \/ reason[r] # "none"

\* errgroup.Wait.
Over(r) == \A g \in Goroutines : ~Running(r, g)

Answer(r) ==
    /\ told[r] = "none"
    /\ Over(r)
    /\ told' = [told EXCEPT ![r] = IF reason[r] = "none" THEN "ok" ELSE reason[r]]
    /\ UNCHANGED <<balance, task, amount, reason, spent, faults>>

Next ==
    \E r \in Requests :
        (\E g \in Goroutines : Invoke(r, g) \/ InvokeFails(r, g)) \/ Answer(r)

Spec == Init /\ [][Next]_analysisVars

-----------------------------------------------------------------------------
(* Properties. *)

TypeOK ==
    /\ balance \in 0 .. Credits
    /\ told \in [Requests -> {"none", "ok", "noCredit", "error"}]
    /\ amount \in [Requests -> 0 .. Credits]

\* The balance pays for the calls and for nothing else; who is answered is told
\* what it cost, each of the five calls; nobody is charged after the answer.
\* (Who is refused may have paid for the calls that were answered before.)
AmountIsTold ==
    /\ balance + SumOver(spent, Requests) = Credits
    /\ \A r \in Requests : told[r] = "ok" => amount[r] = spent[r] /\ amount[r] = 5
    /\ \A r \in Requests : told[r] # "none" => \A g \in Goroutines : ~Running(r, g)
=============================================================================
