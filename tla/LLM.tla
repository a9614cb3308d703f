--------------------------------- MODULE LLM ---------------------------------
(***************************************************************************)
(* A call of a large language model for credits (internal/ai): the         *)
(* handlers read the configuration of the call's business, ask for the     *)
(* balance, call the platform, keep a record of the call (table            *)
(* llm_records) and only then, when the amount is known, hold and spend    *)
(* the credits through the credit module and settle the call's row of      *)
(* table llm_credits.  A user's calls run at once, as the four of Evaluate *)
(* (service/jd_service.go) do, and administrators save configurations      *)
(* beside them.  The credit module is CreditLedger; a call's idempotence   *)
(* key is fresh, and stands for the call.                                  *)
(*                                                                         *)
(* Left out: prompts and models; of a configuration, all but its price.    *)
(***************************************************************************)
EXTENDS Integers, FiniteSets

CONSTANTS
    Calls,         \* calls of the service
    CallerOf,      \* the user of each call
    BizOf,         \* its business
    Balance,       \* credits of every user at first
    Prices,        \* of a thousand tokens; free calls cost 0
    Tokens,        \* how long a call and its answer may be
    MaxFaults,     \* bound: errors and lost replies of database, credit, platform
    MaxSaves,      \* bound: saved configurations
    NoRow

VARIABLES
    available, held, entry,  \* the credit module, a key for each call
    configs,       \* table ai_biz_configs
    saves, last,   \* saved forms; history: the last price saved for each business
    config, told,  \* the price each call read; history: the last one at that time
    pc,            \* how far each call is
    price,         \* what the platform asks for the answer
    creditRow,     \* the status of the call's row in llm_credits
    recordRow,     \* the status of the call's row in llm_records
    outcome,       \* what the caller got
    faults,
    lost           \* history: calls that were paid, and then something failed

Users == {CallerOf[r] : r \in Calls}
Bizs == {BizOf[r] : r \in Calls}

\* Prices are of 1000 tokens, and the amount is rounded up.
Amount(perThousand, tokens) == (perThousand * tokens + 999) \div 1000

Amounts == {Amount(p, t) : p \in Prices, t \in Tokens}

Ledger == INSTANCE CreditLedger WITH Users <- Users, Keys <- Calls, Amounts <- Amounts

ledgerVars == <<available, held, entry>>
configVars == <<configs, saves, last, config, told>>

llmvars == <<available, held, entry, configVars, pc, price, creditRow, recordRow,
             outcome, faults, lost>>

None == -1

Init ==
    /\ available = [u \in Users |-> Balance]
    /\ held = [u \in Users |-> 0]
    /\ entry = [r \in Calls |-> NoRow]
    /\ configs = {} /\ saves = 0 /\ last = [b \in Bizs |-> None]
    /\ config = [r \in Calls |-> None] /\ told = [r \in Calls |-> None]
    /\ pc = [r \in Calls |-> "config"]
    /\ price = [r \in Calls |-> 0]
    /\ creditRow = [r \in Calls |-> "none"]
    /\ recordRow = [r \in Calls |-> "none"]
    /\ outcome = [r \in Calls |-> "none"]
    /\ faults = 0
    /\ lost = {}

----------------------------------------------------------------------------
Goto(r, label) ==
    /\ pc' = [pc EXCEPT ![r] = label]
    /\ UNCHANGED outcome

Return(r, result) ==
    /\ pc' = [pc EXCEPT ![r] = "done"]
    /\ outcome' = [outcome EXCEPT ![r] = result]

creditSaved(r, status) == creditRow' = [creditRow EXCEPT ![r] = status]

\* That the record is not kept is logged only.
Recorded(r, status) == recordRow' = [recordRow EXCEPT ![r] = status]

Fault == faults < MaxFaults /\ faults' = faults + 1

----------------------------------------------------------------------------
(* Configurations.  The rows' ids and businesses are unique. *)

Forms == [id : {0} \cup {c.id : c \in configs}, biz : Bizs, price : Prices]

\* Mutant: nothing but the id is unique.
WithItsId(f) == {c \in configs : c.id = f.id}

\* Rows that have a key of the form's.
Duplicates(f) == {c \in configs : c.id = f.id \/ c.biz = f.biz}

NextId == 1 + Cardinality(configs)

\* MySQL writes over a row with any duplicate key, also when the form is a new
\* one of a business that has a row; two rows cannot get one business.
Save(f) ==
    LET same == {c \in Duplicates(f) : c.id = f.id}
        old == IF same = {} THEN Duplicates(f) ELSE same
        id == IF old = {} THEN NextId ELSE (CHOOSE c \in old : TRUE).id IN
    /\ saves < MaxSaves /\ saves' = saves + 1
    /\ Duplicates(f) \subseteq old
    /\ configs' = (configs \ old) \cup {[id |-> id, biz |-> f.biz, price |-> f.price]}
    /\ last' = [b \in Bizs |-> IF b = f.biz THEN f.price
                               ELSE IF \E c \in old : c.biz = b THEN None ELSE last[b]]
    /\ UNCHANGED <<ledgerVars, config, told, pc, price, creditRow, recordRow, outcome,
                   faults, lost>>

\* Mutant: the price is looked up when the answer is there.
PriceNow(r) == (CHOOSE c \in configs : c.biz = BizOf[r]).price

\* Of the request, which takes it along.
PriceOf(r) == config[r]

\* First, by id.
GetConfig(r) ==
    LET rows == {c \in configs : c.biz = BizOf[r]}
        first == CHOOSE c \in rows : \A d \in rows : c.id <= d.id IN
    /\ pc[r] = "config"
    /\ \/ /\ rows # {}
          /\ config' = [config EXCEPT ![r] = first.price]
          /\ told' = [told EXCEPT ![r] = last[BizOf[r]]]
          /\ Goto(r, IF first.price = 0 THEN "ask" ELSE "check")
          /\ UNCHANGED faults
       \/ rows = {} /\ Return(r, "error") /\ UNCHANGED <<config, told, faults>>
       \/ Fault /\ Return(r, "error") /\ UNCHANGED <<config, told>>
    /\ UNCHANGED <<ledgerVars, configs, saves, last, price, creditRow, recordRow, lost>>

----------------------------------------------------------------------------
checkCredit(r) == available[CallerOf[r]] > 0

\* The balance, before anybody knows what the answer costs.
GetCredits(r) ==
    /\ pc[r] = "check"
    /\ \/ checkCredit(r) /\ Goto(r, "ask") /\ UNCHANGED faults
       \/ ~checkCredit(r) /\ Return(r, "insufficient") /\ UNCHANGED faults
       \/ Fault /\ Return(r, "error")
    /\ UNCHANGED <<ledgerVars, configVars, price, creditRow, recordRow, lost>>

\* A free call ends with the answer.
Answered(r) == IF config[r] = 0 THEN Return(r, "answer") ELSE Goto(r, "log")

\* The platform answers or fails.
Ask(r) ==
    /\ pc[r] = "ask"
    /\ \/ /\ \E t \in Tokens : price' = [price EXCEPT ![r] = Amount(PriceOf(r), t)]
          /\ \/ Recorded(r, "success") /\ UNCHANGED faults
             \/ Fault /\ UNCHANGED recordRow
          /\ Answered(r)
       \/ /\ Fault
          /\ Recorded(r, "failed")
          /\ Return(r, "error")
          /\ UNCHANGED price
    /\ UNCHANGED <<ledgerVars, configVars, creditRow, lost>>

\* The row of llm_credits, in process.
SaveCredit(r) ==
    /\ pc[r] = "log"
    /\ \/ /\ creditSaved(r, "processing")
          /\ Goto(r, "hold")
          /\ UNCHANGED faults
       \/ Fault /\ Return(r, "error") /\ UNCHANGED creditRow
    /\ UNCHANGED <<ledgerVars, configVars, price, recordRow, lost>>

----------------------------------------------------------------------------
(* deductCredit *)

\* Mutant: what was checked before is held, without asking again.
TryDeductTrusting(r) ==
    /\ pc[r] = "hold"
    /\ \/ Ledger!Hold(CallerOf[r], r, price[r])
       \/ available[CallerOf[r]] < price[r] /\ UNCHANGED ledgerVars
    /\ Goto(r, "success")
    /\ UNCHANGED <<configVars, price, creditRow, recordRow, faults, lost>>

\* Other calls of the user may have spent what GetCredits saw.
TryDeduct(r) ==
    LET u == CallerOf[r] IN
    /\ pc[r] = "hold"
    /\ \/ Ledger!Hold(u, r, price[r]) /\ Goto(r, "spend") /\ UNCHANGED faults
       \/ /\ available[u] < price[r]
          /\ Goto(r, "failed")
          /\ UNCHANGED <<ledgerVars, faults>>
       \/ /\ Fault
          /\ Ledger!Hold(u, r, price[r]) \/ UNCHANGED ledgerVars
          /\ Goto(r, "failed")
    /\ UNCHANGED <<configVars, price, creditRow, recordRow, lost>>

\* Mutant: a hold that is gone counts as spent.
ConfirmReleased(r) ==
    /\ pc[r] = "spend"
    /\ \/ Ledger!Spend(r)
       \/ entry[r].status # "Locked" /\ UNCHANGED ledgerVars
    /\ Goto(r, "success")
    /\ UNCHANGED <<configVars, price, creditRow, recordRow, faults, lost>>

\* Mutant: the confirmation is settled like a hold that failed.
ConfirmThenFail(r) ==
    /\ pc[r] = "spend"
    /\ \/ Ledger!Spend(r)
       \/ entry[r].status # "Locked" /\ UNCHANGED ledgerVars
    /\ Goto(r, "failed")
    /\ UNCHANGED <<configVars, price, creditRow, recordRow, faults, lost>>

\* The timeout job of the credit module may have released the hold: then the
\* confirmation is an error.
ConfirmDeduct(r) ==
    /\ pc[r] = "spend"
    /\ \/ Ledger!Spend(r) /\ Goto(r, "success") /\ UNCHANGED <<faults, lost>>
       \/ /\ entry[r].status # "Locked"
          /\ Goto(r, "cancel")
          /\ UNCHANGED <<ledgerVars, faults, lost>>
       \/ /\ Fault
          /\ \/ Ledger!Spend(r) /\ lost' = lost \cup {r}
             \/ UNCHANGED <<ledgerVars, lost>>
          /\ Goto(r, "cancel")
    /\ UNCHANGED <<configVars, price, creditRow, recordRow>>

\* A failure is logged only.
CancelDeduct(r) ==
    /\ pc[r] = "cancel"
    /\ \/ Ledger!Release(r) /\ UNCHANGED faults
       \/ entry[r].status # "Locked" /\ UNCHANGED <<ledgerVars, faults>>
       \/ Fault /\ UNCHANGED ledgerVars
    /\ Goto(r, "failed")
    /\ UNCHANGED <<configVars, price, creditRow, recordRow, lost>>

----------------------------------------------------------------------------
SaveFailed(r) ==
    /\ pc[r] = "failed"
    /\ \/ creditSaved(r, "failed") /\ UNCHANGED faults
       \/ Fault /\ UNCHANGED creditRow
    /\ Return(r, "error")
    /\ UNCHANGED <<ledgerVars, configVars, price, recordRow, lost>>

\* The answer is withheld when the row cannot be settled.
SaveSuccess(r) ==
    /\ pc[r] = "success"
    /\ \/ /\ creditSaved(r, "success")
          /\ Return(r, "answer")
          /\ UNCHANGED <<faults, lost>>
       \/ Fault /\ Return(r, "error") /\ lost' = lost \cup {r} /\ UNCHANGED creditRow
    /\ UNCHANGED <<ledgerVars, configVars, price, recordRow>>

Handle(r) ==
    \/ GetConfig(r) \/ GetCredits(r) \/ Ask(r) \/ SaveCredit(r)
    \/ TryDeduct(r) \/ ConfirmDeduct(r) \/ CancelDeduct(r)
    \/ SaveFailed(r) \/ SaveSuccess(r)

\* The process of a call stops for good.
Crash(r) ==
    /\ pc[r] # "done"
    /\ Fault
    /\ Return(r, "error")
    /\ lost' = lost \cup {c \in {r} : pc[c] = "success"}
    /\ UNCHANGED <<ledgerVars, configVars, price, creditRow, recordRow>>

\* CloseTimeoutLockedCreditsJob, 30 minutes after the hold.
ReleaseTimeoutHold(r) ==
    /\ Ledger!Release(r)
    /\ UNCHANGED <<configVars, pc, price, creditRow, recordRow, outcome, faults, lost>>

Next ==
    \/ \E r \in Calls : Handle(r)
    \/ \E r \in Calls : Crash(r)
    \/ \E r \in Calls : ReleaseTimeoutHold(r)
    \/ \E f \in Forms : Save(f)

Spec == Init /\ [][Next]_llmvars

----------------------------------------------------------------------------
Status == {"none", "processing", "success", "failed"}

\* Balances are natural, the rows and outcomes have their types.
TypeOK ==
    /\ \A u \in Users : available[u] \in 0..Balance /\ held[u] \in 0..Balance
    /\ \A r \in Calls :
         /\ entry[r] = NoRow \/ entry[r].status \in {"Active", "Locked", "Inactive"}
         /\ price[r] \in Amounts \cup {0} /\ config[r] \in Prices \cup {None}
         /\ creditRow[r] \in Status /\ recordRow[r] \in Status
         /\ outcome[r] \in {"none", "answer", "insufficient", "error"}
    /\ faults \in 0..MaxFaults

\* No answer is given away: whoever gets one has paid what the platform asks
\* for it, whatever other calls of the user, administrators and the timeout
\* job do (credit/builder.go:67).
AnswersArePaid ==
    \A r \in Calls : outcome[r] = "answer" =>
        IF entry[r] = NoRow THEN price[r] = 0
        ELSE entry[r].status = "Active" /\ entry[r].change = -price[r]

\* A call runs with the price that was saved last for its business, whether
\* the administrator edited the row or saved it as a new one (dao/config.go:59).
PricesAreLast == \A r \in Calls : config[r] = told[r]

\* Nobody pays for nothing: credits are spent only on calls that end with the
\* answer, unless the reply of the confirmation is lost, or the row cannot be
\* settled or the process stops after it (credit/builder.go:88).
PaymentsAreAnswered ==
    \A r \in Calls : entry[r] # NoRow /\ entry[r].status = "Active" =>
        \/ pc[r] = "success" \/ outcome[r] = "answer" \/ r \in lost

\* llm_credits tells what the ledger did: success was paid, and failed was
\* not, unless the reply of the confirmation was lost (credit/builder.go:80).
RowsTellTheLedger ==
    \A r \in Calls :
        /\ creditRow[r] = "success" => entry[r].status = "Active"
        /\ creditRow[r] = "failed" /\ r \notin lost =>
              entry[r] = NoRow \/ entry[r].status # "Active"

=============================================================================
