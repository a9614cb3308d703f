---------------------------- MODULE CreditLedger ----------------------------
(***************************************************************************)
(* What the credit (积分) module promises to the modules that call it: a    *)
(* ledger in which every entry is written, settled or released in one      *)
(* step, and an account's two balances move only together with an entry.   *)
(* The versioned, retried database transactions of module Credit are       *)
(* shown to implement it.                                                  *)
(***************************************************************************)
EXTENDS Integers

CONSTANTS
    Users,    \* account owners
    Keys,     \* the values of CreditLog.Key; a key names at most one entry
    Amounts,  \* the amounts callers ask for
    NoRow     \* the absence of a row

VARIABLES
    available,  \* Credit.TotalCredits, per user
    held,       \* Credit.LockedTotalCredits, per user
    entry       \* the CreditLog row with a given key, or NoRow

ledgerVars == <<available, held, entry>>

LedgerEntry(u, n, s) == [uid |-> u, change |-> n, status |-> s]

LedgerInit ==
    /\ available = [u \in Users |-> 0]
    /\ held = [u \in Users |-> 0]
    /\ entry = [k \in Keys |-> NoRow]

(***************************************************************************)
(* AddCredits: a grant under a key nobody used before.                     *)
(***************************************************************************)
Grant(u, k, a) ==
    /\ entry[k] = NoRow
    /\ entry' = [entry EXCEPT ![k] = LedgerEntry(u, a, "Active")]
    /\ available' = [available EXCEPT ![u] = @ + a]
    /\ UNCHANGED held

(***************************************************************************)
(* TryDeductCredits: the amount moves from available to held, under a key  *)
(* nobody used before and never beyond what is available.                  *)
(***************************************************************************)
Hold(u, k, a) ==
    /\ entry[k] = NoRow
    /\ available[u] >= a
    /\ entry' = [entry EXCEPT ![k] = LedgerEntry(u, -a, "Locked")]
    /\ available' = [available EXCEPT ![u] = @ - a]
    /\ held' = [held EXCEPT ![u] = @ + a]

(***************************************************************************)
(* ConfirmDeductCredits: the held amount is spent.                         *)
(***************************************************************************)
Spend(k) ==
    /\ entry[k] # NoRow
    /\ entry[k].status = "Locked"
    /\ entry' = [entry EXCEPT ![k].status = "Active"]
    /\ held' = [held EXCEPT ![entry[k].uid] = @ + entry[k].change]
    /\ UNCHANGED available

(***************************************************************************)
(* CancelDeductCredits: the held amount becomes available again.           *)
(***************************************************************************)
Release(k) ==
    /\ entry[k] # NoRow
    /\ entry[k].status = "Locked"
    /\ entry' = [entry EXCEPT ![k].status = "Inactive"]
    /\ held' = [held EXCEPT ![entry[k].uid] = @ + entry[k].change]
    /\ available' = [available EXCEPT ![entry[k].uid] = @ - entry[k].change]

LedgerNext ==
    \/ \E u \in Users, k \in Keys, a \in Amounts : Grant(u, k, a)
    \/ \E u \in Users, k \in Keys, a \in Amounts : Hold(u, k, a)
    \/ \E k \in Keys : Spend(k)
    \/ \E k \in Keys : Release(k)

LedgerSpec == LedgerInit /\ [][LedgerNext]_ledgerVars
=============================================================================
