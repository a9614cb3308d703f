---------------------------- MODULE MemberLedger ----------------------------
(***************************************************************************)
(* What the member (会员) module promises to those who send member events:  *)
(* a membership's last day and a record per key, which change together in  *)
(* one step.  An extension starts at the last day, or at the current day   *)
(* when the membership has run out.  The versioned, retried transactions   *)
(* of module Member are shown to implement it.                             *)
(***************************************************************************)
EXTENDS Integers

CONSTANTS
    Users,  \* owners of memberships
    Keys,   \* the values of MemberRecord.Key
    Event,  \* the user and the days each key stands for
    NoRow   \* the absence of a record

VARIABLES
    last,   \* the last day of each user's membership
    entry,  \* the record with each key, or NoRow
    today   \* the current day

ledgerVars == <<last, entry, today>>

LedgerInit ==
    /\ last = [u \in Users |-> 0]
    /\ entry = [k \in Keys |-> NoRow]
    /\ today \in Nat

\* The last day of a membership that ran to e, extended on day d by n days.
Extended(e, d, n) == (IF e < d THEN d ELSE e) + n

(***************************************************************************)
(* A member event under a key nobody used before, taken up on day d.       *)
(***************************************************************************)
Extend(k, d) ==
    /\ entry[k] = NoRow
    /\ d <= today
    /\ entry' = [entry EXCEPT ![k] = [uid |-> Event[k].uid, days |-> Event[k].days, day |-> d]]
    /\ last' = [last EXCEPT ![Event[k].uid] = Extended(@, d, Event[k].days)]
    /\ UNCHANGED today

Midnight == today' = today + 1 /\ UNCHANGED <<last, entry>>

LedgerNext ==
    \/ \E k \in Keys, d \in 0 .. today : Extend(k, d)
    \/ Midnight

LedgerSpec == LedgerInit /\ [][LedgerNext]_ledgerVars
=============================================================================
