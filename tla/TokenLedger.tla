----------------------------- MODULE TokenLedger -----------------------------
(***************************************************************************)
(* What quotas promise, without the gateway: requests of a holder are let  *)
(* in while it has not spent its limit, every request that was let in is   *)
(* settled at most once, by a charge the request itself reports, and       *)
(* nothing else changes what a holder has spent.                           *)
(***************************************************************************)
EXTENDS Integers, FiniteSets

CONSTANTS
    Requests,   \* requests that can be open at once
    Holders,    \* the clients with a limit
    Limit,      \* function from holders to their limits
    Nobody,     \* the holder of a request that is not open
    MaxCharge   \* the largest charge of one request

VARIABLES
    spent,      \* spent[c]: tokens charged to holder c
    pending     \* pending[r]: the holder request r is open for

ledger == <<spent, pending>>

Init ==
    /\ spent = [c \in Holders |-> 0]
    /\ pending = [r \in Requests |-> Nobody]

LetIn(r, c) ==
    /\ pending[r] = Nobody
    /\ spent[c] < Limit[c]
    /\ pending' = [pending EXCEPT ![r] = c]
    /\ UNCHANGED spent

(* The request ends with a charge of n tokens, none for n = 0.             *)
Settle(r, n) ==
    /\ pending[r] # Nobody
    /\ spent' = [spent EXCEPT ![pending[r]] = @ + n]
    /\ pending' = [pending EXCEPT ![r] = Nobody]

Next ==
    \E r \in Requests :
        \/ \E c \in Holders : LetIn(r, c)
        \/ \E n \in 0..MaxCharge : Settle(r, n)

Spec == Init /\ [][Next]_ledger
=============================================================================
