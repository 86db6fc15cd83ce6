----------------------------- MODULE MoneyLedger -----------------------------
(***************************************************************************)
(* What the transfer port promises (packages/domain .../ITransferGateway   *)
(* and the rules of InitiateTransferUseCase): money moves between two      *)
(* accounts in one indivisible step, only when the source can pay for it,  *)
(* only along the routes the bank allows, and at most once per idempotency *)
(* key.  There are no processes, no locks and no SQL statements here: the  *)
(* module Transfers, which has them, implements this one.                  *)
(* The promise rests on the refusal of a debit being heeded.  Where it is  *)
(* not (see Transfers, shape) what is left of it is stated too: the only   *)
(* other movement credits an amount that its source could not pay.         *)
(***************************************************************************)
EXTENDS Integers

CONSTANTS
    Accounts,       \* bank and investment accounts of every user
    Owner,          \* Owner[a]: the user that holds account a
    Kind,           \* Kind[a]: "checking", "savings" or "investment"
    Opening,        \* Opening[a]: the balance, in cents, account a starts with
    Keys,           \* idempotency keys clients may send
    NoKey,          \* a request that carries no key
    Amounts         \* the amounts clients ask for

VARIABLES
    balance,        \* balance[a]: the committed balance of a
    live,           \* accounts that exist (deleting a user deletes its accounts)
    keys,           \* idempotency keys already used by a completed transfer
    unfunded,       \* unfunded[a]: what a brought to others without paying it
    heeded          \* is the refusal of a debit heeded?  It never changes

vars == <<balance, live, keys, unfunded, heeded>>

IsBank(a) == Kind[a] \in {"checking", "savings"}

\* Money leaves the accounts of a user only from a checking account and only
\* to a bank account; between one's own accounts every route is open.
Route(s, d) ==
    /\ s # d
    /\ \/ Owner[s] = Owner[d]
       \/ Kind[s] = "checking" /\ IsBank(d)

Allowed(s, d, amount, key) ==
    /\ {s, d} \subseteq live
    /\ Route(s, d)
    /\ amount > 0
    /\ key \notin keys

Move(s, d, amount, key) ==
    /\ Allowed(s, d, amount, key)
    /\ amount <= balance[s]
    /\ balance' = [balance EXCEPT ![s] = @ - amount, ![d] = @ + amount]
    /\ keys' = IF key = NoKey THEN keys ELSE keys \cup {key}
    /\ UNCHANGED <<live, unfunded, heeded>>

\* The source cannot pay and nobody notices.
Overcredit(s, d, amount, key) ==
    /\ ~heeded
    /\ Allowed(s, d, amount, key)
    /\ amount > balance[s]
    /\ balance' = [balance EXCEPT ![d] = @ + amount]
    /\ unfunded' = [unfunded EXCEPT ![s] = @ + amount]
    /\ keys' = IF key = NoKey THEN keys ELSE keys \cup {key}
    /\ UNCHANGED <<live, heeded>>

Movement ==
    \E s, d \in Accounts : \E key \in Keys \cup {NoKey} : \E amount \in Amounts :
        Move(s, d, amount, key) \/ Overcredit(s, d, amount, key)

\* Accounts disappear together with the user that owns them.
CloseAll(u) ==
    /\ live' = {a \in live : Owner[a] # u}
    /\ UNCHANGED <<balance, keys, unfunded, heeded>>

Init ==
    /\ balance = Opening
    /\ live = Accounts
    /\ keys = {}
    /\ unfunded = [a \in Accounts |-> 0]
    /\ heeded \in BOOLEAN

Next ==
    \/ Movement
    \/ \E a \in Accounts : CloseAll(Owner[a])

Spec == Init /\ [][Next]_vars
=============================================================================
