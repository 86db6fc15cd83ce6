------------------------------ MODULE Transfers ------------------------------
(***************************************************************************)
(* Money transfers: POST /transactions/transfer, InitiateTransferUseCase   *)
(* and the SQL transaction of TransferGateway, one action per statement.   *)
(*                                                                         *)
(* Any number of HTTP requests ("attempts") run at once, on any number of  *)
(* API replicas; they meet only in PostgreSQL (READ COMMITTED).  What a    *)
(* transaction writes is a new row version nobody else sees before its     *)
(* COMMIT; FOR UPDATE and UPDATE take the row lock, held until the end of  *)
(* the transaction; INSERT ... ON CONFLICT DO NOTHING waits for another    *)
(* transaction that has inserted the same key and has not ended.           *)
(*                                                                         *)
(* Amounts are in cents.  A transaction can die at any statement (crash of *)
(* the replica, lost connection, deadlock victim): it is rolled back.  The *)
(* answer of a committed transfer can be lost; a client that retries is    *)
(* simply another attempt with the same request, key included.             *)
(***************************************************************************)
EXTENDS Integers, FiniteSets, Sequences, Functions

CONSTANTS
    Accounts,       \* rows of accounts and investment_accounts
    Owner,          \* Owner[a]: user_id of the row
    Kind,           \* Kind[a]: "checking", "savings" or "investment"
    Rank,           \* Rank[a]: position of "kind:id" in the string order
    Opening,        \* Opening[a]: balance at the start
    Keys, NoKey,    \* idempotency keys; NoKey: the header is absent
    NoAccount,      \* a destination field that is absent, or names no account
    Attempts,       \* executions of the handler
    Lockers,        \* whoever may lock an account row (Attempts and others)
    Free,           \* the row is not locked
    Requests,       \* the request bodies clients send
    NoRequest,
    UpdateShapes,   \* what the driver may hand back for UPDATE ... RETURNING
    NotANumber,     \* the JavaScript NaN, stored as numeric 'NaN'
    Unwritten       \* the transaction has no version of the row

\* The shape of manager.query on UPDATE ... RETURNING belongs to the driver:
\* "rows" is the array of returned rows, which TransferGateway expects;
\* "pair" is [rows, affectedCount], which BanRequestsService also unpacks.
Shapes == {"rows", "pair"}

Request ==
    [user: {Owner[a] : a \in Accounts}, sourceType: {"bank", "investment"},
     source: Accounts, toAccount: Accounts \cup {NoAccount},
     toIban: Accounts \cup {NoAccount}, amount: Int, key: Keys \cup {NoKey}]

ASSUME AccountsAssumption ==
    /\ IsFiniteSet(Accounts)
    /\ Kind \in [Accounts -> {"checking", "savings", "investment"}]
    /\ Rank \in [Accounts -> Int]
    /\ \A a, b \in Accounts : Rank[a] = Rank[b] => a = b
    /\ Opening \in [Accounts -> Nat]
    /\ NoAccount \notin Accounts

ASSUME RequestsAssumption ==
    /\ Requests \subseteq Request
    /\ NoRequest \notin Requests
    /\ NoKey \notin Keys

ASSUME ProcessAssumption ==
    /\ Attempts \subseteq Lockers
    /\ Free \notin Lockers

ASSUME DriverAssumption ==
    /\ UpdateShapes \subseteq Shapes
    /\ NotANumber \notin Int
    /\ Unwritten \notin Int

VARIABLES
    balance,        \* balance / cash_balance of each row, as committed
    live,           \* rows that exist
    ledger,         \* ledger[a]: statement lines of a, in commit order
    keys,           \* committed rows of transfer_idempotency_keys
    lock,           \* lock[a]: the transaction that holds the row lock
    pc,             \* pc[p]: the next statement of attempt p
    req,            \* req[p]: the request p executes
    sourceVersion,  \* sourceVersion[p]: uncommitted version of the source row
    destVersion,    \* destVersion[p]: uncommitted version of the destination
    outcome,        \* outcome[p]: what the client learns
    notices,        \* attempts whose "Virement recu" notification was stored
    shape,          \* the shape of the driver installed: it never changes
    unfunded        \* history: what transfers from a brought to others while the
                    \* conditional debit of a matched no row

rowVars == <<balance, live, ledger, keys, shape, unfunded>>
vars == <<rowVars, lock, pc, req, sourceVersion, destVersion, outcome, notices>>

Steps == {"idle", "key", "lock1", "lock2", "debit", "credit", "commit",
          "answer", "done"}
InTransaction == {"key", "lock1", "lock2", "debit", "credit", "commit"}
Outcomes == {"none", "refused", "duplicate", "insufficient", "completed",
             "error", "lost"}

IsBank(a) == Kind[a] \in {"checking", "savings"}

-----------------------------------------------------------------------------
(* InitiateTransferUseCase: who may move money where.                      *)

\* A request names its destination by account id, which wins, or by IBAN.
Destination(r) == IF r.toAccount # NoAccount THEN r.toAccount ELSE r.toIban

SourceFound(r) ==
    /\ r.source \in live
    /\ Owner[r.source] = r.user
    /\ IsBank(r.source) <=> r.sourceType = "bank"

\* Mutant: any bank account can pay an IBAN, savings accounts included.
DestinationAllowedFromSavings(r) ==
    /\ Destination(r) \in live
    /\ IF r.toAccount # NoAccount
       THEN Owner[r.toAccount] = r.user
       ELSE r.sourceType = "bank" /\ IsBank(r.toIban)

DestinationAllowed(r) ==
    /\ Destination(r) \in live
    /\ IF r.toAccount # NoAccount
       THEN Owner[r.toAccount] = r.user
       ELSE /\ r.sourceType = "bank"
            /\ Kind[r.source] = "checking"
            /\ IsBank(r.toIban)

Accepted(r) ==
    /\ r.amount > 0
    /\ SourceFound(r)
    /\ r.sourceType = "investment" => r.toIban = NoAccount
    /\ DestinationAllowed(r)
    /\ r.source # Destination(r)

-----------------------------------------------------------------------------
(* Rows, locks and statement lines.                                        *)

\* Mutant: the rows are locked as the request names them, source first.
LockOrderAsGiven(r) == <<r.source, Destination(r)>>

\* The two rows in the order TransferGateway locks them.
LockOrder(r) ==
    IF Rank[r.source] < Rank[Destination(r)]
    THEN <<r.source, Destination(r)>>
    ELSE <<Destination(r), r.source>>

\* Mutant: another transaction's uncommitted key is not waited for.
HoldsKeyUnseen(p, k) == FALSE

HoldsKey(p, k) ==
    pc[p] \in InTransaction \ {"key"} /\ req[p].key = k

\* The value the code reads from the result of UPDATE ... RETURNING.
ReturnedBalance(version) ==
    IF shape = "rows" THEN version ELSE NotANumber

\* The test rows.length > 0: a pair always has two elements.
SeesARow(matched) == matched \/ shape = "pair"

Line(p, type, amount, after) ==
    [by |-> p, type |-> type, amount |-> amount, after |-> after]

\* Mutant: debits are stored with a positive amount.
OutLineUnsigned(p, a, amount, version) ==
    Line(p, IF IsBank(a) THEN "debit" ELSE "withdrawal", amount,
         ReturnedBalance(version))

OutLine(p, a, amount, version) ==
    IF IsBank(a)
    THEN Line(p, "debit", -amount, ReturnedBalance(version))
    ELSE Line(p, "withdrawal", amount, ReturnedBalance(version))

InLine(p, a, amount, version) ==
    Line(p, IF IsBank(a) THEN "transfer" ELSE "deposit", amount,
         ReturnedBalance(version))

Release(p) == lock' = [a \in Accounts |-> IF lock[a] = p THEN Free ELSE lock[a]]

Forget(p) ==
    /\ sourceVersion' = [sourceVersion EXCEPT ![p] = Unwritten]
    /\ destVersion' = [destVersion EXCEPT ![p] = Unwritten]

Finish(p, result) ==
    /\ pc' = [pc EXCEPT ![p] = "done"]
    /\ outcome' = [outcome EXCEPT ![p] = result]

\* ROLLBACK: row versions, statement lines and the key disappear.
Rollback(p, result) ==
    /\ Release(p)
    /\ Forget(p)
    /\ Finish(p, result)
    /\ UNCHANGED <<rowVars, req, notices>>

-----------------------------------------------------------------------------
(* The handler.                                                            *)

Submit(p, r) ==
    /\ pc[p] = "idle"
    /\ req' = [req EXCEPT ![p] = r]
    /\ \/ /\ Accepted(r)
          /\ pc' = [pc EXCEPT ![p] = IF r.key = NoKey THEN "lock1" ELSE "key"]
          /\ UNCHANGED outcome
       \/ ~Accepted(r) /\ Finish(p, "refused")
    /\ UNCHANGED <<rowVars, lock, sourceVersion, destVersion, notices>>

\* Mutant: "duplicate" is answered while the other transaction may roll back.
InsertKeyEager(p) ==
    /\ pc[p] = "key"
    /\ LET taken == \/ req[p].key \in keys
                    \/ \E q \in Attempts \ {p} : HoldsKey(q, req[p].key)
       IN  \/ taken /\ Finish(p, "duplicate")
           \/ /\ ~taken
              /\ pc' = [pc EXCEPT ![p] = "lock1"]
              /\ UNCHANGED outcome
    /\ UNCHANGED <<rowVars, lock, req, sourceVersion, destVersion, notices>>

\* INSERT ... ON CONFLICT (key) DO NOTHING RETURNING key.
InsertKey(p) ==
    /\ pc[p] = "key"
    /\ \A q \in Attempts \ {p} : ~HoldsKey(q, req[p].key)
    /\ \/ /\ req[p].key \in keys
          /\ Finish(p, "duplicate")
       \/ /\ req[p].key \notin keys
          /\ pc' = [pc EXCEPT ![p] = "lock1"]
          /\ UNCHANGED outcome
    /\ UNCHANGED <<rowVars, lock, req, sourceVersion, destVersion, notices>>

\* Mutant: the rows are read without FOR UPDATE.
LockRowUnlocked(p, a) == UNCHANGED lock

\* SELECT 1 ... FOR UPDATE: a row that no longer exists locks nothing.
LockRow(p, a) ==
    \/ /\ a \in live
       /\ lock[a] = Free
       /\ lock' = [lock EXCEPT ![a] = p]
    \/ a \notin live /\ UNCHANGED lock

LockFirst(p) ==
    /\ pc[p] = "lock1"
    /\ LockRow(p, LockOrder(req[p])[1])
    /\ pc' = [pc EXCEPT ![p] = "lock2"]
    /\ UNCHANGED <<rowVars, req, sourceVersion, destVersion, outcome, notices>>

LockSecond(p) ==
    /\ pc[p] = "lock2"
    /\ LockRow(p, LockOrder(req[p])[2])
    /\ pc' = [pc EXCEPT ![p] = "debit"]
    /\ UNCHANGED <<rowVars, req, sourceVersion, destVersion, outcome, notices>>

\* UPDATE needs the row lock even where FOR UPDATE did not take it.
MayUpdate(p, a) == a \notin live \/ lock[a] \in {Free, p}
TakeLock(p, a, matched) ==
    lock' = IF matched THEN [lock EXCEPT ![a] = p] ELSE lock

\* Mutant: the UPDATE has no condition on the balance.
SufficientFundsUnchecked(r) == TRUE

SufficientFunds(r) == balance[r.source] >= r.amount

\* The conditional debit and its statement line.  The line refers to the row:
\* when the row is gone the INSERT fails and the transaction is rolled back.
Debit(p) ==
    LET r == req[p]
        matched == r.source \in live /\ SufficientFunds(r)
    IN  /\ pc[p] = "debit"
        /\ MayUpdate(p, r.source)
        /\ \/ /\ ~SeesARow(matched)
              /\ Rollback(p, "insufficient")
           \/ /\ SeesARow(matched)
              /\ r.source \notin live
              /\ Rollback(p, "error")
           \/ /\ SeesARow(matched)
              /\ r.source \in live
              /\ sourceVersion' = [sourceVersion EXCEPT ![p] =
                     IF matched THEN balance[r.source] - r.amount ELSE Unwritten]
              /\ TakeLock(p, r.source, matched)
              /\ pc' = [pc EXCEPT ![p] = "credit"]
              /\ UNCHANGED <<rowVars, req, destVersion, outcome, notices>>

Credit(p) ==
    LET r == req[p]
        d == Destination(r)
    IN  /\ pc[p] = "credit"
        /\ MayUpdate(p, d)
        /\ \/ d \notin live /\ Rollback(p, "error")
           \/ /\ d \in live
              /\ destVersion' = [destVersion EXCEPT ![p] = balance[d] + r.amount]
              /\ TakeLock(p, d, TRUE)
              /\ pc' = [pc EXCEPT ![p] = "commit"]
              /\ UNCHANGED <<rowVars, req, sourceVersion, outcome, notices>>

\* COMMIT: both versions, both lines and the key become visible at once.
Commit(p) ==
    LET r == req[p]
        s == r.source
        d == Destination(r)
    IN  /\ pc[p] = "commit"
        /\ balance' = [balance EXCEPT
               ![s] = IF sourceVersion[p] = Unwritten THEN @ ELSE sourceVersion[p],
               ![d] = destVersion[p]]
        /\ ledger' = [ledger EXCEPT
               ![s] = Append(@, OutLine(p, s, r.amount, sourceVersion[p])),
               ![d] = Append(@, InLine(p, d, r.amount, destVersion[p]))]
        /\ keys' = IF r.key = NoKey THEN keys ELSE keys \cup {r.key}
        /\ unfunded' = [unfunded EXCEPT
               ![s] = IF sourceVersion[p] = Unwritten THEN @ + r.amount ELSE @]
        /\ Release(p)
        /\ Forget(p)
        /\ pc' = [pc EXCEPT ![p] = "answer"]
        /\ UNCHANGED <<live, req, outcome, notices, shape>>

\* After the commit the controller stores news and, for a bank destination
\* that still exists, a notification; both are best effort, errors swallowed.
Answer(p) ==
    /\ pc[p] = "answer"
    /\ Finish(p, "completed")
    /\ \/ UNCHANGED notices
       \/ LET d == Destination(req[p])
          IN  /\ IsBank(d) /\ d \in live
              /\ notices' = notices \cup {p}
    /\ UNCHANGED <<rowVars, lock, req, sourceVersion, destVersion>>

\* The replica dies, or the connection breaks, before the end of COMMIT ...
Abort(p) == pc[p] \in InTransaction /\ Rollback(p, "error")

\* ... or after it: the money has moved and the client does not know.
LoseAnswer(p) ==
    /\ pc[p] = "answer"
    /\ Finish(p, "lost")
    /\ UNCHANGED <<rowVars, lock, req, sourceVersion, destVersion, notices>>

\* DELETE FROM users cascades to the accounts and their statement lines; it
\* waits for the locks on them.
DeleteUser(u) ==
    LET rows == {a \in live : Owner[a] = u}
    IN  /\ rows # {}
        /\ \A a \in rows : lock[a] = Free
        /\ live' = live \ rows
        /\ ledger' = [a \in Accounts |-> IF a \in rows THEN <<>> ELSE ledger[a]]
        /\ UNCHANGED <<balance, keys, lock, pc, req, sourceVersion, destVersion,
                       outcome, notices, shape, unfunded>>

-----------------------------------------------------------------------------
Init ==
    /\ balance = Opening
    /\ live = Accounts
    /\ ledger = [a \in Accounts |-> <<>>]
    /\ keys = {}
    /\ lock = [a \in Accounts |-> Free]
    /\ pc = [p \in Attempts |-> "idle"]
    /\ req = [p \in Attempts |-> NoRequest]
    /\ sourceVersion = [p \in Attempts |-> Unwritten]
    /\ destVersion = [p \in Attempts |-> Unwritten]
    /\ outcome = [p \in Attempts |-> "none"]
    /\ notices = {}
    /\ shape \in UpdateShapes
    /\ unfunded = [a \in Accounts |-> 0]

\* A step the code takes by itself once the request has been submitted.
Proceed(p) ==
    \/ InsertKey(p)
    \/ LockFirst(p)
    \/ LockSecond(p)
    \/ Debit(p)
    \/ Credit(p)
    \/ Commit(p)
    \/ Answer(p)

TransferNext ==
    \/ \E p \in Attempts : \E r \in Requests : Submit(p, r)
    \/ \E p \in Attempts : Proceed(p)
    \/ \E p \in Attempts : Abort(p)
    \/ \E p \in Attempts : LoseAnswer(p)

Next == TransferNext \/ \E a \in Accounts : DeleteUser(Owner[a])

Spec == Init /\ [][Next]_vars

-----------------------------------------------------------------------------
(* Properties.                                                             *)

Committed(p) == pc[p] = "answer" \/ outcome[p] \in {"completed", "lost"}

Effect(line) == IF line.type = "withdrawal" THEN -line.amount ELSE line.amount

LineSet ==
    [by: Attempts, type: {"debit", "transfer", "withdrawal", "deposit"},
     amount: Int, after: Int \cup {NotANumber}]

\* The type of every variable of the transfer path.
TypeOK ==
    /\ balance \in [Accounts -> Int]
    /\ live \subseteq Accounts
    /\ ledger \in [Accounts -> Seq(LineSet)]
    /\ keys \subseteq Keys
    /\ lock \in [Accounts -> Lockers \cup {Free}]
    /\ pc \in [Attempts -> Steps]
    /\ req \in [Attempts -> Requests \cup {NoRequest}]
    /\ sourceVersion \in [Attempts -> Int \cup {Unwritten}]
    /\ destVersion \in [Attempts -> Int \cup {Unwritten}]
    /\ outcome \in [Attempts -> Outcomes]
    /\ notices \subseteq Attempts
    /\ shape \in UpdateShapes
    /\ unfunded \in [Accounts -> Nat]

\* No committed balance is ever negative, however many transfers spend the
\* same account at once ("pas de solde negatif", ITransferGateway).
NoOverdraft == \A a \in Accounts : balance[a] >= 0

\* Transfers neither create nor destroy money: the debit and the credit of a
\* transfer are applied together or not at all (ITransferGateway).
Conservation == SumFunction(balance) = SumFunction(Opening)

\* The only money that appears is what transfers brought while the debit of
\* their source matched no row: overlap, crashes and repeats add none.
MoneyAddsUp == SumFunction(balance) = SumFunction(Opening) + SumFunction(unfunded)

LedgerSum(a) ==
    SumFunction([i \in DOMAIN ledger[a] |-> Effect(ledger[a][i])])

\* The statement of an account adds up to its balance, save for the debits it
\* lists and that did not happen.
StatementsAddUp ==
    \A a \in live : balance[a] = Opening[a] + LedgerSum(a) + unfunded[a]

\* Every statement line continues the balance of the line before it, and the
\* last one agrees with the balance of the row: no concurrent transfer was
\* lost between the balance it read and the line it wrote (writeLedger).
StatementChains ==
    \A a \in live :
        LET n == Len(ledger[a])
            before(i) == IF i = 1 THEN Opening[a] ELSE ledger[a][i - 1].after
        IN  /\ \A i \in 1..n :
                   ledger[a][i].after = before(i) + Effect(ledger[a][i])
            /\ balance[a] = before(n + 1)

\* The statements explain every balance and the balances the money, however
\* many transfers overlap, fail or lose their answer; and with the result
\* shape the gateway expects every debit it lists happened, in full.
LedgerAddsUp ==
    /\ MoneyAddsUp
    /\ StatementsAddUp
    /\ shape = "rows" => Conservation /\ StatementChains

\* One idempotency key moves money at most once, whatever the interleaving of
\* a request with its retries, crashes and lost answers included.
KeyOnce ==
    \A p, q \in Attempts :
        /\ Committed(p) /\ Committed(q)
        /\ req[p].key = req[q].key
        /\ req[p].key # NoKey
        => p = q

\* What the client learns is what the statements say: a request answered with
\* an error left no line, a committed one left a line on both accounts, and
\* "duplicate" is said only of a key whose transfer has been committed.
AnswersMatchLedger ==
    \A p \in Attempts :
        /\ \A a \in live :
               (\E i \in 1..Len(ledger[a]) : ledger[a][i].by = p)
               <=> /\ Committed(p)
                   /\ a \in {req[p].source, Destination(req[p])}
        /\ outcome[p] = "duplicate" =>
               \E q \in Attempts :
                   Committed(q) /\ req[q].key = req[p].key
        /\ p \in notices => Committed(p)

-----------------------------------------------------------------------------
(* The inductive invariant: why the properties above hold.                 *)

Amounts == {r.amount : r \in Requests}

Port == INSTANCE MoneyLedger WITH heeded <- (shape = "rows")

\* What validation established is still true of a transfer under way: the
\* request never changes, and owners and kinds of accounts never do.
RequestInv ==
    \A p \in Attempts :
        pc[p] \in InTransaction \cup {"answer"} =>
            /\ req[p] \in Requests
            /\ req[p].amount > 0
            /\ Destination(req[p]) \in Accounts
            /\ Port!Route(req[p].source, Destination(req[p]))

\* From its second SELECT ... FOR UPDATE on, a transaction holds the lock of
\* its rows, those that still exist.
LockInv ==
    \A p \in Attempts :
        /\ pc[p] = "lock2" /\ LockOrder(req[p])[1] \in live
           => lock[LockOrder(req[p])[1]] = p
        /\ pc[p] \in {"debit", "credit", "commit"} =>
               \A a \in {req[p].source, Destination(req[p])} \cap live :
                   lock[a] = p

\* An uncommitted row version is always computed from the committed balance
\* it is going to replace.
VersionInv ==
    \A p \in Attempts :
        /\ pc[p] \in {"credit", "commit"} =>
               /\ req[p].source \in live
               /\ \/ /\ sourceVersion[p] = balance[req[p].source] - req[p].amount
                     /\ sourceVersion[p] \in Nat
                  \/ /\ sourceVersion[p] = Unwritten /\ shape = "pair"
                     /\ balance[req[p].source] < req[p].amount
        /\ pc[p] = "commit" =>
               /\ Destination(req[p]) \in live
               /\ destVersion[p] = balance[Destination(req[p])] + req[p].amount
        /\ pc[p] \notin {"credit", "commit"} => sourceVersion[p] = Unwritten
        /\ pc[p] # "commit" => destVersion[p] = Unwritten

\* A key is used by the committed transfer that brought it, or held by one
\* transaction, never both and never twice.
KeyState(p) ==
    /\ pc[p] = "key" => req[p].key # NoKey
    /\ pc[p] # "done" => outcome[p] = "none"
    /\ Committed(p) => req[p] \in Requests
    /\ Committed(p) /\ req[p].key # NoKey => req[p].key \in keys
    /\ pc[p] \in InTransaction \ {"key"} => req[p].key \notin keys

KeyInv ==
    /\ \A p \in Attempts : KeyState(p)
    /\ \A p, q \in Attempts : \A k \in Keys :
           HoldsKey(p, k) /\ HoldsKey(q, k) => p = q

IInv ==
    /\ TypeOK
    /\ RequestInv
    /\ LockInv
    /\ VersionInv
    /\ KeyInv
    /\ NoOverdraft
    /\ KeyOnce

-----------------------------------------------------------------------------
\* The transfer path implements the atomic ledger: each commit is one movement
\* along an allowed route, paid by its source unless the driver hides that the
\* debit matched no row; every other step leaves the money alone.
ImplementsMoneyLedger == Port!Spec

\* Every submitted transfer ends: crossed transfers and transfers that wait
\* for the same key do not wait for each other forever.
EveryTransferEnds ==
    \A p \in Attempts : pc[p] # "idle" ~> pc[p] = "done"
=============================================================================
