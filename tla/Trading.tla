------------------------------- MODULE Trading -------------------------------
(***************************************************************************)
(* The trading desk: POST /trading/orders, from the lookup of the asset to *)
(* the COMMIT of the transaction, one action per statement, with the       *)
(* director's catalogue and the deletion of users running beside it.       *)
(*                                                                         *)
(* The catalogue and the quote are read before the transaction starts.     *)
(* Inside it the account row is locked first, so the in-memory entities    *)
(* that save() writes back are still what the table holds.  Money is in    *)
(* cents, quantities are whole units of 1/Scale (numeric(20,8) in the      *)
(* schema).  A quote is any price the market or the fallback table gives;  *)
(* two reads of it may differ.  An order has no idempotency key: a retry   *)
(* is another order.                                                       *)
(***************************************************************************)
EXTENDS Integers, FiniteSets, FiniteSetsExt, Functions

CONSTANTS
    Accounts,       \* account rows of every kind
    Portfolios,     \* those that are investment accounts
    Owner,          \* Owner[a]: user_id of the row
    Opening,        \* Opening[a]: the balance at the start
    Assets,
    Supported,      \* assets of type stock, crypto or etf
    Held,           \* Held[a][x]: position rows at the start
    Prices,         \* prices in cents
    Units,          \* quantities of orders
    Scale,          \* units of quantity in one whole share or coin
    Orders,         \* executions of the handler
    Lockers, Free,  \* who may lock an account row; the row is not locked
    OrderRequests,  \* the request bodies clients send
    NoOrder,        \* no request yet, or no row in trading_orders
    Unread          \* the transaction has not read or written the row

\* market: orderType = 'market'; priced: the body carries a price.
OrderRequest ==
    [user: {Owner[a] : a \in Accounts}, account: Portfolios, asset: Assets,
     side: {"buy", "sell"}, units: Units, market: BOOLEAN, priced: BOOLEAN]

\* A row of trading_positions; quantity 0 stands for the absence of the row.
Position == [quantity: Nat, average: Nat]

\* A row of trading_orders.
BookRow == [request: OrderRequests, status: {"executed", "pending"},
            price: Prices \cup {0}]

ASSUME PortfolioAssumption ==
    /\ Portfolios \subseteq Accounts
    /\ Opening \in [Accounts -> Nat]
    /\ Supported \subseteq Assets
    /\ Held \in [Portfolios -> [Assets -> Position]]

ASSUME MarketAssumption ==
    /\ Prices \subseteq Nat \ {0}
    /\ Units \subseteq Nat \ {0}
    /\ Scale \in Nat \ {0}

ASSUME OrdersAssumption ==
    /\ Orders \subseteq Lockers
    /\ Free \notin Lockers
    /\ OrderRequests \subseteq OrderRequest
    /\ NoOrder \notin OrderRequest \cup BookRow
    /\ Unread \notin Int

VARIABLES
    cash,           \* cash_balance of each row, as committed
    live,           \* account rows that exist
    lock,           \* lock[a]: the transaction that holds the row lock
    position,       \* position[a][x]: rows of trading_positions
    worth,          \* worth[a]: total_value and total_gain_loss of a
    book,           \* book[o]: the row of trading_orders that o committed
    offered,        \* assets the director proposes
    stage,          \* stage[o]: the next step of order o
    order,          \* order[o]: the request o executes
    quote,          \* quote[o]: the execution price o has fetched
    account,        \* account[o]: cash of the account entity in memory
    row             \* row[o]: the position entity in memory

deskVars == <<position, worth, book>>
vars == <<cash, live, lock, position, worth, book, offered, stage, order,
          quote, account, row>>

Stages == {"idle", "quote", "lock", "position", "write", "commit",
           "executed", "pending", "refused", "error"}
InTransaction == {"lock", "position", "write", "commit"}
Ended == {"executed", "pending", "refused", "error"}

NoRow == [quantity |-> 0, average |-> 0]

-----------------------------------------------------------------------------
(* Amounts.                                                                *)

RoundedRatio(n, d) == (2 * n + d) \div (2 * d)

\* Mutant: the amount is cut down to the cent below.
AmountTruncated(price, units) == (price * units) \div Scale

\* The amount of an execution, rounded half up to the cent.
Amount(price, units) == RoundedRatio(price * units, Scale)

\* Mutant: a sale is not checked against the quantity held.
AllowedShort(r, price, money, held) ==
    r.side = "buy" => money >= Amount(price, r.units)

\* validateMarketExecution.
Allowed(r, price, money, held) ==
    IF r.side = "buy" THEN money >= Amount(price, r.units)
    ELSE held >= r.units

\* Mutant: the average forgets the quantity already held.
BoughtUnweighted(old, units, price) ==
    [quantity |-> old.quantity + units,
     average |-> RoundedRatio(old.average * old.quantity + price * units, units)]

Bought(old, units, price) ==
    IF old.quantity = 0 THEN [quantity |-> units, average |-> price]
    ELSE [quantity |-> old.quantity + units,
          average |-> RoundedRatio(old.average * old.quantity + price * units,
                                   old.quantity + units)]

\* A position that is sold out is removed.
Sold(old, units) ==
    IF old.quantity = units THEN NoRow
    ELSE [old EXCEPT !.quantity = @ - units]

\* Market value and cost of the positions of a portfolio; assets that are not
\* supported are valued at what they cost.
MarketValue(rows, display) ==
    MapThenSumSet(LAMBDA x : rows[x].quantity *
                      (IF x \in Supported THEN display[x] ELSE rows[x].average),
                  Assets)
Cost(rows) == MapThenSumSet(LAMBDA x : rows[x].quantity * rows[x].average, Assets)

Valuation(money, rows, display) ==
    [total |-> money + RoundedRatio(MarketValue(rows, display), Scale),
     gain |-> RoundedRatio(MarketValue(rows, display) - Cost(rows), Scale)]

-----------------------------------------------------------------------------
(* The handler.                                                            *)

GoTo(o, s) == stage' = [stage EXCEPT ![o] = s]

\* Mutant: the transaction is left open.
ReleaseNothing(o) == UNCHANGED lock

Release(o) == lock' = [a \in Accounts |-> IF lock[a] = o THEN Free ELSE lock[a]]

Forget(o) ==
    /\ account' = [account EXCEPT ![o] = Unread]
    /\ row' = [row EXCEPT ![o] = NoRow]

\* A transaction that throws is rolled back.
Rollback(o, s) ==
    /\ GoTo(o, s)
    /\ Release(o)
    /\ Forget(o)
    /\ UNCHANGED <<cash, live, deskVars, offered, order, quote>>

\* The catalogue is read outside the transaction.
Place(o, r) ==
    /\ stage[o] = "idle"
    /\ order' = [order EXCEPT ![o] = r]
    /\ \/ /\ r.asset \in offered
          /\ r.market \/ r.priced
          /\ GoTo(o, "quote")
       \/ /\ ~(r.asset \in offered /\ (r.market \/ r.priced))
          /\ GoTo(o, "refused")
    /\ UNCHANGED <<cash, live, lock, deskVars, offered, quote, account, row>>

GetQuote(o) ==
    /\ stage[o] = "quote"
    /\ \E price \in Prices : quote' = [quote EXCEPT ![o] = price]
    /\ GoTo(o, "lock")
    /\ UNCHANGED <<cash, live, lock, deskVars, offered, order, account, row>>

\* Mutant: the account is read without a lock.
LockAccountUnlocked(o) ==
    LET a == order[o].account
    IN  /\ stage[o] = "lock"
        /\ a \in live /\ Owner[a] = order[o].user
        /\ account' = [account EXCEPT ![o] = cash[a]]
        /\ GoTo(o, IF order[o].market THEN "position" ELSE "commit")
        /\ UNCHANGED <<cash, live, lock, deskVars, offered, order, quote, row>>

\* SELECT ... FOR UPDATE on the account of the user.
LockAccount(o) ==
    LET a == order[o].account
    IN  /\ stage[o] = "lock"
        /\ \/ /\ a \notin live \/ Owner[a] # order[o].user
              /\ Rollback(o, "refused")
           \/ /\ a \in live /\ Owner[a] = order[o].user
              /\ lock[a] = Free
              /\ lock' = [lock EXCEPT ![a] = o]
              /\ account' = [account EXCEPT ![o] = cash[a]]
              /\ GoTo(o, IF order[o].market THEN "position" ELSE "commit")
              /\ UNCHANGED <<cash, live, deskVars, offered, order, quote, row>>

\* SELECT ... FOR UPDATE on the position, then the policy.  Every transaction
\* that reaches it holds the account row, so the position row is never waited
\* for and its own lock is left out.
ReadPosition(o) ==
    LET r == order[o]
        held == position[r.account][r.asset]
        allowed == Allowed(r, quote[o], account[o], held.quantity)
    IN  /\ stage[o] = "position"
        /\ \/ ~allowed /\ Rollback(o, "refused")
           \/ /\ allowed
              /\ row' = [row EXCEPT ![o] = held]
              /\ GoTo(o, "write")
              /\ UNCHANGED <<cash, live, lock, deskVars, offered, order, quote,
                             account>>

\* The entities in memory take their new values and the position is saved.
Write(o) ==
    LET r == order[o]
        amount == Amount(quote[o], r.units)
    IN  /\ stage[o] = "write"
        /\ \/ /\ r.side = "buy"
              /\ account' = [account EXCEPT ![o] = @ - amount]
              /\ row' = [row EXCEPT ![o] = Bought(@, r.units, quote[o])]
           \/ /\ r.side = "sell"
              /\ account' = [account EXCEPT ![o] = @ + amount]
              /\ row' = [row EXCEPT ![o] = Sold(@, r.units)]
        /\ GoTo(o, "commit")
        /\ UNCHANGED <<cash, live, lock, deskVars, offered, order, quote>>

\* The order, the valuation and the account are saved and COMMIT publishes all
\* of it.  The valuation reads the quotes the replica displays at that moment.
CommitMarket(o) ==
    LET r == order[o]
        rows == [position[r.account] EXCEPT ![r.asset] = row[o]]
    IN  /\ stage[o] = "commit" /\ r.market
        /\ book' = [book EXCEPT ![o] =
               [request |-> r, status |-> "executed", price |-> quote[o]]]
        /\ cash' = [cash EXCEPT ![r.account] = account[o]]
        /\ position' = [position EXCEPT ![r.account] = rows]
        /\ \E display \in [Supported -> Prices] :
               worth' = [worth EXCEPT ![r.account] =
                             Valuation(account[o], rows, display)]
        /\ Release(o)
        /\ Forget(o)
        /\ GoTo(o, "executed")
        /\ UNCHANGED <<live, offered, order, quote>>

\* A limit or stop order is stored and left alone: nothing executes it later.
CommitPending(o) ==
    /\ stage[o] = "commit" /\ ~order[o].market
    /\ book' = [book EXCEPT ![o] =
           [request |-> order[o], status |-> "pending", price |-> 0]]
    /\ Release(o)
    /\ Forget(o)
    /\ GoTo(o, "pending")
    /\ UNCHANGED <<cash, live, position, worth, offered, order, quote>>

\* The replica or its connection dies inside the transaction.
Abort(o) == stage[o] \in InTransaction /\ Rollback(o, "error")

\* The director proposes or withdraws an asset, with no lock.
UpdateManagedAsset(x) ==
    /\ x \in Supported
    /\ offered' = IF x \in offered THEN offered \ {x} ELSE offered \cup {x}
    /\ UNCHANGED <<cash, live, lock, deskVars, stage, order, quote, account, row>>

\* What the deletion of user u cascades to here.
Cascade(u) ==
    LET gone == {a \in live : Owner[a] = u}
    IN  /\ position' = [a \in Portfolios |->
               IF a \in gone THEN [x \in Assets |-> NoRow] ELSE position[a]]
        /\ book' = [o \in Orders |->
               IF book[o] # NoOrder /\ book[o].request.account \in gone
               THEN NoOrder ELSE book[o]]
        /\ UNCHANGED worth

DeleteUser(u) ==
    LET gone == {a \in live : Owner[a] = u}
    IN  /\ gone # {}
        /\ \A a \in gone : lock[a] = Free
        /\ live' = live \ gone
        /\ Cascade(u)
        /\ UNCHANGED <<cash, lock, offered, stage, order, quote, account, row>>

-----------------------------------------------------------------------------
Init ==
    /\ cash = Opening
    /\ live = Accounts
    /\ lock = [a \in Accounts |-> Free]
    /\ position = Held
    /\ worth = [a \in Portfolios |->
           Valuation(Opening[a], Held[a], [x \in Supported |-> Held[a][x].average])]
    /\ book = [o \in Orders |-> NoOrder]
    /\ offered = Supported
    /\ stage = [o \in Orders |-> "idle"]
    /\ order = [o \in Orders |-> NoOrder]
    /\ quote = [o \in Orders |-> 0]
    /\ account = [o \in Orders |-> Unread]
    /\ row = [o \in Orders |-> NoRow]

\* A step the code takes by itself once the order has been placed.
Proceed(o) ==
    \/ GetQuote(o)
    \/ LockAccount(o)
    \/ ReadPosition(o)
    \/ Write(o)
    \/ CommitMarket(o)
    \/ CommitPending(o)

\* Everything the desk does, the deletion of users apart.
DeskNext ==
    \/ \E o \in Orders : \E r \in OrderRequests : Place(o, r)
    \/ \E o \in Orders : Proceed(o)
    \/ \E o \in Orders : Abort(o)
    \/ \E x \in Assets : UpdateManagedAsset(x)

Next == DeskNext \/ \E a \in Accounts : DeleteUser(Owner[a])

Spec == Init /\ [][Next]_vars

-----------------------------------------------------------------------------
(* Properties.                                                             *)

\* The type of every variable that orders compute with.
TypeOK ==
    /\ cash \in [Accounts -> Int]
    /\ live \subseteq Accounts
    /\ lock \in [Accounts -> Lockers \cup {Free}]
    /\ position \in [Portfolios -> [Assets -> [quantity: Int, average: Int]]]
    /\ book \in [Orders -> BookRow \cup {NoOrder}]
    /\ offered \subseteq Supported
    /\ stage \in [Orders -> Stages]
    /\ order \in [Orders -> OrderRequests \cup {NoOrder}]
    /\ quote \in [Orders -> Prices \cup {0}]
    /\ account \in [Orders -> Int \cup {Unread}]
    /\ row \in [Orders -> [quantity: Int, average: Int]]

\* The executed orders of portfolio a, what they cost, those on asset x and their units.
Executed(a) ==
    {o \in Orders : /\ book[o] # NoOrder
                    /\ book[o].status = "executed"
                    /\ book[o].request.account = a}

Signed(o, value) == IF book[o].request.side = "buy" THEN value ELSE -value

Spent(a) ==
    SumFunction([o \in Executed(a) |->
                     Signed(o, Amount(book[o].price, book[o].request.units))])

ExecutedOn(a, x) == {o \in Executed(a) : book[o].request.asset = x}

Acquired(a, x) ==
    SumFunction([o \in ExecutedOn(a, x) |-> Signed(o, book[o].request.units)])

\* The executed orders explain the cash and every position, which exists at
\* most once per asset: no order that was executed concurrently was forgotten
\* by the account or the position another order had in memory, and an order
\* that failed or is pending has moved nothing (createOrder).
BookExplained ==
    \A a \in Portfolios \cap live :
        /\ cash[a] = Opening[a] - Spent(a)
        /\ \A x \in Assets :
               position[a][x].quantity = Held[a][x].quantity + Acquired(a, x)

\* Nothing is bought on credit and nothing is sold short, however many orders
\* compete for the same cash and the same position (validateMarketExecution).
NeverOnCreditNorShort ==
    \A a \in Portfolios :
        /\ cash[a] >= 0
        /\ \A x \in Assets : position[a][x].quantity >= 0

\* The average purchase price of a position stays between the lowest and the
\* highest price it was ever bought at, rounded or not (buy).
AverageWithinPrices ==
    \A a \in Portfolios, x \in Assets :
        LET paid == Prices \cup {Held[a][x].average}
        IN  position[a][x].quantity > 0 =>
                /\ \E low \in paid : low <= position[a][x].average
                /\ \E high \in paid : position[a][x].average <= high

\* The answer to an order and the table agree: exactly the orders answered
\* "executed" or "pending" have a row, as long as the account exists.
AnswersMatchBook ==
    \A o \in Orders :
        /\ book[o] # NoOrder => stage[o] = book[o].status
        /\ stage[o] \in {"executed", "pending"} /\ order[o].account \in live
               => book[o] # NoOrder

\* Cash, positions, prices and answers all tell of the same orders, however many
\* compete, fail or are rolled back (createOrder).
BookHolds == BookExplained /\ AverageWithinPrices /\ AnswersMatchBook

Floor == INSTANCE Brokerage
    WITH Held <- [a \in Portfolios |-> [x \in Assets |-> Held[a][x].quantity]],
         quantity <- [a \in Portfolios |->
                          [x \in Assets |-> position[a][x].quantity]]

-----------------------------------------------------------------------------
(* The inductive invariant: why the properties above hold.                 *)

\* What order o read before its transaction is what it runs with.
RequestKept(o) ==
    /\ stage[o] \in {"quote"} \cup InTransaction => order[o] \in OrderRequests
    /\ stage[o] \in InTransaction => quote[o] \in Prices
    /\ stage[o] \in {"position", "write"} => order[o].market

\* From its SELECT ... FOR UPDATE to its end o holds its account row.
HoldsAccount(o) ==
    stage[o] \in {"position", "write", "commit"} =>
        /\ order[o].account \in live
        /\ lock[order[o].account] = o

\* The entities of o in memory are what the table holds, moved by the execution.
MemoryCurrent(o) ==
    LET r == order[o]
        money == cash[r.account]
        old == position[r.account][r.asset]
        amount == Amount(quote[o], r.units)
    IN  /\ stage[o] \in {"position", "write"} => account[o] = money
        /\ stage[o] = "write" =>
               row[o] = old /\ Allowed(r, quote[o], money, old.quantity)
        /\ stage[o] = "commit" /\ r.market =>
               /\ Allowed(r, quote[o], money, old.quantity)
               /\ r.side = "buy" => /\ account[o] = money - amount
                                    /\ row[o] = Bought(old, r.units, quote[o])
               /\ r.side = "sell" => /\ account[o] = money + amount
                                     /\ row[o] = Sold(old, r.units)

OrderState(o) == RequestKept(o) /\ HoldsAccount(o) /\ MemoryCurrent(o)

IInv ==
    /\ TypeOK
    /\ \A o \in Orders : OrderState(o)
    /\ NeverOnCreditNorShort

-----------------------------------------------------------------------------
\* The desk implements the brokerage: each executed order is one exchange at
\* one price, every other step leaves cash and holdings alone.
ImplementsBrokerage == Floor!Spec

\* Every order that was placed is answered.
EveryOrderEnds == \A o \in Orders : stage[o] # "idle" ~> stage[o] \in Ended
=============================================================================
