---------------------------- MODULE TradingProofs ----------------------------
(***************************************************************************)
(* Proofs about Trading: the inductive invariant, the safety properties    *)
(* that follow from it, and the refinement of Brokerage.                   *)
(***************************************************************************)
EXTENDS Trading, Sums, TLAPS

\* Rounding an amount keeps it a natural number of cents.
LEMMA AmountNat ==
    ASSUME NEW price \in Prices, NEW units \in Units
    PROVE  Amount(price, units) \in Nat
<1> DEFINE n == 2 * (price * units) + Scale
           d == 2 * Scale
<1>1. price \in Nat /\ units \in Nat /\ Scale \in Nat /\ Scale > 0
    BY MarketAssumption
<1>2. price * units \in Nat
    BY <1>1
<1>3. n \in Nat /\ d \in Nat /\ d > 0
    BY <1>1, <1>2
<1> HIDE DEF n, d
<1>4. n \div d \in Nat
    BY <1>3
<1> QED
    BY <1>4 DEF Amount, RoundedRatio, n, d

\* Rounded ratios are integers.
LEMMA RatioInt ==
    ASSUME NEW n \in Int, NEW d \in Nat, d > 0
    PROVE  RoundedRatio(n, d) \in Int
<1>1. 2 * n + d \in Int /\ 2 * d \in Nat /\ 2 * d > 0
    OBVIOUS
<1> QED
    BY <1>1 DEF RoundedRatio

\* Quantities are positive.
LEMMA UnitsPositive ==
    ASSUME NEW u \in Units
    PROVE  u \in Nat /\ u > 0
<1>1. u \in Nat /\ u # 0
    BY MarketAssumption
<1> QED
    BY <1>1

\* What an accepted request names.
LEMMA RequestFacts ==
    ASSUME NEW r \in OrderRequests
    PROVE  /\ r.account \in Portfolios /\ r.account \in Accounts
           /\ r.asset \in Assets /\ r.units \in Units /\ r.units \in Nat
           /\ r.units > 0 /\ r.side \in {"buy", "sell"}
<1>1. r \in OrderRequest
    BY OrdersAssumption
<1>2. /\ r.account \in Portfolios /\ r.asset \in Assets /\ r.units \in Units
      /\ r.side \in {"buy", "sell"}
    BY <1>1 DEF OrderRequest
<1>3. r.account \in Accounts
    BY <1>2, PortfolioAssumption
<1>4. r.units \in Nat /\ r.units > 0
    BY <1>2, UnitsPositive
<1> QED
    BY <1>2, <1>3, <1>4

\* The constants, as the provers need them.
LEMMA ConstantFacts ==
    /\ Portfolios \subseteq Accounts
    /\ Opening \in [Accounts -> Nat]
    /\ Orders \subseteq Lockers
    /\ Free \notin Lockers
    /\ NoOrder \notin OrderRequests
    /\ Prices \subseteq Nat
    /\ Supported \subseteq Assets
    BY PortfolioAssumption, OrdersAssumption, MarketAssumption

\* The position an execution leaves is a row with the quantity it should have.
LEMMA BoughtFacts ==
    ASSUME NEW old \in [quantity: Int, average: Int], old.quantity >= 0,
           NEW units \in Nat, units > 0, NEW price \in Nat
    PROVE  /\ Bought(old, units, price) \in [quantity: Int, average: Int]
           /\ Bought(old, units, price).quantity = old.quantity + units
<1>1. CASE old.quantity = 0
    BY <1>1 DEF Bought
<1>2. CASE old.quantity # 0
<2> DEFINE n == old.average * old.quantity + price * units
           q == old.quantity + units
<2>1. n \in Int /\ q \in Nat /\ q > 0
    OBVIOUS
<2> HIDE DEF n
<2>2. RoundedRatio(n, q) \in Int
    BY <2>1, RatioInt
<2>3. Bought(old, units, price) = [quantity |-> q, average |-> RoundedRatio(n, q)]
    BY <1>2 DEF Bought, n
<2> QED
    BY <2>1, <2>2, <2>3
<1> QED
    BY <1>1, <1>2

\* Selling takes the units off the position.
LEMMA SoldFacts ==
    ASSUME NEW old \in [quantity: Int, average: Int], NEW units \in Nat
    PROVE  /\ Sold(old, units) \in [quantity: Int, average: Int]
           /\ Sold(old, units).quantity = old.quantity - units
    BY DEF Sold, NoRow

\* The opening positions and cash, no order yet.
LEMMA InitInv == Init => IInv
<1> SUFFICES ASSUME Init PROVE IInv
    OBVIOUS
<1>1. TypeOK
    BY ConstantFacts, PortfolioAssumption
       DEF Init, TypeOK, Stages, NoRow, Position
<1>2. \A o \in Orders : OrderState(o)
    BY DEF Init, OrderState, RequestKept, HoldsAccount, MemoryCurrent,
           InTransaction
<1>3. NeverOnCreditNorShort
    BY ConstantFacts, PortfolioAssumption DEF Init, NeverOnCreditNorShort, Position
<1> QED
    BY <1>1, <1>2, <1>3 DEF IInv

\* A step of o that publishes nothing keeps what every other order relies on.
Others(o) ==
    /\ UNCHANGED <<cash, live, position>>
    /\ \A p \in Orders \ {o} :
           /\ stage'[p] = stage[p] /\ order'[p] = order[p] /\ quote'[p] = quote[p]
           /\ account'[p] = account[p] /\ row'[p] = row[p]
           /\ \A a \in Accounts : lock[a] = p => lock'[a] = p

\* ... so that only what it does for o itself is left to show.
LEMMA PrivateStep ==
    ASSUME IInv, NEW o \in Orders, Others(o), TypeOK', OrderState(o)'
    PROVE  IInv'
<1>1. ASSUME NEW p \in Orders \ {o}
      PROVE  OrderState(p)'
<2>1. OrderState(p)
    BY DEF IInv
<2>2. stage[p] \in {"position", "write", "commit"} => order[p].account \in Accounts
    BY <2>1 DEF IInv, TypeOK, OrderState, HoldsAccount
<2>3. RequestKept(p)'
    BY <2>1 DEF OrderState, RequestKept, Others
<2>4. HoldsAccount(p)'
    BY <2>1, <2>2 DEF OrderState, HoldsAccount, Others
<2>5. MemoryCurrent(p)'
    BY <2>1 DEF OrderState, MemoryCurrent, Others
<2> QED
    BY <2>3, <2>4, <2>5 DEF OrderState
<1>2. NeverOnCreditNorShort'
    BY DEF IInv, NeverOnCreditNorShort, Others
<1> QED
    BY <1>1, <1>2 DEF IInv

\* A rollback leaves every row as it was committed.
LEMMA RollbackInv ==
    ASSUME IInv, NEW o \in Orders, NEW s \in {"refused", "error"}, Rollback(o, s)
    PROVE  IInv'
<1> USE DEF Rollback, GoTo, Release, Forget, deskVars
<1>1. TypeOK'
    BY ConstantFacts DEF IInv, TypeOK, Stages, NoRow
<1>2. Others(o)
    BY DEF IInv, TypeOK, Others
<1>3. stage'[o] = s
    BY DEF IInv, TypeOK
<1>4. OrderState(o)'
    BY <1>3 DEF OrderState, RequestKept, HoldsAccount, MemoryCurrent, InTransaction
<1> QED
    BY <1>1, <1>2, <1>4, PrivateStep

\* A new order asks for what an order may ask for.
LEMMA PlaceInv ==
    ASSUME IInv, NEW o \in Orders, NEW r \in OrderRequests, Place(o, r)
    PROVE  IInv'
<1> USE DEF Place, GoTo, deskVars
<1>1. TypeOK'
    BY DEF IInv, TypeOK, Stages
<1>2. Others(o)
    BY DEF IInv, TypeOK, Others
<1>3. stage'[o] \in {"quote", "refused"} /\ order'[o] = r
    BY DEF IInv, TypeOK
<1>4. OrderState(o)'
    BY <1>3 DEF OrderState, RequestKept, HoldsAccount, MemoryCurrent, InTransaction
<1> QED
    BY <1>1, <1>2, <1>4, PrivateStep

\* The quote an order trades at is one of the prices.
LEMMA GetQuoteInv ==
    ASSUME IInv, NEW o \in Orders, GetQuote(o)
    PROVE  IInv'
<1> USE DEF GetQuote, GoTo, deskVars
<1>1. TypeOK'
    BY DEF IInv, TypeOK, Stages
<1>2. Others(o)
    BY DEF IInv, TypeOK, Others
<1>3. stage'[o] = "lock" /\ quote'[o] \in Prices /\ order'[o] \in OrderRequests
    BY DEF IInv, TypeOK, OrderState, RequestKept
<1>4. OrderState(o)'
    BY <1>3 DEF OrderState, RequestKept, HoldsAccount, MemoryCurrent, InTransaction
<1> QED
    BY <1>1, <1>2, <1>4, PrivateStep

\* FOR UPDATE: one order at a time goes past the lock of its account.
LEMMA LockAccountInv ==
    ASSUME IInv, NEW o \in Orders, LockAccount(o)
    PROVE  IInv'
<1> DEFINE a == order[o].account
<1>1. /\ stage[o] = "lock" /\ order[o] \in OrderRequests /\ quote[o] \in Prices
      /\ a \in Accounts
    BY RequestFacts
       DEF LockAccount, IInv, OrderState, RequestKept, InTransaction
<1>2. CASE Rollback(o, "refused")
    BY <1>2, RollbackInv
<1>3. CASE /\ a \in live
           /\ lock[a] = Free
           /\ lock' = [lock EXCEPT ![a] = o]
           /\ account' = [account EXCEPT ![o] = cash[a]]
           /\ GoTo(o, IF order[o].market THEN "position" ELSE "commit")
           /\ UNCHANGED <<cash, live, deskVars, offered, order, quote, row>>
<2> USE <1>1, <1>3 DEF GoTo, deskVars
<2>1. TypeOK'
    BY ConstantFacts DEF IInv, TypeOK, Stages
<2>2. Others(o)
    BY ConstantFacts DEF IInv, TypeOK, Others
<2>3. /\ stage'[o] = IF order[o].market THEN "position" ELSE "commit"
      /\ lock'[a] = o /\ account'[o] = cash[a]
    BY DEF IInv, TypeOK
<2>4. OrderState(o)'
    BY <2>3 DEF OrderState, RequestKept, HoldsAccount, MemoryCurrent, InTransaction
<2> QED
    BY <2>1, <2>2, <2>4, PrivateStep
<1> QED
    BY <1>2, <1>3 DEF LockAccount

\* What a transaction read of its position is the position while it holds the
\* lock.
LEMMA ReadPositionInv ==
    ASSUME IInv, NEW o \in Orders, ReadPosition(o)
    PROVE  IInv'
<1> DEFINE r == order[o]
           held == position[r.account][r.asset]
           allowed == Allowed(r, quote[o], account[o], held.quantity)
<1>1. /\ stage[o] = "position" /\ OrderState(o) /\ r \in OrderRequests
      /\ r.account \in Portfolios /\ r.asset \in Assets
    BY RequestFacts
       DEF ReadPosition, IInv, OrderState, RequestKept, InTransaction
<1>2. CASE Rollback(o, "refused")
    BY <1>2, RollbackInv
<1>3. CASE /\ allowed
           /\ row' = [row EXCEPT ![o] = held]
           /\ GoTo(o, "write")
           /\ UNCHANGED <<cash, live, lock, deskVars, offered, order, quote,
                          account>>
<2> USE <1>1, <1>3 DEF GoTo, deskVars
<2>1. TypeOK'
    BY DEF IInv, TypeOK, Stages
<2>2. Others(o)
    BY DEF IInv, TypeOK, Others
<2>3. stage'[o] = "write" /\ row'[o] = held
    BY DEF IInv, TypeOK
<2>4. OrderState(o)'
    BY <2>3 DEF OrderState, RequestKept, HoldsAccount, MemoryCurrent, InTransaction
<2> QED
    BY <2>1, <2>2, <2>4, PrivateStep
<1> QED
    BY <1>2, <1>3 DEF ReadPosition

\* What the transaction writes is the trade at the price and the units of its
\* order.
LEMMA WriteInv ==
    ASSUME IInv, NEW o \in Orders, Write(o)
    PROVE  IInv'
<1> DEFINE r == order[o]
           held == position[r.account][r.asset]
           amount == Amount(quote[o], r.units)
<1>1. /\ stage[o] = "write" /\ OrderState(o) /\ r \in OrderRequests
      /\ quote[o] \in Prices /\ r.account \in Portfolios /\ r.asset \in Assets
      /\ r.account \in Accounts /\ r.units \in Units /\ r.market
    BY RequestFacts
       DEF Write, IInv, OrderState, RequestKept, InTransaction
<1>2. /\ amount \in Nat /\ quote[o] \in Nat /\ r.units \in Nat /\ r.units > 0
      /\ cash[r.account] \in Int
      /\ held \in [quantity: Int, average: Int] /\ held.quantity >= 0
<2>1. amount \in Nat
    BY <1>1, AmountNat
<2>2. quote[o] \in Nat
    BY <1>1, ConstantFacts
<2>3. r.units \in Nat /\ r.units > 0
    BY <1>1, RequestFacts
<2>4. cash[r.account] \in Int /\ held \in [quantity: Int, average: Int]
    BY <1>1 DEF IInv, TypeOK
<2>5. held.quantity >= 0
    BY <1>1 DEF IInv, NeverOnCreditNorShort
<2> QED
    BY <2>1, <2>2, <2>3, <2>4, <2>5
<1>3. account[o] = cash[r.account] /\ row[o] = held
      /\ Allowed(r, quote[o], cash[r.account], held.quantity)
    BY <1>1 DEF OrderState, MemoryCurrent
<1>4. /\ stage' = [stage EXCEPT ![o] = "commit"]
      /\ UNCHANGED <<cash, live, lock, position, worth, book, offered, order, quote>>
    BY DEF Write, GoTo, deskVars
<1>5. \/ /\ r.side = "buy"
         /\ account' = [account EXCEPT ![o] = cash[r.account] - amount]
         /\ row' = [row EXCEPT ![o] = Bought(held, r.units, quote[o])]
      \/ /\ r.side = "sell"
         /\ account' = [account EXCEPT ![o] = cash[r.account] + amount]
         /\ row' = [row EXCEPT ![o] = Sold(held, r.units)]
    BY <1>3 DEF Write, IInv, TypeOK
<1> HIDE DEF amount, held
<1>6. /\ Bought(held, r.units, quote[o]) \in [quantity: Int, average: Int]
      /\ Sold(held, r.units) \in [quantity: Int, average: Int]
    BY <1>2, BoughtFacts, SoldFacts
<1>7. TypeOK'
<2>1. account' \in [Orders -> Int \cup {Unread}]
    BY <1>2, <1>5 DEF IInv, TypeOK
<2>2. row' \in [Orders -> [quantity: Int, average: Int]]
    BY <1>5, <1>6 DEF IInv, TypeOK
<2> QED
    BY <1>4, <2>1, <2>2 DEF IInv, TypeOK, Stages
<1>8. Others(o)
    BY <1>4, <1>5 DEF IInv, TypeOK, Others
<1>9. /\ stage'[o] = "commit"
      /\ r.side = "buy" => /\ account'[o] = cash[r.account] - amount
                           /\ row'[o] = Bought(held, r.units, quote[o])
      /\ r.side = "sell" => /\ account'[o] = cash[r.account] + amount
                            /\ row'[o] = Sold(held, r.units)
    BY <1>4, <1>5 DEF IInv, TypeOK
<1>10. OrderState(o)'
    BY <1>1, <1>3, <1>4, <1>9
       DEF OrderState, RequestKept, HoldsAccount, MemoryCurrent, InTransaction,
           amount, held
<1> QED
    BY <1>7, <1>8, <1>10, PrivateStep

\* What the commit of a market order publishes is one purchase that could be
\* paid for, or one sale of what was held.
LEMMA CommitFacts ==
    ASSUME IInv, NEW o \in Orders, CommitMarket(o)
    PROVE  LET r == order[o]
               a == r.account
               x == r.asset
               amount == Amount(quote[o], r.units)
           IN  /\ r \in OrderRequests /\ quote[o] \in Prices /\ r.market
               /\ stage[o] = "commit" /\ r.units \in Nat
               /\ a \in Portfolios /\ a \in Accounts /\ a \in live /\ x \in Assets
               /\ lock[a] = o
               /\ amount \in Nat
               /\ row[o] \in [quantity: Int, average: Int]
               /\ cash' = [cash EXCEPT ![a] = account[o]]
               /\ position' = [position EXCEPT ![a][x] = row[o]]
               /\ \/ /\ r.side = "buy" /\ cash[a] >= amount
                     /\ account[o] = cash[a] - amount
                     /\ row[o].quantity = position[a][x].quantity + r.units
                  \/ /\ r.side = "sell" /\ position[a][x].quantity >= r.units
                     /\ account[o] = cash[a] + amount
                     /\ row[o].quantity = position[a][x].quantity - r.units
<1> DEFINE r == order[o]
           a == r.account
           x == r.asset
           amount == Amount(quote[o], r.units)
           old == position[a][x]
<1>1. stage[o] = "commit" /\ r.market /\ OrderState(o)
    BY DEF CommitMarket, IInv
<1>2. r \in OrderRequests /\ quote[o] \in Prices /\ a \in live /\ lock[a] = o
    BY <1>1 DEF OrderState, RequestKept, HoldsAccount, InTransaction
<1>3. /\ a \in Portfolios /\ a \in Accounts /\ x \in Assets
      /\ r.units \in Units /\ r.units \in Nat /\ r.units > 0
      /\ r.side \in {"buy", "sell"} /\ quote[o] \in Nat
    BY <1>2, RequestFacts, ConstantFacts
<1>4. amount \in Nat
    BY <1>2, <1>3, AmountNat
<1>5. old \in [quantity: Int, average: Int] /\ old.quantity >= 0
    BY <1>3 DEF IInv, TypeOK, NeverOnCreditNorShort
<1>6. /\ Allowed(r, quote[o], cash[a], old.quantity)
      /\ r.side = "buy" => /\ account[o] = cash[a] - amount
                           /\ row[o] = Bought(old, r.units, quote[o])
      /\ r.side = "sell" => /\ account[o] = cash[a] + amount
                            /\ row[o] = Sold(old, r.units)
    BY <1>1 DEF OrderState, MemoryCurrent
<1>7. /\ Bought(old, r.units, quote[o]).quantity = old.quantity + r.units
      /\ Sold(old, r.units).quantity = old.quantity - r.units
    BY <1>3, <1>5, BoughtFacts, SoldFacts
<1>8. \/ /\ r.side = "buy" /\ cash[a] >= amount
         /\ account[o] = cash[a] - amount
         /\ row[o].quantity = old.quantity + r.units
      \/ /\ r.side = "sell" /\ old.quantity >= r.units
         /\ account[o] = cash[a] + amount
         /\ row[o].quantity = old.quantity - r.units
    BY <1>3, <1>6, <1>7 DEF Allowed
<1>9. /\ cash' = [cash EXCEPT ![a] = account[o]]
      /\ position' = [position EXCEPT ![a] = [position[a] EXCEPT ![x] = row[o]]]
    BY DEF CommitMarket
<1>10. row[o] \in [quantity: Int, average: Int]
    BY DEF IInv, TypeOK
<1> QED
    BY <1>1, <1>2, <1>3, <1>4, <1>8, <1>9, <1>10

\* The commit of a market order moves cash and units together.
LEMMA CommitMarketInv ==
    ASSUME IInv, NEW o \in Orders, CommitMarket(o)
    PROVE  IInv'
<1> DEFINE r == order[o]
           a == r.account
           x == r.asset
           amount == Amount(quote[o], r.units)
<1>1. /\ r \in OrderRequests /\ quote[o] \in Prices /\ r.market
      /\ stage[o] = "commit" /\ r.units \in Nat
      /\ a \in Portfolios /\ a \in Accounts /\ a \in live /\ x \in Assets
      /\ lock[a] = o /\ amount \in Nat
      /\ row[o] \in [quantity: Int, average: Int]
      /\ cash' = [cash EXCEPT ![a] = account[o]]
      /\ position' = [position EXCEPT ![a][x] = row[o]]
    BY CommitFacts
<1>2. \/ /\ r.side = "buy" /\ cash[a] >= amount
         /\ account[o] = cash[a] - amount
         /\ row[o].quantity = position[a][x].quantity + r.units
      \/ /\ r.side = "sell" /\ position[a][x].quantity >= r.units
         /\ account[o] = cash[a] + amount
         /\ row[o].quantity = position[a][x].quantity - r.units
    BY CommitFacts
<1>3. /\ cash[a] \in Int /\ cash[a] >= 0
      /\ position[a][x].quantity \in Int /\ position[a][x].quantity >= 0
    BY <1>1 DEF IInv, TypeOK, NeverOnCreditNorShort
<1> HIDE DEF amount
<1>4. account[o] \in Int /\ account[o] >= 0 /\ row[o].quantity >= 0
    BY <1>1, <1>2, <1>3
<1>5. /\ cash' \in [Accounts -> Int]
      /\ position' \in [Portfolios -> [Assets -> [quantity: Int, average: Int]]]
    BY <1>1, <1>4 DEF IInv, TypeOK
<1>6. book' \in [Orders -> BookRow \cup {NoOrder}]
<2>1. [request |-> r, status |-> "executed", price |-> quote[o]] \in BookRow
    BY <1>1 DEF BookRow
<2> QED
    BY <2>1 DEF CommitMarket, IInv, TypeOK
<1>7. TypeOK'
    BY <1>5, <1>6, ConstantFacts
       DEF IInv, TypeOK, CommitMarket, GoTo, Release, Forget, Stages, NoRow
<1>8. NeverOnCreditNorShort'
    BY <1>1, <1>4, ConstantFacts DEF IInv, NeverOnCreditNorShort, TypeOK
<1>9. OrderState(o)'
<2>1. stage'[o] = "executed"
    BY DEF CommitMarket, GoTo, IInv, TypeOK
<2> QED
    BY <2>1 DEF OrderState, RequestKept, HoldsAccount, MemoryCurrent, InTransaction
<1>10. ASSUME NEW p \in Orders \ {o}
       PROVE  OrderState(p)'
<2>1. OrderState(p)
    BY DEF IInv
<2>2. /\ stage'[p] = stage[p] /\ order' = order /\ quote' = quote /\ live' = live
      /\ account'[p] = account[p] /\ row'[p] = row[p]
    BY DEF CommitMarket, GoTo, Forget, IInv, TypeOK
<2>3. stage[p] \in {"position", "write", "commit"} =>
          order[p].account \in Accounts /\ order[p].account # a
    BY <2>1, <1>1 DEF IInv, TypeOK, OrderState, HoldsAccount
<2>4. RequestKept(p)'
    BY <2>1, <2>2 DEF OrderState, RequestKept
<2>5. HoldsAccount(p)'
    BY <2>1, <2>2, <2>3 DEF OrderState, HoldsAccount, CommitMarket, Release
<2>6. stage[p] \in {"position", "write", "commit"} =>
          /\ order[p].account \in Portfolios
          /\ cash'[order[p].account] = cash[order[p].account]
          /\ position'[order[p].account] = position[order[p].account]
    BY <1>1, <2>1, <2>3, RequestFacts
       DEF IInv, TypeOK, OrderState, RequestKept, InTransaction
<2>7. MemoryCurrent(p)'
    BY <2>1, <2>2, <2>6 DEF OrderState, MemoryCurrent
<2> QED
    BY <2>4, <2>5, <2>7 DEF OrderState
<1> QED
    BY <1>7, <1>8, <1>9, <1>10 DEF IInv

\* The commit of a pending order moves nothing.
LEMMA CommitPendingInv ==
    ASSUME IInv, NEW o \in Orders, CommitPending(o)
    PROVE  IInv'
<1> USE DEF CommitPending, GoTo, Release, Forget
<1>1. [request |-> order[o], status |-> "pending", price |-> 0] \in BookRow
    BY DEF IInv, OrderState, RequestKept, InTransaction, BookRow
<1>2. TypeOK'
    BY <1>1, ConstantFacts DEF IInv, TypeOK, Stages, NoRow
<1>3. Others(o)
    BY DEF IInv, TypeOK, Others
<1>4. stage'[o] = "pending"
    BY DEF IInv, TypeOK
<1>5. OrderState(o)'
    BY <1>4 DEF OrderState, RequestKept, HoldsAccount, MemoryCurrent, InTransaction
<1> QED
    BY <1>2, <1>3, <1>5, PrivateStep

\* The desk changes an asset's row, never a position.
LEMMA UpdateManagedAssetInv ==
    ASSUME IInv, NEW x, UpdateManagedAsset(x)
    PROVE  IInv'
<1> USE DEF UpdateManagedAsset, deskVars
<1>1. TypeOK'
    BY DEF IInv, TypeOK
<1>2. \A o \in Orders : OrderState(o)'
    BY DEF IInv, OrderState, RequestKept, HoldsAccount, MemoryCurrent
<1>3. NeverOnCreditNorShort'
    BY DEF IInv, NeverOnCreditNorShort
<1> QED
    BY <1>1, <1>2, <1>3 DEF IInv

\* The deletion of a user waits for the locks, so the rows an order has read
\* are still there when it commits.
LEMMA DeleteUserInv ==
    ASSUME IInv, NEW u, DeleteUser(u)
    PROVE  IInv'
<1> DEFINE gone == {a \in live : Owner[a] = u}
<1>1. /\ \A a \in gone : lock[a] = Free
      /\ live' = live \ gone
      /\ UNCHANGED <<cash, lock, offered, stage, order, quote, account, row>>
      /\ position' = [a \in Portfolios |->
             IF a \in gone THEN [x \in Assets |-> NoRow] ELSE position[a]]
    BY DEF DeleteUser, Cascade
<1>2. book' \in [Orders -> BookRow \cup {NoOrder}]
    BY DEF DeleteUser, Cascade, IInv, TypeOK
<1>3. TypeOK'
    BY <1>1, <1>2 DEF IInv, TypeOK, NoRow
<1>4. NeverOnCreditNorShort'
    BY <1>1 DEF IInv, NeverOnCreditNorShort, NoRow
<1>5. ASSUME NEW o \in Orders
      PROVE  OrderState(o)'
<2>1. OrderState(o)
    BY DEF IInv
<2>2. stage[o] \in {"position", "write", "commit"} =>
          /\ order[o].account \in Portfolios
          /\ order[o].account \notin gone
    BY <2>1, <1>1, RequestFacts, ConstantFacts
       DEF OrderState, RequestKept, HoldsAccount, InTransaction
<2>3. RequestKept(o)'
    BY <2>1, <1>1 DEF OrderState, RequestKept
<2>4. HoldsAccount(o)'
    BY <2>1, <2>2, <1>1 DEF OrderState, HoldsAccount
<2>5. stage[o] \in {"position", "write", "commit"} =>
          position'[order[o].account] = position[order[o].account]
    BY <2>2, <1>1
<2>6. MemoryCurrent(o)'
    BY <2>1, <2>5, <1>1 DEF OrderState, MemoryCurrent
<2> QED
    BY <2>3, <2>4, <2>6 DEF OrderState
<1> QED
    BY <1>3, <1>4, <1>5 DEF IInv

\* Every step keeps the invariant.
LEMMA NextInv == IInv /\ [Next]_vars => IInv'
<1> SUFFICES ASSUME IInv, [Next]_vars PROVE IInv'
    OBVIOUS
<1>1. ASSUME NEW o \in Orders, NEW r \in OrderRequests, Place(o, r) PROVE IInv'
    BY <1>1, PlaceInv
<1>2. ASSUME NEW o \in Orders, Proceed(o) PROVE IInv'
    BY <1>2, GetQuoteInv, LockAccountInv, ReadPositionInv, WriteInv,
       CommitMarketInv, CommitPendingInv DEF Proceed
<1>3. ASSUME NEW o \in Orders, Abort(o) PROVE IInv'
    BY <1>3, RollbackInv DEF Abort
<1>4. ASSUME NEW x \in Assets, UpdateManagedAsset(x) PROVE IInv'
    BY <1>4, UpdateManagedAssetInv
<1>5. ASSUME NEW a \in Accounts, DeleteUser(Owner[a]) PROVE IInv'
    BY <1>5, DeleteUserInv
<1>6. CASE UNCHANGED vars
    BY <1>6 DEF vars, deskVars, IInv, TypeOK, OrderState, RequestKept, HoldsAccount,
                MemoryCurrent, NeverOnCreditNorShort
<1> QED
    BY <1>1, <1>2, <1>3, <1>4, <1>5, <1>6 DEF Next, DeskNext

-----------------------------------------------------------------------------
\* The inductive invariant holds of every behaviour of the desk, for any
\* portfolios, assets, prices, scale and number of concurrent orders.
THEOREM InductiveInvariant == Spec => []IInv
<1>1. Init => IInv
    BY InitInv
<1>2. IInv /\ [Next]_vars => IInv'
    BY NextInv
<1> QED
    BY <1>1, <1>2, PTL DEF Spec

\* Nothing is bought on credit and nothing sold short: the account row an order
\* locks first also serialises the positions of the portfolio.
THEOREM NothingOnCreditNorShort == Spec => []NeverOnCreditNorShort
<1>1. IInv => NeverOnCreditNorShort
    BY DEF IInv
<1> QED
    BY <1>1, InductiveInvariant, PTL

-----------------------------------------------------------------------------
(* The average purchase price.                                             *)

\* A ratio between two integers rounds to something between them.
LEMMA RatioBetween ==
    ASSUME NEW n \in Int, NEW d \in Nat, d > 0, NEW low \in Int, NEW high \in Int,
           low * d <= n, n <= high * d
    PROVE  low <= RoundedRatio(n, d) /\ RoundedRatio(n, d) <= high
<1> DEFINE q == (2 * n + d) \div (2 * d)
<1>1. q \in Int /\ (2 * d) * q <= 2 * n + d /\ 2 * n + d < (2 * d) * (q + 1)
    OBVIOUS
<1> HIDE DEF q
<1>2. low <= q
<2> SUFFICES ASSUME q + 1 <= low PROVE FALSE
    BY <1>1
<2>1. (2 * d) * (q + 1) <= (2 * d) * low
    BY <1>1
<2>2. (2 * d) * low = 2 * (low * d)
    OBVIOUS
<2> QED
    BY <1>1, <2>1, <2>2
<1>3. q <= high
<2> SUFFICES ASSUME high + 1 <= q PROVE FALSE
    BY <1>1
<2>1. (2 * d) * (high + 1) <= (2 * d) * q
    BY <1>1
<2>2. (2 * d) * (high + 1) = 2 * (high * d) + 2 * d
    OBVIOUS
<2> QED
    BY <1>1, <2>1, <2>2
<1> QED
    BY <1>2, <1>3 DEF RoundedRatio, q

\* A weighted mean is above what both of its terms are above, and below likewise.
LEMMA MeanBetween ==
    ASSUME NEW x \in Int, NEW y \in Int, NEW p \in Nat, NEW q \in Nat, NEW b \in Int
    PROVE  /\ b <= x /\ b <= y => b * (p + q) <= x * p + y * q
           /\ x <= b /\ y <= b => x * p + y * q <= b * (p + q)
<1>1. b * (p + q) = b * p + b * q
    OBVIOUS
<1>2. /\ b <= x => b * p <= x * p
      /\ b <= y => b * q <= y * q
      /\ x <= b => x * p <= b * p
      /\ y <= b => y * q <= b * q
    OBVIOUS
<1>3. b * p \in Int /\ b * q \in Int /\ x * p \in Int /\ y * q \in Int
    OBVIOUS
<1> QED
    BY <1>1, <1>2, <1>3

\* What a position was ever bought at bounds its average.
Bounded(paid, average) ==
    /\ \E low \in paid : low <= average
    /\ \E high \in paid : average <= high

\* Buying more, at a price among them.
LEMMA BoughtBounded ==
    ASSUME NEW old \in [quantity: Int, average: Int], old.quantity >= 0,
           NEW units \in Nat, units > 0, NEW paid \in SUBSET Int, NEW price \in paid,
           old.quantity > 0 => Bounded(paid, old.average)
    PROVE  Bounded(paid, Bought(old, units, price).average)
<1>1. CASE old.quantity = 0
    BY <1>1 DEF Bought, Bounded
<1>2. CASE old.quantity # 0
<2> DEFINE d == old.quantity + units
           n == old.average * old.quantity + price * units
<2>1. PICK l \in paid, h \in paid : l <= old.average /\ old.average <= h
    BY <1>2 DEF Bounded
<2>2. PICK low \in {l, price} : low <= old.average /\ low <= price
    BY <2>1
<2>3. PICK high \in {h, price} : old.average <= high /\ price <= high
    BY <2>1
<2>4. n \in Int /\ d \in Nat /\ d > 0
    OBVIOUS
<2>5. low * d <= n /\ n <= high * d
    BY <2>1, <2>2, <2>3, MeanBetween
<2>6. Bought(old, units, price).average = RoundedRatio(n, d)
    BY <1>2 DEF Bought
<2> HIDE DEF n, d
<2>7. low <= RoundedRatio(n, d) /\ RoundedRatio(n, d) <= high
    BY <2>1, <2>2, <2>3, <2>4, <2>5, RatioBetween
<2> QED
    BY <2>1, <2>2, <2>3, <2>6, <2>7 DEF Bounded
<1> QED
    BY <1>1, <1>2

\* The average of a position as AverageWithinPrices has it.
LEMMA AverageForms ==
    AverageWithinPrices <=>
        \A a \in Portfolios, x \in Assets :
            position[a][x].quantity > 0 =>
                Bounded(Prices \cup {Held[a][x].average}, position[a][x].average)
    BY DEF AverageWithinPrices, Bounded

\* A commit buys at a price of the market, or leaves the average alone.
LEMMA AverageAtCommit ==
    ASSUME IInv, AverageWithinPrices, NEW o \in Orders, CommitMarket(o)
    PROVE  AverageWithinPrices'
<1> DEFINE r == order[o]
           a == r.account
           x == r.asset
           old == position[a][x]
           paid == Prices \cup {Held[a][x].average}
<1>1. /\ r \in OrderRequests /\ quote[o] \in Prices /\ stage[o] = "commit" /\ r.market
      /\ a \in Portfolios /\ x \in Assets /\ row[o] \in [quantity: Int, average: Int]
      /\ position' = [position EXCEPT ![a][x] = row[o]]
    BY CommitFacts
<1>2. /\ r.side \in {"buy", "sell"} /\ r.units \in Nat /\ r.units > 0
      /\ old \in [quantity: Int, average: Int] /\ old.quantity >= 0
      /\ paid \in SUBSET Int
<2>1. r.side \in {"buy", "sell"} /\ r.units \in Nat /\ r.units > 0
    BY <1>1, RequestFacts
<2>2. old \in [quantity: Int, average: Int] /\ old.quantity >= 0
    BY <1>1 DEF IInv, TypeOK, NeverOnCreditNorShort
<2>3. Held[a][x] \in Position
    BY <1>1, PortfolioAssumption
<2>4. Prices \subseteq Int /\ Held[a][x].average \in Int
    BY <2>3, MarketAssumption DEF Position
<2> QED
    BY <2>1, <2>2, <2>4
<1>3. old.quantity > 0 => Bounded(paid, old.average)
    BY <1>1, AverageForms
<1>4. /\ r.side = "buy" => row[o] = Bought(old, r.units, quote[o])
      /\ r.side = "sell" => row[o] = Sold(old, r.units) /\ old.quantity >= r.units
<2>1. OrderState(o)
    BY DEF IInv
<2> QED
    BY <1>1, <2>1 DEF OrderState, MemoryCurrent, Allowed
<1>5. row[o].quantity > 0 => Bounded(paid, row[o].average)
<2>1. CASE r.side = "buy"
    BY <1>1, <1>2, <1>3, <1>4, <2>1, BoughtBounded
<2>2. CASE r.side = "sell"
    BY <1>2, <1>3, <1>4, <2>2 DEF Sold, NoRow
<2> QED
    BY <1>2, <2>1, <2>2
<1> HIDE DEF paid
<1>6. ASSUME NEW b \in Portfolios, NEW y \in Assets, position'[b][y].quantity > 0
      PROVE  Bounded(Prices \cup {Held[b][y].average}, position'[b][y].average)
<2>1. CASE b = a /\ y = x
    BY <1>1, <1>5, <1>6, <2>1 DEF IInv, TypeOK, paid
<2>2. CASE ~(b = a /\ y = x)
<3>1. position'[b][y] = position[b][y]
    BY <1>1, <2>2 DEF IInv, TypeOK
<3> QED
    BY <1>6, <3>1, AverageForms
<2> QED
    BY <2>1, <2>2
<1> QED
    BY <1>6 DEF AverageWithinPrices, Bounded

\* A step of an order before its commit, of the director, or of nobody.
DeskQuiet ==
    \/ \E o \in Orders : \/ \E r \in OrderRequests : Place(o, r)
                         \/ GetQuote(o) \/ LockAccount(o) \/ ReadPosition(o) \/ Write(o)
                         \/ Abort(o)
    \/ \E x \in Assets : UpdateManagedAsset(x)
    \/ UNCHANGED vars

\* Every other step commits an order or deletes a user.
LEMMA NextForms ==
    ASSUME [Next]_vars
    PROVE  \/ DeskQuiet
           \/ \E o \in Orders : CommitMarket(o) \/ CommitPending(o)
           \/ \E a \in Accounts : DeleteUser(Owner[a])
    BY DEF Next, DeskNext, Proceed, DeskQuiet

\* Such a step publishes nothing.
LEMMA QuietKeepsRows == DeskQuiet => UNCHANGED <<live, position, book>>
    BY DEF DeskQuiet, Place, GetQuote, LockAccount, ReadPosition, Write, Abort, Rollback,
       UpdateManagedAsset, vars, deskVars

\* The average price of a position (buy) stays between the lowest and the highest price
\* it was bought at, rounding included, for any prices, quantities and scale.
THEOREM AveragesWithinPrices == Spec => []AverageWithinPrices
<1>1. Init => AverageWithinPrices
<2> SUFFICES ASSUME Init PROVE AverageWithinPrices
    OBVIOUS
<2>1. ASSUME NEW a \in Portfolios, NEW x \in Assets
      PROVE  Held[a][x].average <= Held[a][x].average
    BY PortfolioAssumption DEF Position
<2> QED
    BY <2>1 DEF Init, AverageWithinPrices
<1>2. IInv /\ AverageWithinPrices /\ [Next]_vars => AverageWithinPrices'
<2> SUFFICES ASSUME IInv, AverageWithinPrices, [Next]_vars PROVE AverageWithinPrices'
    OBVIOUS
<2>1. ASSUME UNCHANGED position PROVE AverageWithinPrices'
    BY <2>1 DEF AverageWithinPrices
<2>2. ASSUME NEW o \in Orders, CommitPending(o) PROVE AverageWithinPrices'
    BY <2>1, <2>2 DEF CommitPending
<2>3. ASSUME NEW a \in Accounts, DeleteUser(Owner[a]) PROVE AverageWithinPrices'
<3>1. ASSUME NEW b \in Portfolios, NEW x \in Assets
      PROVE  position'[b][x] = position[b][x] \/ position'[b][x].quantity = 0
    BY <2>3 DEF DeleteUser, Cascade, NoRow
<3>2. AverageWithinPrices' <=>
        \A b \in Portfolios, x \in Assets :
            position'[b][x].quantity > 0 =>
                Bounded(Prices \cup {Held[b][x].average}, position'[b][x].average)
    BY DEF AverageWithinPrices, Bounded
<3> QED
    BY <3>1, <3>2, AverageForms
<2> QED
    BY <2>1, <2>2, <2>3, NextForms, QuietKeepsRows, AverageAtCommit
<1> QED
    BY <1>1, <1>2, InductiveInvariant, PTL DEF Spec

-----------------------------------------------------------------------------
(* The answers and the rows of trading_orders.                             *)

\* A row is the one its order wrote.
RowsOfOrders == \A o \in Orders : book[o] # NoOrder => book[o].request = order[o]

AnswersHold == AnswersMatchBook /\ RowsOfOrders

\* An order that ends without a row is answered so.
LEMMA AnswersBeforeCommit ==
    ASSUME IInv, AnswersHold, DeskQuiet
    PROVE  AnswersHold'
<1> USE DEF AnswersHold
<1>1. stage \in [Orders -> Stages] /\ order \in [Orders -> OrderRequests \cup {NoOrder}]
    BY DEF IInv, TypeOK
<1>2. UNCHANGED <<live, book>>
    BY QuietKeepsRows
<1>3. \A p \in Orders : book[p] # NoOrder => stage[p] \in {"executed", "pending"}
    BY DEF IInv, TypeOK, BookRow, AnswersMatchBook
<1>4. ASSUME NEW p \in Orders
      PROVE  \/ stage'[p] = stage[p] /\ order'[p] = order[p]
             \/ stage[p] \notin {"executed", "pending"} /\ stage'[p] \notin {"executed", "pending"}
<2>1. ASSUME NEW o \in Orders, NEW r \in OrderRequests, Place(o, r)
      PROVE  /\ stage[o] = "idle" /\ stage'[o] \in {"quote", "refused"}
             /\ \A q \in Orders \ {o} : stage'[q] = stage[q] /\ order'[q] = order[q]
    BY <1>1, <2>1 DEF Place, GoTo
<2>2. ASSUME NEW o \in Orders,
             GetQuote(o) \/ LockAccount(o) \/ ReadPosition(o) \/ Write(o) \/ Abort(o)
      PROVE  /\ order' = order /\ stage[o] \in {"quote"} \cup InTransaction
             /\ stage'[o] \in InTransaction \cup {"refused", "error"}
             /\ \A q \in Orders \ {o} : stage'[q] = stage[q]
    BY <1>1, <2>2 DEF GetQuote, LockAccount, ReadPosition, Write, Abort, Rollback, GoTo,
       InTransaction
<2>3. ASSUME NEW x \in Assets, UpdateManagedAsset(x)
      PROVE  stage' = stage /\ order' = order
    BY <2>3 DEF UpdateManagedAsset
<2>4. CASE \E o \in Orders : \E r \in OrderRequests : Place(o, r)
    BY <2>1, <2>4
<2>5. CASE \E o \in Orders :
                GetQuote(o) \/ LockAccount(o) \/ ReadPosition(o) \/ Write(o) \/ Abort(o)
    BY <2>2, <2>5 DEF InTransaction
<2>6. CASE \E x \in Assets : UpdateManagedAsset(x)
    BY <2>3, <2>6
<2>7. CASE UNCHANGED vars
    BY <2>7 DEF vars
<2> QED
    BY <2>4, <2>5, <2>6, <2>7 DEF DeskQuiet
<1>5. RowsOfOrders'
    BY <1>2, <1>3, <1>4 DEF RowsOfOrders
<1>6. AnswersMatchBook'
    BY <1>2, <1>3, <1>4 DEF AnswersMatchBook
<1> QED
    BY <1>5, <1>6

\* A commit writes the row of its order, and the answer of that order only.
LEMMA AnswersAtCommit ==
    ASSUME IInv, AnswersHold, NEW o \in Orders, CommitMarket(o) \/ CommitPending(o)
    PROVE  AnswersHold'
<1> USE DEF AnswersHold
<1>1. /\ stage \in [Orders -> Stages] /\ book \in [Orders -> BookRow \cup {NoOrder}]
      /\ UNCHANGED <<live, order>>
      /\ order[o] \in OrderRequests
    BY DEF IInv, TypeOK, CommitMarket, CommitPending, OrderState, RequestKept, InTransaction
<1>2. PICK status \in {"executed", "pending"}, price \in Prices \cup {0} :
          /\ book' = [book EXCEPT ![o] =
                         [request |-> order[o], status |-> status, price |-> price]]
          /\ stage' = [stage EXCEPT ![o] = status]
<2>1. CASE CommitMarket(o)
<3>1. quote[o] \in Prices
    BY <2>1, CommitFacts
<3> QED
    BY <2>1, <3>1 DEF CommitMarket, GoTo
<2>2. CASE CommitPending(o)
    BY <2>2 DEF CommitPending, GoTo
<2> QED
    BY <2>1, <2>2
<1> DEFINE new == [request |-> order[o], status |-> status, price |-> price]
<1>3. new \in BookRow /\ new # NoOrder /\ new.request = order[o] /\ new.status = status
    BY <1>1, OrdersAssumption DEF BookRow
<1> HIDE DEF new
<1>4. book'[o] = new /\ stage'[o] = status
      /\ \A p \in Orders \ {o} : book'[p] = book[p] /\ stage'[p] = stage[p]
    BY <1>1, <1>2 DEF new
<1> QED
    BY <1>1, <1>3, <1>4 DEF AnswersMatchBook, RowsOfOrders

\* The deletion of a user takes the rows of the accounts that go.
LEMMA AnswersAtDeletion ==
    ASSUME AnswersHold, NEW u, DeleteUser(u)
    PROVE  AnswersHold'
<1> USE DEF AnswersHold
<1> DEFINE gone == {a \in live : Owner[a] = u}
<1>1. /\ live' = live \ gone /\ UNCHANGED <<stage, order>>
      /\ \A o \in Orders : book'[o] = IF book[o] # NoOrder /\ book[o].request.account \in gone
                                      THEN NoOrder ELSE book[o]
    BY DEF DeleteUser, Cascade
<1> HIDE DEF gone
<1> QED
    BY <1>1 DEF AnswersMatchBook, RowsOfOrders

\* The answers and the rows of the orders agree throughout.
LEMMA AnswersInvariant == Spec => []AnswersHold
<1>1. Init => AnswersHold
    BY DEF Init, AnswersHold, AnswersMatchBook, RowsOfOrders
<1>2. IInv /\ AnswersHold /\ [Next]_vars => AnswersHold'
    BY NextForms, AnswersBeforeCommit, AnswersAtCommit, AnswersAtDeletion
<1> QED
    BY <1>1, <1>2, InductiveInvariant, PTL DEF Spec

\* Exactly the orders answered "executed" or "pending" have their row in trading_orders,
\* as long as the account exists (createOrder), for any number of orders.
THEOREM AnswersAreBooked == Spec => []AnswersMatchBook
<1>1. AnswersHold => AnswersMatchBook
    BY DEF AnswersHold
<1> QED
    BY <1>1, AnswersInvariant, PTL

-----------------------------------------------------------------------------
(* What the executed orders add up to.                                     *)

Booked == {o \in Orders : book[o] # NoOrder}

\* The rows are finitely many, and they explain the cash and the positions.
BookKept == IsFiniteSet(Booked) /\ BookExplained

\* What a row of trading_orders adds to a sum is an integer.
LEMMA BookValues ==
    ASSUME TypeOK, NEW o \in Orders, book[o] # NoOrder
    PROVE  /\ Signed(o, Amount(book[o].price, book[o].request.units)) \in Int
           /\ Signed(o, book[o].request.units) \in Int
<1>1. book[o] \in BookRow
    BY DEF TypeOK
<1>2. book[o].price \in Int /\ book[o].request.units \in Int
<2>1. book[o].price \in Prices \cup {0} /\ book[o].request \in OrderRequests
    BY <1>1 DEF BookRow
<2>2. book[o].request.units \in Int
    BY <2>1, RequestFacts
<2>3. \A price \in Prices \cup {0} : price \in Int
    BY MarketAssumption
<2> QED
    BY <2>1, <2>2, <2>3
<1>3. Amount(book[o].price, book[o].request.units) \in Int
    BY <1>2, MarketAssumption, RatioInt DEF Amount
<1> QED
    BY <1>2, <1>3 DEF Signed

\* The executed orders of an account cost an integer number of cents.
LEMMA SpentInteger ==
    ASSUME TypeOK, IsFiniteSet(Booked), NEW a
    PROVE  Spent(a) \in Int
<1> DEFINE cost == [o \in Executed(a) |-> Signed(o, Amount(book[o].price, book[o].request.units))]
<1>1. Executed(a) \in SUBSET Booked
    BY DEF Executed, Booked
<1>2. IsFiniteSet(Executed(a))
    BY <1>1, FS_Subset
<1>3. \A o \in Executed(a) : cost[o] \in Int
    BY <1>1, BookValues DEF Booked, Executed
<1>4. Spent(a) = SumFunctionOnSet(cost, Executed(a))
    BY DEF Spent, SumFunction
<1> HIDE DEF cost
<1> QED
    BY <1>2, <1>3, <1>4, SumIsInteger

\* Orders that have their rows add up to the same.
LEMMA SameRowsSameSums ==
    ASSUME NEW a, Executed(a)' = Executed(a), \A o \in Executed(a) : book'[o] = book[o]
    PROVE  Spent(a)' = Spent(a) /\ \A x \in Assets : Acquired(a, x)' = Acquired(a, x)
<1>1. [o \in Executed(a) |-> Signed(o, Amount(book[o].price, book[o].request.units))]'
        = [o \in Executed(a) |-> Signed(o, Amount(book[o].price, book[o].request.units))]
    BY DEF Signed
<1>2. ASSUME NEW x \in Assets
      PROVE  /\ ExecutedOn(a, x)' = ExecutedOn(a, x)
             /\ [o \in ExecutedOn(a, x) |-> Signed(o, book[o].request.units)]'
                    = [o \in ExecutedOn(a, x) |-> Signed(o, book[o].request.units)]
    BY DEF Signed, ExecutedOn
<1> QED
    BY <1>1, <1>2 DEF Spent, Acquired

\* An order that is executed adds its amount and its units, on its account and asset.
LEMMA SumsAtExecution ==
    ASSUME IInv, AnswersHold, IsFiniteSet(Booked), NEW o \in Orders, CommitMarket(o),
           NEW a, NEW x \in Assets
    PROVE  LET r == order[o]
               amount == Amount(quote[o], r.units)
           IN  /\ Spent(a)' =
                      IF a # r.account THEN Spent(a)
                      ELSE IF r.side = "buy" THEN Spent(a) + amount ELSE Spent(a) - amount
               /\ Acquired(a, x)' =
                      IF a # r.account \/ x # r.asset THEN Acquired(a, x)
                      ELSE IF r.side = "buy" THEN Acquired(a, x) + r.units
                      ELSE Acquired(a, x) - r.units
               /\ Spent(a) \in Int /\ Acquired(a, x) \in Int
<1> DEFINE r == order[o]
           amount == Amount(quote[o], r.units)
           new == [request |-> r, status |-> "executed", price |-> quote[o]]
<1>1. /\ r \in OrderRequests /\ r.units \in Nat /\ amount \in Nat /\ quote[o] \in Prices
      /\ stage[o] = "commit" /\ r.side \in {"buy", "sell"}
    BY CommitFacts, RequestFacts
<1>2. TypeOK /\ book \in [Orders -> BookRow \cup {NoOrder}]
    BY DEF IInv, TypeOK
<1>3. book[o] = NoOrder
    BY <1>1, <1>2 DEF AnswersHold, AnswersMatchBook, BookRow
<1>4. /\ book'[o] = new /\ new # NoOrder
      /\ \A q \in Orders \ {o} : book'[q] = book[q]
<2>1. new \in BookRow
    BY <1>1 DEF BookRow
<2> QED
    BY <1>2, <2>1, OrdersAssumption DEF CommitMarket
<1>5. new.request = r /\ new.status = "executed" /\ new.price = quote[o]
    OBVIOUS
<1> HIDE DEF r, amount, new
<1> DEFINE cost == [q \in Executed(a) |->
                        Signed(q, Amount(book[q].price, book[q].request.units))]
           units == [q \in ExecutedOn(a, x) |-> Signed(q, book[q].request.units)]
<1>6. /\ Executed(a) \subseteq Booked /\ ExecutedOn(a, x) \subseteq Executed(a)
      /\ IsFiniteSet(Executed(a)) /\ IsFiniteSet(ExecutedOn(a, x))
      /\ o \notin Executed(a) /\ o \notin ExecutedOn(a, x)
<2>1. Executed(a) \subseteq Booked /\ ExecutedOn(a, x) \subseteq Executed(a)
    BY DEF Executed, ExecutedOn, Booked
<2>2. IsFiniteSet(Executed(a)) /\ IsFiniteSet(ExecutedOn(a, x))
    BY <2>1, FS_Subset
<2> QED
    BY <2>1, <2>2, <1>3 DEF Executed, ExecutedOn
<1>7. \A q \in Executed(a) : cost[q] \in Int /\ book'[q] = book[q] /\ cost'[q] = cost[q]
<2> TAKE q \in Executed(a)
<2>1. q \in Orders /\ book[q] # NoOrder /\ book'[q] = book[q]
    BY <1>4, <1>6 DEF Executed
<2>2. Executed(a)' = Executed(a) \/ Executed(a)' = Executed(a) \cup {o}
    BY <1>3, <1>4 DEF Executed
<2> QED
    BY <1>2, <2>1, <2>2, BookValues DEF Signed
<1>8. \A q \in ExecutedOn(a, x) : units[q] \in Int /\ book'[q] = book[q]
    BY <1>2, <1>6, <1>7, BookValues DEF Booked
<1>9. Spent(a) = SumFunctionOnSet(cost, Executed(a)) /\ Spent(a) \in Int
    BY <1>6, <1>7, SumIsInteger DEF Spent, SumFunction
<1>10. Acquired(a, x) = SumFunctionOnSet(units, ExecutedOn(a, x)) /\ Acquired(a, x) \in Int
    BY <1>6, <1>8, SumIsInteger DEF Acquired, SumFunction
<1>11. CASE a # r.account
<2>1. Executed(a)' = Executed(a)
    BY <1>3, <1>4, <1>5, <1>11 DEF Executed
<2> QED
    BY <1>7, <1>9, <1>10, <1>11, <2>1, SameRowsSameSums DEF r
<1>12. CASE a = r.account
<2>1. Executed(a)' = Executed(a) \cup {o}
    BY <1>3, <1>4, <1>5, <1>12 DEF Executed
<2>2. Spent(a)' = SumFunctionOnSet(cost', Executed(a) \cup {o})
    BY <2>1 DEF Spent, SumFunction
<2>3. cost'[o] = IF r.side = "buy" THEN amount ELSE - amount
    BY <1>4, <1>5, <2>1 DEF Signed, amount, r
<2>4. cost'[o] \in Int
    BY <1>1, <2>3
<2>5. Spent(a)' = Spent(a) + cost'[o]
<3> HIDE DEF cost
<3> QED
    BY <1>6, <1>7, <1>9, <2>2, <2>4, SumOfMore
<2>6. CASE x # r.asset
<3>1. ExecutedOn(a, x)' = ExecutedOn(a, x)
    BY <1>4, <1>5, <1>6, <2>1, <2>6 DEF ExecutedOn, Executed
<3>2. units' = units
    BY <1>8, <3>1 DEF Signed
<3>3. Acquired(a, x)' = Acquired(a, x)
    BY <3>1, <3>2 DEF Acquired
<3> QED
    BY <1>1, <1>9, <1>10, <1>12, <2>3, <2>5, <2>6, <3>3 DEF r, amount
<2>7. CASE x = r.asset
<3>1. ExecutedOn(a, x)' = ExecutedOn(a, x) \cup {o}
    BY <1>4, <1>5, <1>7, <2>1, <2>7 DEF ExecutedOn
<3>2. Acquired(a, x)' = SumFunctionOnSet(units', ExecutedOn(a, x) \cup {o})
    BY <3>1 DEF Acquired, SumFunction
<3>3. \A q \in ExecutedOn(a, x) : units'[q] = units[q]
    BY <1>8, <3>1 DEF Signed
<3>4. units'[o] = IF r.side = "buy" THEN r.units ELSE - r.units
    BY <1>4, <1>5, <3>1 DEF Signed, r
<3>5. units'[o] \in Int
    BY <1>1, <3>4
<3>6. Acquired(a, x)' = Acquired(a, x) + units'[o]
<4> HIDE DEF units
<4> QED
    BY <1>6, <1>8, <1>10, <3>2, <3>3, <3>5, SumOfMore
<3> QED
    BY <1>1, <1>9, <1>10, <1>12, <2>3, <2>5, <2>7, <3>4, <3>6 DEF r, amount
<2> QED
    BY <2>6, <2>7
<1> QED
    BY <1>11, <1>12 DEF r, amount

\* A commit explains what it writes.
LEMMA BookAtExecution ==
    ASSUME IInv, AnswersHold, BookKept, NEW o \in Orders, CommitMarket(o)
    PROVE  BookKept'
<1> DEFINE r == order[o]
           b == r.account
           y == r.asset
           amount == Amount(quote[o], r.units)
<1>1. /\ b \in Portfolios /\ b \in Accounts /\ y \in Assets /\ live' = live
      /\ amount \in Nat /\ r.units \in Nat /\ row[o] \in [quantity: Int, average: Int]
      /\ cash' = [cash EXCEPT ![b] = account[o]]
      /\ position' = [position EXCEPT ![b][y] = row[o]]
      /\ \/ /\ r.side = "buy" /\ account[o] = cash[b] - amount
            /\ row[o].quantity = position[b][y].quantity + r.units
         \/ /\ r.side = "sell" /\ account[o] = cash[b] + amount
            /\ row[o].quantity = position[b][y].quantity - r.units
    BY CommitFacts DEF CommitMarket
<1>2. /\ cash \in [Accounts -> Int] /\ Opening \in [Accounts -> Int]
      /\ position \in [Portfolios -> [Assets -> [quantity: Int, average: Int]]]
      /\ \A a \in Portfolios, x \in Assets : Held[a][x].quantity \in Int
<2>1. Opening \in [Accounts -> Int]
    BY PortfolioAssumption
<2>2. ASSUME NEW a \in Portfolios, NEW x \in Assets PROVE Held[a][x] \in Position
    BY PortfolioAssumption
<2> QED
    BY <2>1, <2>2 DEF IInv, TypeOK, Position
<1>3. IsFiniteSet(Booked')
<2>1. Booked' \in SUBSET (Booked \cup {o})
    BY DEF Booked, CommitMarket, IInv, TypeOK
<2> QED
    BY <2>1, FS_AddElement, FS_Subset DEF BookKept
<1>4. ASSUME NEW a \in Portfolios \cap live
      PROVE  /\ cash'[a] = Opening[a] - Spent(a)'
             /\ \A x \in Assets :
                    position'[a][x].quantity = Held[a][x].quantity + Acquired(a, x)'
<2>1. a \in Portfolios /\ a \in Accounts /\ cash[a] \in Int /\ Opening[a] \in Int
    BY <1>2, PortfolioAssumption
<2>2. cash[a] = Opening[a] - Spent(a)
    BY DEF BookKept, BookExplained
<2>3. ASSUME NEW x \in Assets
      PROVE  /\ cash'[a] = Opening[a] - Spent(a)'
             /\ position'[a][x].quantity = Held[a][x].quantity + Acquired(a, x)'
<3>1. /\ Spent(a)' = IF a # b THEN Spent(a)
                     ELSE IF r.side = "buy" THEN Spent(a) + amount ELSE Spent(a) - amount
      /\ Acquired(a, x)' = IF a # b \/ x # y THEN Acquired(a, x)
                           ELSE IF r.side = "buy" THEN Acquired(a, x) + r.units
                           ELSE Acquired(a, x) - r.units
      /\ Spent(a) \in Int /\ Acquired(a, x) \in Int
    BY SumsAtExecution DEF BookKept
<3>2. position[a][x].quantity = Held[a][x].quantity + Acquired(a, x)
    BY DEF BookKept, BookExplained
<3>3. cash'[a] = IF a = b THEN account[o] ELSE cash[a]
    BY <1>1, <1>2, <2>1
<3>4. position'[a][x] = IF a = b /\ x = y THEN row[o] ELSE position[a][x]
    BY <1>1, <1>2
<3>5. position[a][x].quantity \in Int /\ Held[a][x].quantity \in Int
    BY <1>2, <2>1
<3> HIDE DEF r, b, y, amount
<3>6. cash'[a] = Opening[a] - Spent(a)'
    BY <1>1, <2>1, <2>2, <3>1, <3>3
<3>7. position'[a][x].quantity = Held[a][x].quantity + Acquired(a, x)'
    BY <1>1, <3>1, <3>2, <3>4, <3>5
<3> QED
    BY <3>6, <3>7
<2> QED
    BY <1>1, <2>3
<1> QED
    BY <1>1, <1>3, <1>4 DEF BookKept, BookExplained

\* Rows that are not of executed orders, and rows of accounts that go, change no sum of an
\* account that stays.
LEMMA BookWithoutExecution ==
    ASSUME BookKept, IsFiniteSet(Booked'), live' \subseteq live,
           \A a \in Portfolios \cap live' :
               /\ cash'[a] = cash[a] /\ position'[a] = position[a]
               /\ Executed(a)' = Executed(a)
               /\ \A o \in Executed(a) : book'[o] = book[o]
    PROVE  BookKept'
<1>1. ASSUME NEW a \in Portfolios \cap live'
      PROVE  /\ Spent(a)' = Spent(a) /\ \A x \in Assets : Acquired(a, x)' = Acquired(a, x)
             /\ cash'[a] = cash[a] /\ position'[a] = position[a] /\ a \in live
    BY SameRowsSameSums
<1> QED
    BY <1>1 DEF BookKept, BookExplained

\* The executed orders explain the cash and every position (createOrder), for any number of
\* orders, prices and quantities: none works on an entity that another has overtaken.
THEOREM OrdersExplainBook == Spec => []BookExplained
<1>1. Init => BookKept
<2> SUFFICES ASSUME Init PROVE BookKept
    OBVIOUS
<2>1. Booked = {} /\ \A a \in Portfolios : Executed(a) = {}
    BY DEF Init, Booked, Executed
<2>2. ASSUME NEW a \in Portfolios
      PROVE  /\ Spent(a) = 0 /\ \A x \in Assets : Acquired(a, x) = 0
             /\ Opening[a] \in Int /\ \A x \in Assets : Held[a][x].quantity \in Int
<3>1. \A x \in Assets : ExecutedOn(a, x) = {}
    BY <2>1 DEF ExecutedOn
<3>2. \A x \in Assets : Held[a][x] \in Position
    BY PortfolioAssumption
<3>3. \A f : SumFunctionOnSet(f, {}) = 0
    BY SumOfNone
<3>4. Spent(a) = 0
    BY <2>1, <3>3 DEF Spent, SumFunction
<3>5. \A x \in Assets : Acquired(a, x) = 0
    BY <3>1, <3>3 DEF Acquired, SumFunction
<3>6. Opening[a] \in Int /\ \A x \in Assets : Held[a][x].quantity \in Int
    BY <3>2, PortfolioAssumption DEF Position
<3> QED
    BY <3>4, <3>5, <3>6
<2> QED
    BY <2>1, <2>2, FS_EmptySet DEF BookKept, BookExplained, Init
<1>2. IInv /\ AnswersHold /\ BookKept /\ [Next]_vars => BookKept'
<2> SUFFICES ASSUME IInv, AnswersHold, BookKept, [Next]_vars PROVE BookKept'
    OBVIOUS
<2>1. CASE DeskQuiet
<3>1. UNCHANGED <<cash, live, position, book>>
    BY <2>1, QuietKeepsRows DEF DeskQuiet, Place, GetQuote, LockAccount, ReadPosition, Write,
       Abort, Rollback, UpdateManagedAsset, vars
<3> QED
    BY <3>1, BookWithoutExecution DEF Booked, Executed, BookKept
<2>2. ASSUME NEW o \in Orders, CommitMarket(o) PROVE BookKept'
    BY <2>2, BookAtExecution
<2>3. ASSUME NEW o \in Orders, CommitPending(o) PROVE BookKept'
<3>1. /\ book[o] = NoOrder /\ UNCHANGED <<cash, live, position>>
      /\ book' = [book EXCEPT ![o] = [request |-> order[o], status |-> "pending", price |-> 0]]
      /\ book \in [Orders -> BookRow \cup {NoOrder}]
    BY <2>3 DEF CommitPending, AnswersHold, AnswersMatchBook, IInv, TypeOK, BookRow
<3>2. /\ book'[o] = [request |-> order[o], status |-> "pending", price |-> 0]
      /\ book'[o].status = "pending" /\ \A q \in Orders \ {o} : book'[q] = book[q]
    BY <3>1
<3>3. Booked' \in SUBSET (Booked \cup {o})
    BY <3>2 DEF Booked
<3>4. \A a : Executed(a)' = Executed(a) /\ \A q \in Executed(a) : book'[q] = book[q]
    BY <3>1, <3>2 DEF Executed
<3> QED
    BY <3>1, <3>3, <3>4, FS_AddElement, FS_Subset, BookWithoutExecution DEF BookKept
<2>4. ASSUME NEW u, DeleteUser(u) PROVE BookKept'
<3> DEFINE gone == {a \in live : Owner[a] = u}
<3>1. /\ live' = live \ gone /\ cash' = cash
      /\ \A a \in Portfolios : a \notin gone => position'[a] = position[a]
      /\ \A o \in Orders : book'[o] = IF book[o] # NoOrder /\ book[o].request.account \in gone
                                      THEN NoOrder ELSE book[o]
    BY <2>4 DEF DeleteUser, Cascade
<3> HIDE DEF gone
<3>2. Booked' \in SUBSET Booked
    BY <3>1 DEF Booked
<3>3. \A a : a \notin gone =>
            Executed(a)' = Executed(a) /\ \A q \in Executed(a) : book'[q] = book[q]
    BY <3>1 DEF Executed
<3> QED
    BY <3>1, <3>2, <3>3, FS_Subset, BookWithoutExecution DEF BookKept
<2> QED
    BY <2>1, <2>2, <2>3, <2>4, NextForms
<1>3. BookKept => BookExplained
    BY DEF BookKept
<1> QED
    BY <1>1, <1>2, <1>3, InductiveInvariant, AnswersInvariant, PTL DEF Spec

\* Cash, positions, prices and answers tell of the same orders, for any number of them.
THEOREM BookCorrect == Spec => []BookHolds
<1>1. BookExplained /\ AverageWithinPrices /\ AnswersMatchBook => BookHolds
    BY DEF BookHolds
<1> QED
    BY <1>1, OrdersExplainBook, AveragesWithinPrices, AnswersAreBooked, PTL

-----------------------------------------------------------------------------
(* The refinement of Brokerage.                                            *)

\* A commit is one purchase or one sale of the brokerage.
LEMMA CommitTrades ==
    ASSUME IInv, NEW o \in Orders, CommitMarket(o)
    PROVE  \E a \in Portfolios : \E x \in Assets :
               \E units \in Units, price \in Prices :
                   Floor!Buy(a, x, units, price) \/ Floor!Sell(a, x, units, price)
<1> DEFINE r == order[o]
           a == r.account
           x == r.asset
           amount == Amount(quote[o], r.units)
           held == [b \in Portfolios |-> [y \in Assets |-> position[b][y].quantity]]
<1>1. /\ r \in OrderRequests /\ quote[o] \in Prices
      /\ a \in Portfolios /\ a \in Accounts /\ a \in live /\ x \in Assets
      /\ r.units \in Nat /\ amount \in Nat
      /\ row[o] \in [quantity: Int, average: Int]
      /\ cash' = [cash EXCEPT ![a] = account[o]]
      /\ position' = [position EXCEPT ![a][x] = row[o]]
    BY CommitFacts
<1>2. \/ /\ r.side = "buy" /\ cash[a] >= amount
         /\ account[o] = cash[a] - amount
         /\ row[o].quantity = position[a][x].quantity + r.units
      \/ /\ r.side = "sell" /\ position[a][x].quantity >= r.units
         /\ account[o] = cash[a] + amount
         /\ row[o].quantity = position[a][x].quantity - r.units
    BY CommitFacts
<1>3. r.units \in Units
    BY <1>1, RequestFacts
<1>4. amount = Floor!Amount(quote[o], r.units)
    BY DEF Amount, RoundedRatio, Floor!Amount
<1>5. cash[a] \in Int /\ position[a][x].quantity \in Int /\ cash \in [Accounts -> Int]
    BY <1>1 DEF IInv, TypeOK
<1>6. held' = [held EXCEPT ![a][x] = row[o].quantity]
<2>1. ASSUME NEW b \in Portfolios, NEW y \in Assets
      PROVE  position'[b][y].quantity =
                 IF b = a /\ y = x THEN row[o].quantity ELSE position[b][y].quantity
    BY <1>1 DEF IInv, TypeOK
<2>2. held' = [b \in Portfolios |-> [y \in Assets |->
                 IF b = a /\ y = x THEN row[o].quantity ELSE position[b][y].quantity]]
    BY <2>1
<2> QED
    BY <2>2, <1>1
<1>7. held[a][x] = position[a][x].quantity
    BY <1>1
<1>8. UNCHANGED live
    BY DEF CommitMarket
<1> HIDE DEF held, amount
<1>9. CASE r.side = "buy" /\ cash[a] >= amount
           /\ account[o] = cash[a] - amount
           /\ row[o].quantity = position[a][x].quantity + r.units
<2>1. cash' = [cash EXCEPT ![a] = @ - amount]
    BY <1>1, <1>5, <1>9
<2>2. held' = [held EXCEPT ![a][x] = @ + r.units]
    BY <1>6, <1>7, <1>9, <1>1 DEF held
<2>3. PICK b \in Portfolios, y \in Assets, n \in Units, c \in Prices :
          b = a /\ y = x /\ n = r.units /\ c = quote[o]
    BY <1>1, <1>3
<2>4. Floor!Buy(b, y, n, c)
    BY <2>1, <2>2, <2>3, <1>1, <1>4, <1>5, <1>8, <1>9 DEF Floor!Buy, held
<2> QED
    BY <2>4
<1>10. CASE r.side = "sell" /\ position[a][x].quantity >= r.units
            /\ account[o] = cash[a] + amount
            /\ row[o].quantity = position[a][x].quantity - r.units
<2>1. cash' = [cash EXCEPT ![a] = @ + amount]
    BY <1>1, <1>5, <1>10
<2>2. held' = [held EXCEPT ![a][x] = @ - r.units]
    BY <1>6, <1>7, <1>10, <1>1 DEF held
<2>3. r.units <= held[a][x]
    BY <1>1, <1>5, <1>7, <1>10
<2>4. PICK b \in Portfolios, y \in Assets, n \in Units, c \in Prices :
          b = a /\ y = x /\ n = r.units /\ c = quote[o]
    BY <1>1, <1>3
<2>5. Floor!Sell(b, y, n, c)
    BY <2>1, <2>2, <2>3, <2>4, <1>1, <1>4, <1>8 DEF Floor!Sell, held
<2> QED
    BY <2>5
<1> QED
    BY <1>2, <1>9, <1>10

\* Deleting a user closes his accounts on the trading floor.
LEMMA DeletionCloses ==
    ASSUME IInv, NEW a \in Accounts, DeleteUser(Owner[a])
    PROVE  Floor!CloseAll(Owner[a])
<1> DEFINE u == Owner[a]
           gone == {b \in live : Owner[b] = u}
           held == [b \in Portfolios |-> [y \in Assets |-> position[b][y].quantity]]
<1>1. live' = live \ gone /\ UNCHANGED cash
    BY DEF DeleteUser
<1>2. position' = [b \in Portfolios |->
          IF b \in gone THEN [y \in Assets |-> NoRow] ELSE position[b]]
    BY DEF DeleteUser, Cascade
<1>3. live' = {b \in live : Owner[b] # u}
    BY <1>1
<1>4. ASSUME NEW b \in Portfolios
      PROVE  held'[b] = IF b \in live /\ Owner[b] = u THEN [y \in Assets |-> 0]
                        ELSE held[b]
<2>1. CASE b \in gone
    BY <1>2, <2>1 DEF NoRow
<2>2. CASE b \notin gone
    BY <1>2, <2>2
<2> QED
    BY <2>1, <2>2
<1>5. held' = [b \in Portfolios |->
          IF b \in live /\ Owner[b] = u THEN [y \in Assets |-> 0] ELSE held[b]]
    BY <1>4
<1> QED
    BY <1>1, <1>3, <1>5 DEF Floor!CloseAll

\* Every step is a step of the trading floor or a stutter.
LEMMA StepRefines ==
    ASSUME IInv, [Next]_vars
    PROVE  [Floor!Next]_(Floor!vars)
<1>1. ASSUME NEW o \in Orders, CommitMarket(o) PROVE Floor!Next
    BY <1>1, CommitTrades DEF Floor!Next
<1>2. ASSUME NEW a \in Accounts, DeleteUser(Owner[a]) PROVE Floor!Next
<2>1. a \in DOMAIN Opening
    BY ConstantFacts
<2> QED
    BY <1>2, <2>1, DeletionCloses DEF Floor!Next
<1>3. ASSUME NEW o \in Orders,
             \/ \E r \in OrderRequests : Place(o, r)
             \/ GetQuote(o) \/ LockAccount(o) \/ ReadPosition(o)
             \/ Write(o) \/ CommitPending(o) \/ Abort(o)
      PROVE  UNCHANGED <<cash, live, position>>
    BY <1>3 DEF Place, GetQuote, LockAccount, ReadPosition, Write, CommitPending,
                Abort, Rollback, deskVars
<1>4. ASSUME NEW x \in Assets, UpdateManagedAsset(x)
      PROVE  UNCHANGED <<cash, live, position>>
    BY <1>4 DEF UpdateManagedAsset, deskVars
<1>5. UNCHANGED <<cash, live, position>> => UNCHANGED Floor!vars
    BY DEF Floor!vars
<1> QED
    BY <1>1, <1>2, <1>3, <1>4, <1>5
       DEF Next, DeskNext, Proceed, vars, deskVars

\* Every behaviour of the desk is a behaviour of the atomic brokerage: what an
\* order has in memory is never stale when it is written back.
THEOREM TradingImplementsBrokerage == Spec => ImplementsBrokerage
<1>1. Init => Floor!Init
    BY ConstantFacts DEF Init, Floor!Init
<1>2. IInv /\ [Next]_vars => [Floor!Next]_(Floor!vars)
    BY StepRefines
<1> QED
    BY <1>1, <1>2, InductiveInvariant, PTL
       DEF Spec, Floor!Spec, ImplementsBrokerage

=============================================================================
