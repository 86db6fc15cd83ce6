------------------------------ MODULE Brokerage ------------------------------
(***************************************************************************)
(* What the trading desk promises (TradingController.createOrder and       *)
(* validateMarketExecution): a market order exchanges cash for a quantity  *)
(* of an asset in one indivisible step, never on credit and never short.   *)
(* The module Trading, which has the SQL statements, implements this one.  *)
(***************************************************************************)
EXTENDS Integers

CONSTANTS
    Portfolios,     \* investment accounts
    Owner,          \* Owner[a]: the user that holds account a
    Opening,        \* Opening[a]: cash at the start, in cents
    Assets,
    Held,           \* Held[a][x]: units of x that a holds at the start
    Prices, Units,  \* prices in cents and quantities of orders
    Scale           \* units of quantity in one whole share or coin

VARIABLES
    cash,           \* cash[a]: the cash balance of a, in cents
    live,           \* accounts that exist
    quantity        \* quantity[a][x]: units of x that a holds

vars == <<cash, live, quantity>>

\* The amount of an execution, rounded half up to the cent.
Amount(price, units) == (2 * (price * units) + Scale) \div (2 * Scale)

Buy(a, x, units, price) ==
    /\ a \in live
    /\ Amount(price, units) <= cash[a]
    /\ cash' = [cash EXCEPT ![a] = @ - Amount(price, units)]
    /\ quantity' = [quantity EXCEPT ![a][x] = @ + units]
    /\ UNCHANGED live

Sell(a, x, units, price) ==
    /\ a \in live
    /\ units <= quantity[a][x]
    /\ cash' = [cash EXCEPT ![a] = @ + Amount(price, units)]
    /\ quantity' = [quantity EXCEPT ![a][x] = @ - units]
    /\ UNCHANGED live

CloseAll(u) ==
    /\ live' = {a \in live : Owner[a] # u}
    /\ quantity' = [a \in Portfolios |->
           IF a \in live /\ Owner[a] = u THEN [x \in Assets |-> 0]
           ELSE quantity[a]]
    /\ UNCHANGED cash

Init ==
    /\ cash = Opening
    /\ live = DOMAIN Opening
    /\ quantity = Held

Next ==
    \/ \E a \in Portfolios : \E x \in Assets :
           \E units \in Units, price \in Prices :
               Buy(a, x, units, price) \/ Sell(a, x, units, price)
    \/ \E a \in DOMAIN Opening : CloseAll(Owner[a])

Spec == Init /\ [][Next]_vars
=============================================================================
