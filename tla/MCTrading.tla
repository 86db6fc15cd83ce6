------------------------------ MODULE MCTrading ------------------------------
(***************************************************************************)
(* A desk of two clients for TLC.  Two orders cannot both be paid for, an  *)
(* order costs less than half a cent, a limit order is stored, and         *)
(* requests for a foreign portfolio or an asset nobody proposes are sent.  *)
(***************************************************************************)
EXTENDS Trading, TLC

CONSTANTS u1, u2, o1, o2, o3

MCPortfolios == {"i1", "i2"}
MCOwner == "i1" :> u1 @@ "i2" :> u2
MCOpening == "i1" :> 9 @@ "i2" :> 1
MCHeld ==
    [a \in MCPortfolios |->
        "btc" :> (IF a = "i1" THEN [quantity |-> 5, average |-> 2] ELSE NoRow)
        @@ "gold" :> (IF a = "i1" THEN [quantity |-> 2, average |-> 3] ELSE NoRow)]

MarketOrder(user, a, side, units) ==
    [user |-> user, account |-> a, asset |-> "btc", side |-> side,
     units |-> units, market |-> TRUE, priced |-> FALSE]

MCOrderRequests ==
    {MarketOrder(u1, "i1", "buy", 1),
     MarketOrder(u1, "i1", "buy", 5),
     MarketOrder(u1, "i1", "sell", 5),
     MarketOrder(u2, "i2", "buy", 1),
     MarketOrder(u2, "i1", "sell", 5),
     [MarketOrder(u1, "i1", "sell", 1) EXCEPT !.asset = "gold"],
     [MarketOrder(u1, "i1", "buy", 5) EXCEPT !.market = FALSE, !.priced = TRUE]}

OrderSymmetry == Permutations(Orders)
=============================================================================
