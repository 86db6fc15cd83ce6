------------------------------- MODULE MCBank -------------------------------
(***************************************************************************)
(* One client with a checking account and a portfolio, another client with *)
(* a checking account: transfers in and out of the portfolio while orders  *)
(* spend and earn its cash.                                                *)
(***************************************************************************)
EXTENDS Bank, TLC

CONSTANTS u1, u2, k1, a1, a2, o1

MCAccounts == {"c1", "i1", "c2"}
MCOwner == [a \in MCAccounts |-> IF a = "c2" THEN u2 ELSE u1]
MCKind == "c1" :> "checking" @@ "i1" :> "investment" @@ "c2" :> "checking"
MCRank == "c1" :> 2 @@ "i1" :> 3 @@ "c2" :> 1
MCOpening == "c1" :> 3 @@ "i1" :> 4 @@ "c2" :> 1
MCHeld == "i1" :> ("btc" :> [quantity |-> 1, average |-> 2])

Shift(type, source, account_, amount, key) ==
    [user |-> u1, sourceType |-> type, source |-> source,
     toAccount |-> account_, toIban |-> NoAccount, amount |-> amount,
     key |-> key]

MCRequests ==
    {Shift("bank", "c1", "i1", 3, NoKey),
     Shift("investment", "i1", "c1", 3, k1),
     [Shift("bank", "c1", NoAccount, 2, k1) EXCEPT !.toIban = "c2"]}

MCOrderRequests ==
    {[user |-> u1, account |-> "i1", asset |-> "btc", side |-> side,
      units |-> 1, market |-> TRUE, priced |-> FALSE] :
         side \in {"buy", "sell"}}
=============================================================================
