----------------------------- MODULE MCTransfers -----------------------------
(***************************************************************************)
(* A bank of two users for TLC.  The requests cross (c1 pays c2 while c2   *)
(* pays c1), compete for the same money, reuse a key with another payload, *)
(* overdraw, and include the routes that must be refused.                  *)
(***************************************************************************)
EXTENDS Transfers, TLC

CONSTANTS u1, u2, k1, a1, a2, a3

MCAccounts == {"c1", "s1", "i1", "c2"}
MCOwner == [a \in MCAccounts |-> IF a = "c2" THEN u2 ELSE u1]
MCKind ==
    "c1" :> "checking" @@ "s1" :> "savings" @@ "i1" :> "investment"
    @@ "c2" :> "checking"

\* "bank:..." sorts before "investment:..."; ids are random.
MCRank == "c1" :> 2 @@ "s1" :> 3 @@ "i1" :> 4 @@ "c2" :> 1
MCOpening == "c1" :> 3 @@ "s1" :> 1 @@ "i1" :> 2 @@ "c2" :> 2

Pay(user, source, iban, amount, key) ==
    [user |-> user, sourceType |-> "bank", source |-> source,
     toAccount |-> NoAccount, toIban |-> iban, amount |-> amount, key |-> key]

Shift(user, type, source, account, amount, key) ==
    [user |-> user, sourceType |-> type, source |-> source,
     toAccount |-> account, toIban |-> NoAccount, amount |-> amount,
     key |-> key]

MCRequests ==
    {Pay(u1, "c1", "c2", 2, k1),
     Pay(u2, "c2", "c1", 2, NoKey),
     Shift(u1, "bank", "c1", "i1", 2, NoKey),
     Shift(u1, "investment", "i1", "c1", 1, k1),
     Pay(u1, "s1", "c2", 1, NoKey),
     Pay(u2, "c1", "c2", 1, NoKey),
     [Pay(u1, "i1", "c2", 1, NoKey) EXCEPT !.sourceType = "investment"]}

Symmetry == Permutations(Attempts)
=============================================================================
