-------------------------------- MODULE Bank --------------------------------
(***************************************************************************)
(* The transfer path and the trading desk over the same account rows: both *)
(* lock and write investment_accounts, and the deletion of a user takes    *)
(* from both.  What neither shows alone is that a transfer out of a        *)
(* portfolio and an order on it never lose each other's writes and never   *)
(* wait for each other forever.                                            *)
(***************************************************************************)
EXTENDS Transfers

CONSTANTS Portfolios, Assets, Supported, Held, Prices, Units, Scale, Orders,
          OrderRequests, NoOrder, Unread

VARIABLES position, worth, book, offered, stage, order, quote, account, row

Desk == INSTANCE Trading WITH cash <- balance

ASSUME BankAssumption ==
    /\ Portfolios = {a \in Accounts : Kind[a] = "investment"}
    /\ Attempts \cap Orders = {}
    /\ Desk!PortfolioAssumption /\ Desk!MarketAssumption /\ Desk!OrdersAssumption

deskOnly == <<position, worth, book, offered, stage, order, quote, account, row>>
transferOnly ==
    <<ledger, keys, pc, req, sourceVersion, destVersion, outcome, notices, shape,
      unfunded>>
bankVars == <<balance, live, lock, transferOnly, deskOnly>>

BankInit == Init /\ Desk!Init

DeleteBankUser(u) ==
    /\ DeleteUser(u)
    /\ Desk!Cascade(u)
    /\ UNCHANGED <<offered, stage, order, quote, account, row>>

BankNext ==
    \/ TransferNext /\ UNCHANGED deskOnly
    \/ Desk!DeskNext /\ UNCHANGED transferOnly
    \/ \E a \in Accounts : DeleteBankUser(Owner[a])

BankSpec == BankInit /\ [][BankNext]_bankVars

TransferStep(p) == Proceed(p) /\ UNCHANGED deskOnly
OrderStep(o) == Desk!Proceed(o) /\ UNCHANGED transferOnly

\* PostgreSQL runs every statement it can run and serves lock waiters, the
\* event loop of a replica resumes every finished await, and a request for a
\* quote ends within its timeouts.
FairBankSpec ==
    /\ BankSpec
    /\ \A p \in Attempts : WF_bankVars(TransferStep(p))
    /\ \A o \in Orders : WF_bankVars(OrderStep(o))

-----------------------------------------------------------------------------
(* Properties.                                                             *)

\* Statement lines and executed orders together explain every balance: an
\* order never writes back a cash balance that a transfer has changed, and a
\* transfer never loses the cash of a sale.  What transfers brought without
\* the debit that their line lists (see unfunded) is all that is missing.
MoneyExplained ==
    \A a \in live :
        balance[a] = Opening[a] + LedgerSum(a) + unfunded[a]
                     - (IF a \in Portfolios THEN Desk!Spent(a) ELSE 0)

\* Seen from outside, transfers and orders on the same rows happen one at a time: a step is one
\* movement of the ledger, one trade of the brokerage, the closing of a user's accounts for
\* both, or nothing.
OneAtATime ==
    [][ \/ Port!Movement /\ UNCHANGED position
        \/ /\ [Desk!Floor!Next]_(Desk!Floor!vars)
           /\ UNCHANGED <<keys, unfunded>> ]_bankVars

\* Transfers and orders that meet on a portfolio all end.
EverythingEnds ==
    /\ EveryTransferEnds
    /\ Desk!EveryOrderEnds
=============================================================================
