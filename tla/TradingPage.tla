---------------------------- MODULE TradingPage ----------------------------
(***************************************************************************)
(* The trading page of one client (DashboardTradingPage): the account and   *)
(* the asset he selected, what is shown of them, and the order form, with   *)
(* the requests they make to TradingController.  The order itself is        *)
(* Trading.tla; here it is one step, executed or refused.                   *)
(*                                                                         *)
(* The effects drop an answer that comes after the selection has changed;   *)
(* the refresh after an order does not.  One error message stands for an    *)
(* order refused, an answer lost and a refresh that failed.                 *)
(***************************************************************************)
EXTENDS Naturals, FiniteSetsExt

CONSTANTS
    Accounts,       \* investment accounts of the client; one is selected first
    Symbols,        \* assets; one is selected first
    DeskBounds,     \* bounds: clicks on the selections, orders, reloads of the history, troubles
    Nil

ASSUME TradingPageAssumption ==
    /\ IsFiniteSet(Accounts) /\ Accounts # {} /\ Symbols # {}
    /\ Nil \notin [of : Accounts, orders : Nat]
    /\ Nil \notin [account : Accounts, symbol : Symbols, got : {Nil} \cup [of : Accounts, orders : Nat],
                   stage : {"sent", "executed", "refreshing"}]

VARIABLES
    book,       \* server: how many orders were executed on each account
    desk,       \* the page
    deskLine,   \* loads of accounts and of price histories, and the order sent
    deskLog     \* history, and what is left of the bounds

deskVars == <<book, desk, deskLine, deskLog>>

Spent(what) ==
    /\ deskLog.left[what] > 0
    /\ deskLog' = [deskLog EXCEPT !.left[what] = @ - 1]

\* What an answer about an account holds: its orders, or so many of them.
Holdings(a) == [of |-> a, orders |-> book[a]]

-----------------------------------------------------------------------------
(* The account and what is shown of it *)

\* The effect on accountId: an older one becomes inactive.
SelectAccount(a) ==
    /\ a # desk.account /\ Spent("clicks")
    /\ desk' = [desk EXCEPT !.account = a]
    /\ deskLine' = [deskLine EXCEPT !.accounts =
          {[l EXCEPT !.active = FALSE] : l \in @} \cup {[of |-> a, got |-> Nil, active |-> TRUE]}]
    /\ UNCHANGED book

ServeAccount(l) ==
    /\ l \in deskLine.accounts /\ l.got = Nil
    /\ deskLine' = [deskLine EXCEPT !.accounts = (@ \ {l}) \cup {[l EXCEPT !.got = Holdings(l.of)]}]
    /\ UNCHANGED <<book, desk, deskLog>>

ArriveAccount(l) ==
    /\ l \in deskLine.accounts /\ l.got # Nil
    /\ desk' = IF l.active THEN [desk EXCEPT !.shown = l.got] ELSE desk
    /\ deskLine' = [deskLine EXCEPT !.accounts = @ \ {l}]
    /\ deskLog' = IF l.active THEN [deskLog EXCEPT !.strayed = FALSE, !.unloaded = FALSE] ELSE deskLog
    /\ UNCHANGED book

\* The load fails: loadError, and what was shown of another account stays.
FailAccount(l) ==
    /\ l \in deskLine.accounts
    /\ deskLog.left["troubles"] > 0
    /\ deskLog' = [deskLog EXCEPT !.left["troubles"] = @ - 1, !.unloaded = @ \/ l.active]
    /\ desk' = IF l.active THEN [desk EXCEPT !.said = "error"] ELSE desk
    /\ deskLine' = [deskLine EXCEPT !.accounts = @ \ {l}]
    /\ UNCHANGED book

-----------------------------------------------------------------------------
(* The asset and its history *)

SelectSymbol(s) ==
    /\ s # desk.symbol /\ Spent("clicks")
    /\ desk' = [desk EXCEPT !.symbol = s, !.quantity = Nil, !.said = ""]
    /\ deskLine' = [deskLine EXCEPT !.histories =
          {[h EXCEPT !.active = FALSE] : h \in @} \cup
          {[of |-> s, got |-> Nil, active |-> TRUE, timer |-> FALSE]}]
    /\ UNCHANGED book

\* The interval of the effect.
ReloadHistory ==
    /\ \A h \in deskLine.histories : ~h.timer
    /\ Spent("reloads")
    /\ deskLine' = [deskLine EXCEPT !.histories =
          @ \cup {[of |-> desk.symbol, got |-> Nil, active |-> TRUE, timer |-> TRUE]}]
    /\ UNCHANGED <<book, desk>>

ServeHistory(h) ==
    /\ h \in deskLine.histories /\ h.got = Nil
    /\ deskLine' = [deskLine EXCEPT !.histories =
          (@ \ {h}) \cup {[h EXCEPT !.got = h.of]}]
    /\ UNCHANGED <<book, desk, deskLog>>

\* setHistory, and the last quote goes into the list and into the positions.
ArriveHistory(h) ==
    /\ h \in deskLine.histories /\ h.got # Nil
    /\ desk' = IF h.active THEN [desk EXCEPT !.chart = h.got] ELSE desk
    /\ deskLine' = [deskLine EXCEPT !.histories = @ \ {h}]
    /\ UNCHANGED <<book, deskLog>>

FailHistory(h) ==
    /\ h \in deskLine.histories
    /\ deskLog.left["troubles"] > 0
    /\ deskLog' = [deskLog EXCEPT !.left["troubles"] = @ - 1, !.chartless = @ \/ ~h.timer]
    /\ desk' = IF h.active /\ ~h.timer THEN [desk EXCEPT !.said = "error"] ELSE desk
    /\ deskLine' = [deskLine EXCEPT !.histories = @ \ {h}]
    /\ UNCHANGED book

-----------------------------------------------------------------------------
(* The order form *)

\* The side and the quantity; typing stays possible while an order is under way.
TypeQuantity ==
    /\ desk.quantity = Nil
    /\ desk' = [desk EXCEPT !.quantity = desk.symbol]
    /\ UNCHANGED <<book, deskLine, deskLog>>

\* submitOrder, with the account and the asset of the click.
SubmitOrder ==
    /\ deskLine.order = Nil /\ desk.quantity # Nil
    /\ Spent("orders")
    /\ desk' = [desk EXCEPT !.said = ""]
    /\ deskLine' = [deskLine EXCEPT !.order =
          [account |-> desk.account, symbol |-> desk.symbol, stage |-> "sent", got |-> Nil]]
    /\ UNCHANGED book

\* Mutant: the order may be executed again before it is answered.
ExecuteAgain ==
    /\ deskLine.order # Nil /\ deskLine.order.stage = "sent"
    /\ book' = [book EXCEPT ![deskLine.order.account] = IF @ < 2 THEN @ + 1 ELSE @]
    /\ deskLine' \in {deskLine, [deskLine EXCEPT !.order.stage = "executed"]}
    /\ UNCHANGED <<desk, deskLog>>

\* TradingController executes it (Trading.tla).
ExecuteOrder ==
    /\ deskLine.order # Nil /\ deskLine.order.stage = "sent"
    /\ book' = [book EXCEPT ![deskLine.order.account] = @ + 1]
    /\ deskLine' = [deskLine EXCEPT !.order.stage = "executed"]
    /\ UNCHANGED <<desk, deskLog>>

\* refreshAccount: the accounts, positions and orders of the account of the click.
ServeRefresh ==
    /\ deskLine.order # Nil /\ deskLine.order.stage = "executed"
    /\ deskLine' = [deskLine EXCEPT !.order.stage = "refreshing",
                                    !.order.got = Holdings(deskLine.order.account)]
    /\ UNCHANGED <<book, desk, deskLog>>

EndOrder ==
    /\ deskLine.order # Nil /\ deskLine.order.stage = "refreshing"
    /\ desk' = [desk EXCEPT !.shown = deskLine.order.got, !.quantity = Nil, !.said = "success"]
    /\ deskLine' = [deskLine EXCEPT !.order = Nil]
    /\ deskLog' = [deskLog EXCEPT !.reported = @ + 1,
                                  !.strayed = deskLine.order.account # desk.account]
    /\ UNCHANGED book

\* Refused, lost on the way, or executed and the refresh failed: the same message, and
\* the form is as it was, ready to be sent again.
FailOrder ==
    /\ deskLine.order # Nil
    /\ deskLog.left["troubles"] > 0
    /\ deskLog' = [deskLog EXCEPT !.left["troubles"] = @ - 1,
                      !.unsaid = IF deskLine.order.stage = "sent" THEN @ ELSE @ + 1]
    /\ desk' = [desk EXCEPT !.said = "error"]
    /\ deskLine' = [deskLine EXCEPT !.order = Nil]
    /\ UNCHANGED book

-----------------------------------------------------------------------------
DeskInit ==
    LET a == CHOOSE x \in Accounts : TRUE
        s == CHOOSE x \in Symbols : TRUE
    IN  /\ book = [x \in Accounts |-> 0]
        /\ desk = [account |-> a, symbol |-> s, shown |-> Nil, chart |-> Nil,
                   quantity |-> Nil, said |-> ""]
        /\ deskLine = [accounts |-> {[of |-> a, got |-> Nil, active |-> TRUE]},
                       histories |-> {[of |-> s, got |-> Nil, active |-> TRUE, timer |-> FALSE]},
                       order |-> Nil]
        /\ \E b \in DeskBounds :
              deskLog = [left |-> b, reported |-> 0, unsaid |-> 0, strayed |-> FALSE,
                         unloaded |-> FALSE, chartless |-> FALSE]

DeskNext ==
    \/ \E a \in Accounts : SelectAccount(a)
    \/ \E l \in deskLine.accounts : ServeAccount(l) \/ ArriveAccount(l) \/ FailAccount(l)
    \/ \E s \in Symbols : SelectSymbol(s)
    \/ \E h \in deskLine.histories : ServeHistory(h) \/ ArriveHistory(h) \/ FailHistory(h)
    \/ ReloadHistory \/ TypeQuantity \/ SubmitOrder \/ ExecuteOrder \/ ServeRefresh
    \/ EndOrder \/ FailOrder

DeskSpec == DeskInit /\ [][DeskNext]_deskVars

-----------------------------------------------------------------------------
ExecutedHere == SumFunctionOnSet(book, Accounts)
UnderWay == IF deskLine.order # Nil /\ deskLine.order.stage # "sent" THEN 1 ELSE 0

\* Once nothing is loading, the positions, the orders and the chart are those of the
\* account and of the asset selected: but when an order was under way while the client
\* changed the account, or a load failed.
DeskShowsSelection ==
    /\ (deskLine.accounts = {} /\ deskLine.order = Nil) =>
          \/ desk.shown # Nil /\ desk.shown.of = desk.account
          \/ deskLog.strayed \/ deskLog.unloaded
    /\ deskLine.histories = {} => desk.chart = desk.symbol \/ deskLog.chartless

\* An order the page sent is executed once, and each execution is told to the client,
\* but one whose answer was lost or whose refresh failed: he is then told of an error,
\* with the form ready to send the order again.
OrdersAreTold == ExecutedHere = deskLog.reported + deskLog.unsaid + UnderWay

-----------------------------------------------------------------------------
(* The inductive invariant, from which ScreensProofs has the properties *)

AccountLoad(l) == l = [of |-> l.of, got |-> l.got, active |-> l.active]
HistoryLoad(h) == h = [of |-> h.of, got |-> h.got, active |-> h.active, timer |-> h.timer]
AnsweredHoldings == [of : Accounts, orders : Nat]
OrderSent(o) ==
    /\ o \in [account : Accounts, symbol : Symbols, got : {Nil} \cup AnsweredHoldings,
              stage : {"sent", "executed", "refreshing"}]
    /\ o.stage = "refreshing" => o.got \in AnsweredHoldings /\ o.got.of = o.account

DeskTypeOK ==
    /\ book \in [Accounts -> Nat]
    /\ desk = [account |-> desk.account, symbol |-> desk.symbol, shown |-> desk.shown,
               chart |-> desk.chart, quantity |-> desk.quantity, said |-> desk.said]
    /\ desk.account \in Accounts /\ desk.symbol \in Symbols
    /\ deskLine = [accounts |-> deskLine.accounts, histories |-> deskLine.histories,
                   order |-> deskLine.order]
    /\ \A l \in deskLine.accounts : AccountLoad(l)
    /\ \A h \in deskLine.histories : HistoryLoad(h)
    /\ deskLine.order # Nil => OrderSent(deskLine.order)
    /\ deskLog = [left |-> deskLog.left, reported |-> deskLog.reported,
                  unsaid |-> deskLog.unsaid, strayed |-> deskLog.strayed,
                  unloaded |-> deskLog.unloaded, chartless |-> deskLog.chartless]
    /\ deskLog.reported \in Nat /\ deskLog.unsaid \in Nat
    /\ deskLog.strayed \in BOOLEAN /\ deskLog.unloaded \in BOOLEAN /\ deskLog.chartless \in BOOLEAN

\* A load that may still be shown is of the selection, and brings what it was asked for.
LoadsFit ==
    /\ \A l \in deskLine.accounts :
          /\ l.of \in Accounts
          /\ l.got # Nil => l.got \in AnsweredHoldings /\ l.got.of = l.of
          /\ l.active => l.of = desk.account
    /\ \A h \in deskLine.histories :
          /\ h.got # Nil => h.got = h.of
          /\ h.active => h.of = desk.symbol

\* What is shown is of the selection, or is being loaded, or was crossed by an order or a failure.
AccountComes ==
    \/ desk.shown # Nil /\ desk.shown.of = desk.account
    \/ deskLog.strayed \/ deskLog.unloaded
    \/ \E l \in deskLine.accounts : l.active
ChartComes ==
    \/ desk.chart = desk.symbol \/ deskLog.chartless
    \/ \E h \in deskLine.histories : h.active /\ ~h.timer

DeskInv == DeskTypeOK /\ LoadsFit /\ AccountComes /\ ChartComes /\ OrdersAreTold
=============================================================================
