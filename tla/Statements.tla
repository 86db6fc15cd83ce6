----------------------------- MODULE Statements -----------------------------
(***************************************************************************)
(* The statement of one bank account: the lines TransferGateway writes, the *)
(* two lists made of them (the client's and the staff's), and what          *)
(* generateStatementPdf deduces from a list: opening balance, credits,      *)
(* debits and closing balance of a period; and the overview of the          *)
(* analytics page, which is computed from the same lines.  A list is the    *)
(* set of its lines and the order in which it is sorted: no two lines of    *)
(* one account are stamped with the same instant.                           *)
(*                                                                         *)
(* A line is stamped now(), the start of its transaction, and written when  *)
(* the transaction has got the account row: two transactions that wait for  *)
(* the row may commit in the other order.  The client's list carries the    *)
(* day of a line only, so that its sort leaves the lines of a day as the    *)
(* query returned them, the latest first.                                   *)
(***************************************************************************)
EXTENDS Integers, Sequences, SequencesExt, FiniteSets, Functions

CONSTANTS
    StatementBounds,    \* bounds: transfers, instants
    Opening0,           \* balance of the account before the first line
    LineAmounts,        \* amounts of transfers
    TicksPerDay         \* instants of a day

ASSUME StatementAssumption ==
    Opening0 \in Nat /\ LineAmounts \subseteq Nat \ {0} /\ TicksPerDay \in Nat \ {0}

VARIABLES
    clock,      \* the instant
    balance,    \* accounts.balance
    lines,      \* bank_transactions of the account, in the order they were committed
    started,    \* transfers that have begun and not got the row: [at, direction, amount]
    linesLeft   \* what is left of the bounds

statementVars == <<clock, balance, lines, started, linesLeft>>

DayOf(at) == at \div TicksPerDay

-----------------------------------------------------------------------------
(* Writing *)

StatementInit ==
    /\ clock = 0 /\ balance = Opening0 /\ lines = <<>> /\ started = {}
    /\ \E b \in StatementBounds : linesLeft = b

\* Instants differ: now() has microseconds, and each transfer starts at its own.
Begin(direction, amount) ==
    /\ linesLeft.transfers > 0
    /\ \A t \in started : t.at # clock
    /\ \A i \in DOMAIN lines : lines[i].at # clock
    /\ started' = started \cup {[at |-> clock, direction |-> direction, amount |-> amount]}
    /\ linesLeft' = [linesLeft EXCEPT !.transfers = @ - 1]
    /\ UNCHANGED <<clock, balance, lines>>

\* writeLedger: a debit is negative, an arriving transfer positive.
Written(t, after) ==
    [at |-> t.at, after |-> after,
     type |-> IF t.direction = "out" THEN "debit" ELSE "transfer",
     amount |-> IF t.direction = "out" THEN - t.amount ELSE t.amount]

\* The account row is locked, changed and released by the commit: one at a time.
Post(t) ==
    /\ t \in started
    /\ IF t.direction = "out" /\ balance < t.amount
       THEN UNCHANGED <<balance, lines>>
       ELSE LET after == IF t.direction = "out" THEN balance - t.amount ELSE balance + t.amount
            IN  balance' = after /\ lines' = Append(lines, Written(t, after))
    /\ started' = started \ {t}
    /\ UNCHANGED <<clock, linesLeft>>

Tick ==
    /\ linesLeft.instants > 0
    /\ clock' = clock + 1
    /\ linesLeft' = [linesLeft EXCEPT !.instants = @ - 1]
    /\ UNCHANGED <<balance, lines, started>>

StatementNext ==
    \/ \E d \in {"in", "out"}, n \in LineAmounts : Begin(d, n)
    \/ \E t \in started : Post(t)
    \/ Tick

StatementSpec == StatementInit /\ [][StatementNext]_statementVars

-----------------------------------------------------------------------------
(* Reading *)

\* Mutant: a transfer counts as a debit.
SignOfCreditOnly(l) == IF l.type = "credit" THEN 1 ELSE -1

\* TransactionsController and UsersManagementService: the sign comes from the type.
SignOf(l) == IF l.type \in {"credit", "transfer"} THEN 1 ELSE -1
Size(n) == IF n < 0 THEN -n ELSE n
Read(l) == [at |-> l.at, day |-> DayOf(l.at), after |-> l.after,
            amount |-> SignOf(l) * Size(l.amount)]

\* The lines of a period, as the two lists have them.
Listed(from, to) == {l \in {Read(k) : k \in ToSet(lines)} : l.day \in from..to}

\* handleDownload sorts by the day that a line carries.  The sort is stable and the query
\* returned the latest first, so that the lines of a day stay in that order.
ClientBefore(x, y) == x.day < y.day \/ (x.day = y.day /\ x.at > y.at)

\* downloadStatement sorts by the full instant.
StaffBefore(x, y) == x.at < y.at

\* generateStatementPdf: the first and the last line of a list, and what it deduces.
FirstLine(Before(_, _), list) == CHOOSE x \in list : \A y \in list \ {x} : Before(x, y)
LastLine(Before(_, _), list) == CHOOSE x \in list : \A y \in list \ {x} : Before(y, x)
OpeningBalance(first) == first.after - first.amount
Total(list) == SumFunctionOnSet([l \in list |-> l.amount], list)
ClosingBalance(last) == last.after
AddsUp(first, list, last) == OpeningBalance(first) + Total(list) = ClosingBalance(last)

\* AccountChart: a last point "current balance" is added when the last line has another.
ChartEndsWithLine(last) == last.after = balance

-----------------------------------------------------------------------------
Days == 0..DayOf(clock)
Periods == {p \in Days \X Days : p[1] <= p[2]}
WholeTime == <<0, DayOf(clock)>>

\* Two transfers waited for the row and committed in the other order.
Crossed == \E i, j \in DOMAIN lines : i < j /\ lines[i].at > lines[j].at
TwoInADay == \E i, j \in DOMAIN lines : i # j /\ DayOf(lines[i].at) = DayOf(lines[j].at)

\* Of every period, opening balance, credits and debits of a statement give its closing
\* balance, and the last line's balance is the account's: but when two transfers waited
\* for the account and were committed in the other order and, in the client's list, when
\* a day has two lines.
StatementsAddUp ==
    Crossed \/
    \A p \in Periods : LET list == Listed(p[1], p[2]) IN
        list # {} =>
            /\ AddsUp(FirstLine(StaffBefore, list), list, LastLine(StaffBefore, list))
            /\ p = WholeTime => ChartEndsWithLine(LastLine(StaffBefore, list))
            /\ TwoInADay \/
               /\ AddsUp(FirstLine(ClientBefore, list), list, LastLine(ClientBefore, list))
               /\ p = WholeTime => ChartEndsWithLine(LastLine(ClientBefore, list))

-----------------------------------------------------------------------------
(***************************************************************************)
(* The figures made of the same lines for the analytics page: what          *)
(* AnalyticsService computes for a client, or for an advisor or director    *)
(* about his clients, and what AnalyticsPage shows of it.                   *)
(*                                                                         *)
(* An overview is made of several queries run at once on connections of     *)
(* their own: the balance and the lines may be of different instants, and   *)
(* the months listed are those of the instant when all have answered.  A    *)
(* month is the period of TicksPerDay instants the statement calls a day.   *)
(***************************************************************************)
CONSTANTS
    MonthChoices,       \* numbers of months offered
    AnalyticsBounds,    \* bounds: selections, failures, and the transfers these go with;
                        \* without "opened" the page is not
    NoFigures           \* nothing read yet; nothing shown yet

ASSUME AnalyticsAssumption ==
    /\ MonthChoices \subseteq Nat
    /\ \A b \in AnalyticsBounds : "selections" \in DOMAIN b /\ b.selections \in Nat

VARIABLES
    months,     \* the number selected
    shown,      \* data: the overview shown
    failed,     \* the page shows an error
    asks,       \* requests under way
    askLog      \* history, and what is left of the bounds

analyticsVars == <<statementVars, months, shown, failed, asks, askLog>>
pageUnchanged == <<months, shown, failed>>

MonthOf(at) == DayOf(at)
Ask(kind, n, m) ==
    [kind |-> kind, n |-> n, months |-> m, scope |-> IF kind = "staff" THEN "asked" ELSE "own",
     bank |-> NoFigures, rows |-> NoFigures, answer |-> NoFigures]

-----------------------------------------------------------------------------
(* The page *)

\* One of the buttons, or the retry of an error: load() in either case, whatever is
\* under way.
SelectMonths(m) ==
    /\ askLog.left.selections > 0
    /\ m # months \/ failed
    /\ months' = m /\ failed' = FALSE
    /\ asks' = asks \cup {Ask(askLog.kind, askLog.left.selections, m)}
    /\ askLog' = [askLog EXCEPT !.left.selections = @ - 1]
    /\ UNCHANGED <<statementVars, shown>>

\* The answer shown is the one that came last.  Requests are numbered downwards.
ArriveFigures(a) ==
    /\ a.answer # NoFigures
    /\ shown' = a.answer
    /\ asks' = asks \ {a}
    /\ askLog' = [askLog EXCEPT !.latest = IF a.n < @ THEN a.n ELSE @,
                                !.overtaken = askLog.latest < a.n]
    /\ UNCHANGED <<statementVars, months, failed>>

FailFigures(a) ==
    /\ askLog.left.failures > 0
    /\ failed' = TRUE
    /\ asks' = asks \ {a}
    /\ askLog' = [askLog EXCEPT !.left.failures = @ - 1]
    /\ UNCHANGED <<statementVars, months, shown>>

-----------------------------------------------------------------------------
(* The service *)

Sent(a, b) == asks' = (asks \ {a}) \cup {b}

Incomes(list) == {l \in list : l.amount >= 0}
Outgoings(list) == {l \in list : l.amount < 0}

Figures(a, bank, list, listed) ==
    [months |-> a.months, bank |-> bank, income |-> Total(Incomes(list)),
     outgoing |-> - Total(Outgoings(list)),
     monthly |-> [m \in listed |->
        LET its == {l \in list : MonthOf(l.at) = m}
        IN  [income |-> Total(Incomes(its)), outgoing |-> - Total(Outgoings(its))]]]

\* emptyMonths, of the instant of the web server.
ListedMonths(m) == (MonthOf(clock) - m + 1)..MonthOf(clock)

\* staffOverview begins with the clients in scope: without any it ends there.
ReadClients(a) ==
    /\ a.scope = "asked"
    /\ \/ Sent(a, [a EXCEPT !.scope = "clients"])
       \/ Sent(a, [a EXCEPT !.scope = "nobody",
                            !.answer = Figures(a, 0, {}, ListedMonths(a.months))])
    /\ UNCHANGED <<statementVars, pageUnchanged, askLog>>

\* The query of the balances.
ReadBank(a) ==
    /\ a.scope \in {"own", "clients"} /\ a.bank = NoFigures
    /\ Sent(a, [a EXCEPT !.bank = [value |-> balance, seen |-> Len(lines)]])
    /\ UNCHANGED <<statementVars, pageUnchanged, askLog>>

\* date_trunc('month', now()) - (months - 1), of the instant of the database.
FirstMonth(m) == MonthOf(clock) - m + 1

\* The query of the lines.
ReadRows(a) ==
    /\ a.scope \in {"own", "clients"} /\ a.rows = NoFigures
    /\ LET from == FirstMonth(a.months)
       IN  Sent(a, [a EXCEPT !.rows =
              [list |-> {l \in ToSet(lines) : MonthOf(l.at) >= from},
               seen |-> Len(lines), month |-> MonthOf(clock)]])
    /\ UNCHANGED <<statementVars, pageUnchanged, askLog>>

\* Both have answered: the totals, the months and their lines.
Compute(a) ==
    /\ a.bank # NoFigures /\ a.rows # NoFigures /\ a.answer = NoFigures
    /\ Sent(a, [a EXCEPT !.answer = Figures(a, a.bank.value, a.rows.list, ListedMonths(a.months))])
    /\ UNCHANGED <<statementVars, pageUnchanged, askLog>>

-----------------------------------------------------------------------------
AnalyticsInit ==
    /\ StatementInit
    /\ months \in MonthChoices /\ shown = NoFigures /\ failed = FALSE
    /\ \E b \in AnalyticsBounds, kind \in {"client", "staff"} :
          /\ askLog = [left |-> b, kind |-> kind, latest |-> b.selections + 2, overtaken |-> FALSE]
          /\ asks = IF b.opened THEN {Ask(kind, b.selections + 1, months)} ELSE {}
          /\ linesLeft.transfers = b.transfers
          /\ b.opened \/ (kind = "client" /\ \A m \in MonthChoices : m <= months)

AnalyticsNext ==
    \/ StatementNext /\ UNCHANGED <<months, shown, failed, asks, askLog>>
    \/ \E m \in MonthChoices : SelectMonths(m)
    \/ \E a \in asks :
          ReadClients(a) \/ ReadBank(a) \/ ReadRows(a) \/ Compute(a)
          \/ ArriveFigures(a) \/ FailFigures(a)

AnalyticsSpec == AnalyticsInit /\ [][AnalyticsNext]_analyticsVars

-----------------------------------------------------------------------------
\* The lines committed first.
FirstLines(n) == {lines[i] : i \in 1..n}

\* An overview agrees with the statement, which takes the sign of a line from its type: of
\* the same lines both have the same incomes and outgoings.  The lines before the window
\* account for the rest of the balance, unless a transfer was committed between the two
\* queries; and the months listed hold all of the lines, unless a month ended meanwhile.
FiguresAgree ==
    \A a \in asks : a.answer # NoFigures /\ a.scope # "nobody" =>
        LET f == a.answer
            first == a.rows.month - a.months + 1
            listed == DOMAIN f.monthly
        IN  /\ f.income - f.outgoing = Total({Read(l) : l \in a.rows.list})
            /\ a.bank.seen = a.rows.seen =>
                 LET before == {l \in FirstLines(a.rows.seen) : MonthOf(l.at) < first}
                 IN  f.bank = Opening0 + Total(before) + f.income - f.outgoing
            /\ listed = first..a.rows.month =>
                 /\ f.income = SumFunctionOnSet([m \in listed |-> f.monthly[m].income], listed)
                 /\ f.outgoing = SumFunctionOnSet([m \in listed |-> f.monthly[m].outgoing], listed)

\* The figures shown are those of the number of months selected, once all is answered,
\* unless the answer to an earlier selection came after.
FiguresAreSelected ==
    asks = {} /\ ~failed /\ shown # NoFigures =>
        shown.months = months \/ askLog.overtaken

-----------------------------------------------------------------------------
(* The inductive invariant, from which ScreensProofs has the properties *)

AskFields == {"kind", "n", "months", "scope", "bank", "rows", "answer"}

\* The number of the last request.
LastAsked == askLog.left.selections + 1

OverviewTypeOK ==
    /\ DOMAIN askLog = {"left", "kind", "latest", "overtaken"}
    /\ "selections" \in DOMAIN askLog.left /\ askLog.left.selections \in Nat
    /\ askLog.latest \in Nat
    /\ \A a \in asks :
          /\ DOMAIN a = AskFields /\ a.n \in Nat /\ a.n >= LastAsked
          /\ a.answer # NoFigures => a.answer.months = a.months
          /\ a.n = LastAsked => a.months = months

\* The last request is under way, has failed or has arrived.
LastIsKnown ==
    \/ \E a \in asks : a.n = LastAsked
    \/ failed \/ askLog.latest <= LastAsked
    \/ asks = {} /\ shown = NoFigures

\* What is shown is of the number of months selected, or will be replaced.
ShownIsSelected ==
    \/ shown = NoFigures \/ shown.months = months \/ askLog.overtaken \/ failed
    \/ \E a \in asks : a.n = LastAsked

OverviewInv == OverviewTypeOK /\ LastIsKnown /\ ShownIsSelected

\* Lines and transfers under way are of instants of their own, and a line is signed by its type.
LinesTypeOK ==
    /\ clock \in Nat
    /\ lines \in Seq([at : Nat, after : Int, type : {"debit", "transfer"}, amount : Int])
    /\ \A i \in DOMAIN lines :
          lines[i].at <= clock /\ (lines[i].type = "debit" <=> lines[i].amount < 0)
    /\ \A t \in started : t.at \in Nat /\ t.at <= clock /\ t.amount \in LineAmounts
StampsDiffer ==
    /\ \A i, j \in DOMAIN lines : lines[i].at = lines[j].at => i = j
    /\ \A t, u \in started : t.at = u.at => t = u
    /\ \A t \in started, i \in DOMAIN lines : t.at # lines[i].at

\* Each line continues the balance of the one committed before it.
AfterLine(n) == IF n = 0 THEN Opening0 ELSE lines[n].after
LinesChain ==
    /\ \A i \in DOMAIN lines : lines[i].after = AfterLine(i - 1) + lines[i].amount
    /\ balance = AfterLine(Len(lines))
LinesInv == LinesTypeOK /\ StampsDiffer /\ LinesChain

\* What the queries of a request have seen: the balance after some line, and of the lines
\* committed until an instant those of its window.
BankIsSeen(a) == a.bank.seen \in 0..Len(lines) /\ a.bank.value = AfterLine(a.bank.seen)
RowsAreSeen(a) ==
    /\ a.rows.seen \in 0..Len(lines) /\ a.rows.month \in Nat
    /\ a.rows.list = {l \in FirstLines(a.rows.seen) : MonthOf(l.at) >= a.rows.month - a.months + 1}
    /\ \A l \in FirstLines(a.rows.seen) : MonthOf(l.at) <= a.rows.month
IsComputed(a) ==
    /\ a.bank # NoFigures /\ a.rows # NoFigures
    /\ LET listed == DOMAIN a.answer.monthly
       IN  IsFiniteSet(listed) /\ a.answer = Figures(a, a.bank.value, a.rows.list, listed)
AskHolds(a) ==
    /\ a.months \in MonthChoices
    /\ a.scope # "nobody" =>
          /\ a.bank # NoFigures => BankIsSeen(a)
          /\ a.rows # NoFigures => RowsAreSeen(a)
          /\ a.answer # NoFigures => IsComputed(a)
QueriesHold == months \in MonthChoices /\ \A a \in asks : AskHolds(a)

FiguresInv == OverviewInv /\ LinesInv /\ QueriesHold
=============================================================================
