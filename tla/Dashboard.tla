----------------------------- MODULE Dashboard -----------------------------
(***************************************************************************)
(* The overview of a client: his accounts (useDashboardData), the one he    *)
(* selected (DashboardContent, PortfolioCard), its lines and the form that   *)
(* tops it up from another account (TransactionsSection).                   *)
(*                                                                         *)
(* The lines are loaded by an effect on the selection that drops no older    *)
(* answer; a transfer loads the lines of the account it was sent for, and    *)
(* then the accounts.  The form has no idempotency key.                     *)
(***************************************************************************)
EXTENDS Integers, Sequences, SequencesExt, FiniteSets

CONSTANTS
    PurseList,      \* accounts of the client, in the order of the server
    FirstPurse,     \* the one selected first
    HomeAmounts,    \* amounts he may enter
    HomeBounds,     \* bounds: selections, gestures on the form, transfers, troubles
    NoPurse         \* nothing selected, no list

VARIABLES
    purse,      \* server: balance and number of lines of each account
    home,       \* the page
    homeLine,   \* requests under way
    homeLog     \* history, and what is left of the bounds

homeVars == <<purse, home, homeLine, homeLog>>

Purses == ToSet(PurseList)

ASSUME HomeAssumption ==
    /\ PurseList \in Seq(Purses) /\ FirstPurse \in Purses /\ NoPurse \notin Purses
    /\ HomeAmounts \subseteq Nat

BalancesIn(rows) == [a \in Purses |-> rows[a].balance]
LinesIn(rows, a) == [of |-> a, lines |-> rows[a].lines]

HomeGesture(what) ==
    /\ homeLog.left[what] > 0
    /\ homeLog' = [homeLog EXCEPT !.left[what] = @ - 1]

\* of, from: the account asked for or topped up, and the one debited.  after: the load
\* follows a transfer, whose button waits for it.
Requested(kind, of, after) ==
    [kind |-> kind, of |-> of, from |-> NoPurse, amount |-> 0, after |-> after,
     stage |-> "sent", got |-> NoPurse, old |-> FALSE]

\* History: a change of a balance makes the answers given before it, not yet shown, old.
Outdate(asked) == {[l EXCEPT !.old = @ \/ (l.kind # "transfer" /\ l.stage = "served")] : l \in asked}

-----------------------------------------------------------------------------
(* Server *)

\* The accounts, or the lines of one: what the rows now hold.
ServeHomeLoad(l) ==
    /\ l \in homeLine /\ l.kind # "transfer" /\ l.stage = "sent"
    /\ homeLine' = (homeLine \ {l}) \cup {[l EXCEPT !.stage = "served", !.got = purse]}
    /\ UNCHANGED <<purse, home, homeLog>>

Moved(l) ==
    [purse EXCEPT ![l.from] = [balance |-> @.balance - l.amount, lines |-> @.lines + 1],
                  ![l.of] = [balance |-> @.balance + l.amount, lines |-> @.lines + 1]]

\* InitiateTransferUseCase, with the gateway as its port promises it (Transfers): executed
\* when the balance suffices, or refused for a reason of its own.
ServeTopUp(l) ==
    /\ l.kind = "transfer" /\ l \in homeLine /\ l.stage = "sent"
    /\ \/ /\ purse[l.from].balance >= l.amount
          /\ purse' = Moved(l)
          /\ homeLine' = Outdate(homeLine \ {l}) \cup {[l EXCEPT !.stage = "served"]}
       \/ /\ homeLine' = (homeLine \ {l}) \cup {[l EXCEPT !.stage = "refused"]}
          /\ UNCHANGED purse
    /\ UNCHANGED <<home, homeLog>>

\* A transfer made elsewhere debits an account; the page hears nothing of it.
DebitElsewhere(a) ==
    /\ purse[a].balance > 0
    /\ homeLog.left["troubles"] > 0
    /\ homeLog' = [homeLog EXCEPT !.left["troubles"] = @ - 1, !.elsewhere = TRUE]
    /\ purse' = [purse EXCEPT ![a] = [balance |-> @.balance - 1, lines |-> @.lines + 1]]
    /\ homeLine' = Outdate(homeLine)
    /\ UNCHANGED home

-----------------------------------------------------------------------------
(* Accounts and selection *)

\* The effects on a new selection: the form closes and the lines are asked for; the
\* amount in the form stays.
Selecting(a) == [home EXCEPT !.selected = a, !.open = FALSE, !.said = "", !.source = NoPurse]

SelectPurse(a) ==
    /\ a # home.selected /\ home.accounts # NoPurse
    /\ HomeGesture("selections")
    /\ home' = Selecting(a)
    /\ homeLine' = homeLine \cup {Requested("lines", a, FALSE)}
    /\ UNCHANGED purse

\* loadData; the first accounts select the checking account.
ArriveHomeAccounts(l) ==
    /\ l \in homeLine /\ l.kind = "accounts" /\ l.stage = "served"
    /\ LET first == home.selected = NoPurse
       IN  /\ home' = [IF first THEN Selecting(FirstPurse) ELSE home
                          EXCEPT !.accounts = BalancesIn(l.got), !.busy = @ /\ ~l.after]
           /\ homeLine' = (homeLine \ {l}) \cup
                          (IF first THEN {Requested("lines", FirstPurse, FALSE)} ELSE {})
    /\ homeLog' = [homeLog EXCEPT !.unloaded = FALSE]
    /\ UNCHANGED purse

\* One of its requests fails: the accounts shown stay.
FailHomeAccounts(l) ==
    /\ l \in homeLine /\ l.kind = "accounts"
    /\ homeLog.left["troubles"] > 0
    /\ homeLog' = [homeLog EXCEPT !.left["troubles"] = @ - 1, !.unloaded = TRUE]
    /\ home' = [home EXCEPT !.busy = @ /\ ~l.after]
    /\ homeLine' = homeLine \ {l}
    /\ UNCHANGED purse

\* loadActivities: whatever the selection now is; after a transfer the accounts follow.
ShowLines(l, list) ==
    /\ home' = [home EXCEPT !.list = list]
    /\ homeLine' = (homeLine \ {l}) \cup (IF l.after THEN {Requested("accounts", NoPurse, TRUE)} ELSE {})
    /\ UNCHANGED purse

ArriveHomeLines(l) ==
    /\ l \in homeLine /\ l.kind = "lines" /\ l.stage = "served"
    /\ ShowLines(l, LinesIn(l.got, l.of))
    /\ homeLog' = [homeLog EXCEPT !.strayed = l.of # home.selected, !.crossed = l.old, !.unlisted = FALSE]

\* An empty list.
FailHomeLines(l) ==
    /\ l \in homeLine /\ l.kind = "lines"
    /\ homeLog.left["troubles"] > 0
    /\ ShowLines(l, NoPurse)
    /\ homeLog' = [homeLog EXCEPT !.left["troubles"] = @ - 1, !.unlisted = TRUE]

-----------------------------------------------------------------------------
(* The form *)

\* transferSource: the one chosen, or the first of the others, if there are any.
SourceOptions == {i \in DOMAIN PurseList : PurseList[i] # home.selected}
TopUpSource ==
    IF home.source # NoPurse THEN home.source
    ELSE IF SourceOptions = {} THEN NoPurse
    ELSE PurseList[Min(SourceOptions)]

ToggleForm ==
    /\ home.selected # NoPurse
    /\ HomeGesture("gestures")
    /\ home' = [home EXCEPT !.open = ~@, !.said = ""]
    /\ UNCHANGED <<purse, homeLine>>

\* The chart takes the place of the form.
ToggleChart ==
    /\ home.open
    /\ HomeGesture("gestures")
    /\ home' = [home EXCEPT !.open = FALSE]
    /\ UNCHANGED <<purse, homeLine>>

CancelTopUp ==
    /\ home.open
    /\ HomeGesture("gestures")
    /\ home' = [home EXCEPT !.open = FALSE, !.said = "", !.amount = 0]
    /\ UNCHANGED <<purse, homeLine>>

ChooseSource(a) ==
    /\ home.open /\ a \notin {home.selected, TopUpSource}
    /\ HomeGesture("gestures")
    /\ home' = [home EXCEPT !.source = a]
    /\ UNCHANGED <<purse, homeLine>>

EnterAmount(n) ==
    /\ home.open /\ n # home.amount
    /\ HomeGesture("gestures")
    /\ home' = [home EXCEPT !.amount = n]
    /\ UNCHANGED <<purse, homeLine>>

\* handleTransfer, with what the form holds at the click; refused by the page when the
\* balance it shows is too small.
SubmitTopUp ==
    /\ home.open /\ ~home.busy /\ home.amount > 0 /\ TopUpSource # NoPurse
    /\ HomeGesture("transfers")
    /\ IF home.amount > home.accounts[TopUpSource]
       THEN home' = [home EXCEPT !.said = "error"] /\ UNCHANGED homeLine
       ELSE /\ home' = [home EXCEPT !.said = "", !.busy = TRUE]
            /\ homeLine' = homeLine \cup
                  {[Requested("transfer", home.selected, TRUE) EXCEPT !.from = TopUpSource, !.amount = home.amount]}
    /\ UNCHANGED purse

\* The form closes, also one opened since for another account, and its amount goes.
ArriveToppedUp(l) ==
    /\ l \in homeLine /\ l.kind = "transfer" /\ l.stage = "served"
    /\ home' = [home EXCEPT !.open = FALSE, !.amount = 0]
    /\ homeLine' = (homeLine \ {l}) \cup {Requested("lines", l.of, TRUE)}
    /\ homeLog' = [homeLog EXCEPT !.told = @ + 1]
    /\ UNCHANGED purse

\* Refused, or the answer is lost: an error in the form, whose amount stays.
FailTopUp(l) ==
    /\ l \in homeLine /\ l.kind = "transfer"
    /\ \/ l.stage = "refused" /\ UNCHANGED homeLog
       \/ /\ homeLog.left["troubles"] > 0
          /\ homeLog' = [homeLog EXCEPT !.left["troubles"] = @ - 1,
                            !.untold = IF l.stage = "served" THEN @ + 1 ELSE @]
    /\ home' = [home EXCEPT !.said = "error", !.busy = FALSE]
    /\ homeLine' = homeLine \ {l}
    /\ UNCHANGED purse

-----------------------------------------------------------------------------
HomeInit ==
    /\ purse = [a \in Purses |-> [balance |-> 1, lines |-> 0]]
    /\ home = [accounts |-> NoPurse, selected |-> NoPurse, list |-> NoPurse, open |-> FALSE,
               source |-> NoPurse, amount |-> 0, said |-> "", busy |-> FALSE]
    /\ homeLine = {Requested("accounts", NoPurse, FALSE)}
    /\ \E b \in HomeBounds :
          homeLog = [left |-> b, told |-> 0, untold |-> 0, elsewhere |-> FALSE, unloaded |-> FALSE,
                     strayed |-> FALSE, crossed |-> FALSE, unlisted |-> FALSE]

HomeNext ==
    \/ \E l \in homeLine :
          \/ ServeHomeLoad(l) \/ ServeTopUp(l)
          \/ ArriveHomeAccounts(l) \/ FailHomeAccounts(l) \/ ArriveHomeLines(l) \/ FailHomeLines(l)
          \/ ArriveToppedUp(l) \/ FailTopUp(l)
    \/ \E a \in Purses : SelectPurse(a) \/ ChooseSource(a) \/ DebitElsewhere(a)
    \/ \E n \in HomeAmounts : EnterAmount(n)
    \/ ToggleForm \/ ToggleChart \/ CancelTopUp \/ SubmitTopUp

HomeSpec == HomeInit /\ [][HomeNext]_homeVars

-----------------------------------------------------------------------------
\* Once nothing is under way, the balances shown are the server's, unless their last load
\* failed, and the lines those of the selected account, unless the answer for another
\* account, one older than a transfer, or a failure came last; a transfer made elsewhere,
\* or whose answer was lost, is not noticed.
HomeCatchesUp ==
    homeLine = {} /\ ~homeLog.elsewhere /\ homeLog.untold = 0 =>
        /\ home.accounts = BalancesIn(purse) \/ homeLog.unloaded
        /\ \/ home.selected = NoPurse
           \/ home.list = LinesIn(purse, home.selected)
           \/ homeLog.strayed \/ homeLog.crossed \/ homeLog.unlisted

\* What left the accounts is what the page was told of, or its answer was lost; no balance
\* is negative, although the page compares the amount with a balance it read before.
TopUpsAreTold ==
    LET lines == SumFunctionOnSet([a \in Purses |-> purse[a].lines], Purses)
        open == Cardinality({l \in homeLine : l.kind = "transfer" /\ l.stage = "served"})
    IN  /\ \A a \in Purses : purse[a].balance >= 0
        /\ homeLog.elsewhere \/ lines = 2 * (homeLog.told + homeLog.untold + open)

-----------------------------------------------------------------------------
(* The inductive invariant, from which ScreensProofs has the properties *)

HomeFields == {"accounts", "selected", "list", "open", "source", "amount", "said", "busy"}
LoadFields == {"kind", "of", "from", "amount", "after", "stage", "got", "old"}
HomeLogFields ==
    {"left", "told", "untold", "elsewhere", "unloaded", "strayed", "crossed", "unlisted"}

LoadOK(l) ==
    /\ DOMAIN l = LoadFields
    /\ l.kind \in {"accounts", "lines", "transfer"} /\ l.stage \in {"sent", "served", "refused"}
    /\ l.kind = "transfer" =>
          l.of \in Purses /\ l.from \in Purses /\ l.from # l.of /\ l.amount \in Nat /\ l.after
    /\ l.kind = "lines" => l.of \in Purses
    /\ l.stage = "refused" => l.kind = "transfer"

HomeTypeOK ==
    /\ purse \in [Purses -> [balance : Nat, lines : Nat]]
    /\ DOMAIN home = HomeFields
    /\ home.selected \in Purses \cup {NoPurse} /\ home.source \in Purses \cup {NoPurse}
    /\ home.open => home.selected # NoPurse
    /\ home.source # NoPurse => home.source # home.selected
    /\ home.amount \in Nat
    /\ \A l \in homeLine : LoadOK(l)
    /\ DOMAIN homeLog = HomeLogFields /\ homeLog.told \in Nat /\ homeLog.untold \in Nat

\* One transfer at a time, with the loads that follow it; the button waits for the last.
OneAfter(asked) ==
    /\ \A l, m \in asked : l.after /\ m.after => l = m
    /\ \A l \in asked : l.after => home.busy /\ home.selected # NoPurse
Executed(asked) == \E l \in asked : l.kind = "transfer" /\ l.stage = "served"
TopUpCount ==
    homeLog.elsewhere \/
    SumFunctionOnSet([a \in Purses |-> purse[a].lines], Purses)
        = 2 * (homeLog.told + homeLog.untold + (IF Executed(homeLine) THEN 1 ELSE 0))

\* What the answers say, and what is still to come.
Unseen == homeLog.elsewhere \/ homeLog.untold # 0
AnswersCurrent(asked, rows) ==
    \A l \in asked : l.stage = "served" =>
        /\ l.kind = "accounts" => l.got = rows
        /\ l.kind = "lines" /\ ~l.old => l.got = rows
FirstLoad(asked) ==
    \A l \in asked : l.kind = "accounts" /\ ~l.after =>
        /\ home.selected = NoPurse /\ home.accounts = NoPurse
        /\ \A m \in asked : m.kind = "accounts" /\ ~m.after => l = m
AccountsCome ==
    \/ home.accounts = BalancesIn(purse) \/ homeLog.unloaded
    \/ \E l \in homeLine : l.kind = "accounts" \/ (l.after /\ (l.kind = "lines" \/ l.stage = "served"))
LinesCome ==
    \/ home.selected = NoPurse
    \/ home.list = LinesIn(purse, home.selected)
    \/ homeLog.strayed \/ homeLog.crossed \/ homeLog.unlisted
    \/ \E l \in homeLine : l.kind = "lines" \/ (l.kind = "transfer" /\ l.stage = "served")

HomeInv ==
    /\ HomeTypeOK /\ OneAfter(homeLine) /\ TopUpCount /\ FirstLoad(homeLine)
    /\ Unseen \/ (AnswersCurrent(homeLine, purse) /\ AccountsCome /\ LinesCome)
=============================================================================
