# forRealBank: specifications and proofs

TLA+ modules of the parts of forRealBank in which requests, sockets, timers and
pages meet on the same state: rows, memory of a replica, what a page shows; the
TLC configurations that check them on small instances, and TLAPS proofs, for instances
of every size, of the main invariants of money, advisors, users, ban requests, messages,
live updates and pages.

Everything is translated from the code of the repository (`src/`): one action
is one SQL statement of a handler, one step between two `await`s, or one gesture,
answer, event or timer of a page. Paths
below are relative to `src/`, with `api` = `apps/api-nest/src/interface`,
`app` = `packages/application/src`, `orm` = `packages/infrastructure/typeorm/src`,
`web` = `apps/web-next/src`.

Contents: [1 the system](#1-the-system) · [2 modules](#2-modules-and-how-they-correspond-to-the-code)
· [3 runs](#3-runs) · [4 bounds](#4-bounds) · [5 fairness](#5-fairness) ·
[6 proofs](#6-proofs) · [7 disagreements with the code](#7-where-code-and-documentation-disagree)
· [8 not modelled](#8-what-is-not-modelled) · [9 plan](#9-plan)

## 1 The system

forRealBank is a TypeScript monorepo: a NestJS API that runs as two replicas in
production, a Next.js client, and use cases over TypeORM repositories on one
PostgreSQL database. All that is shared is in the database; the chat gateway
also keeps presence in the memory of each replica and tells the other replica
by NOTIFY.

Four things make concurrency matter here:

* **Few handlers are transactions.** A transfer, an order and a reassignment
  run in a transaction with row locks. Everything else is a sequence of
  autocommitted statements, so two requests interleave statement by statement
  and a failure leaves what was done before it.
* **`save` of TypeORM is two statements**: a SELECT by primary key, then an
  UPDATE of the columns in which the entity in memory differs from that row,
  or an INSERT when there is none. An entity that was loaded long ago writes
  back what it loaded.
* **Transactions are READ COMMITTED.** A statement that waited for a locked row
  sees that row again, and not the rows inserted while it waited.
* **Pages have several sources of one state**: a list that was asked for, events
  of a socket or a stream, a poll, what the user just did. Answers to requests
  come in any order, and React keeps a component's state, timers and pending
  answers when only its properties change.

### Inventory

| Component | State | Operations | Meets | What makes it correct |
|---|---|---|---|---|
| **Transfers** `orm/repositories/TransferGateway.ts`, `app/transactions/usecases/InitiateTransferUseCase.ts`, `api/transactions` | `bank_accounts`, `investment_accounts`, statement lines, `idempotency_key` | validate, claim the key, lock two rows in a fixed order, debit, credit, write two lines, commit; then news and notification | trading (same rows), deletion of users, clients that retry | no overdraft, all or nothing, one movement per key, the statement explains the balance, no deadlock |
| **Trading desk** `api/trading` | cash and `total_value` of a portfolio, positions, orders, catalogue | place (quote, lock, position, save, save, save), pending limit orders, catalogue updates | transfers, quotes, deletion of users | nothing on credit, nothing short, the orders explain cash and holdings |
| **Market quotes** `api/trading/market-quotes.ts` | per-replica caches with a TTL of 60 s and 30 min | quote with timeout and fallback | trading | a price is not older than its TTL |
| **Registration, onboarding** `app/user/usecases/VerifyEmailUseCase.ts`, `app/onboarding`, `api/auth` | token, user, accounts, portfolio, card, advisor link | verify, then create what the client lacks | assignment, repeated calls | a call that says so leaves a complete dossier, nothing twice |
| **Advisor assignment** `orm/repositories/AdvisorClientRepository.ts`, `api/users-management/advisor-reassignment.service.ts` | `advisor_clients`, `advisor_client_history`, hidden conversations | choose the least loaded, link, reassign | bans and deletions of advisors | one advisor, a true audit, nobody replaced silently |
| **Users and authentication** `app/user/usecases`, `orm/repositories/UserRepository.ts`, token repositories | `users`, reset and verification links | register, login with lockout, forgot, reset, verify, ban, roles, profile, delete | each other, on the one row | no update lost, links used once, a new owner of an address is left alone |
| **Ban requests** `api/users-management/ban-requests.service.ts` | `ban_requests`, the ban flag, a conversation with the director | create, decide (claim, ban, revert), staff bans | private conversations, users | a decision stands, status and ban agree |
| **Private conversations** `app/chat/usecases/OpenPrivateConversationUseCase.ts` | conversations and participants | open, look again, give up | ban requests, chat | one conversation per pair, a filed request keeps its own |
| **Messages** `app/chat/usecases/SendMessageUseCase.ts`, `orm/repositories/ConversationUserStateRepository.ts` and others, `api/chat/chat.controller.ts` | messages, read and hidden state, mutes, grouped notifications | send, read, hide, open, mute, bell, side effects of a reassignment | assignment, notifications, gateway | a message brings a hidden conversation back, what is unread is announced, a frozen one stays hidden |
| **Notifications** `orm/repositories/NotificationRepository.ts`, `api/notifications` | `notifications` | create, increment a group, read, delete | messages, transfers, news | see messages |
| **Chat gateway** `api/chat/chat.gateway.ts` | per replica: sockets, rooms, typing, presence, heartbeat (20 s) with a TTL of 60 s | connect, join, leave, type, send, disconnect, kick | bus, messages | nobody present who has left, a banned user is cut off |
| **Cluster bus** `api/chat/chat-cluster.bus.ts` | one LISTEN connection, reconnection after 5 s | publish, deliver, reconnect | the gateways of the replicas | what is lost or reordered does no lasting harm |
| **News, feed, SSE** `api/feed`, `web/features/feed/components/NewsFeed.tsx`, `web/hooks/useSSE.ts` | news, one status row per user and news, a stream that polls every 5 s, the feed shown | publish, deactivate, list, archive, dismiss, restore, stream, retry | notifications | a gesture holds against lists read before it |
| **Notification centre** `web/features/notifications` | the list shown, the counters seen | poll every 10 s, mark, delete, clear by what is shown | messages, news | no message slips by |
| **Chat page** `web/features/chat/useChat.ts`, `web/hooks/useWebSocket.ts`, `ChatDisplay`, `MessageComposer` | messages shown, socket, mark, text, files, typing timer | select, load, join, receive, mark read, type, attach, send | gateway, messages | nothing stored goes unseen but in a gap; only what was shown is read |
| **Conversations list, groups** `web/features/chat/ChatPageContainer.tsx`, `app/chat/usecases/CreateGroupConversationUseCase.ts` | list, selection in the URL, members | refresh, select, hide, open, create a group | chat page | the selection is in the list, the list is the server's |
| **Trading page** `web/app/[locale]/dashboard/trading/page.tsx` | selection, positions, orders, chart, form | select, load, order, refresh | desk, quotes | what is shown is of the selection, an order's outcome is told |
| **Statements, analytics** `web/features/statements`, `api/analytics` | lines and balances; months selected | list, deduce opening and closing balances, sum by month | transfers | the figures add up |
| **Overview** `web/features/dashboard`, `api/accounts` | accounts, lines and form shown | load, select, top up from another account | transfers | lines and balances are of what is selected, a top-up is told |
| **Cards** `api/cards`, `web/features/cards` | `cards` | freeze, oppose, settings | onboarding | cancelled is final |
| **Transfer page, beneficiaries** `web/app/[locale]/dashboard/transfer`, `web/features/transfer`, `api/beneficiaries` | `beneficiaries`, UNIQUE(user, IBAN), panel, form | add, rename, delete, choose, transfer | transfers | the destination is the one chosen |
| **Users pages of the staff** `web/features/users`, `api/users-management` | directory, stack of views | search, open, ban, reassign, request a ban | users, assignment, ban requests | each view shows its user as he is |
| **Second factor** `api/auth/auth.controller.ts`, `web/app/[locale]/dashboard/security` | two columns of the user, the page of each tab | set up, enable, disable | users | nobody is locked out by a secret he never saw |
| **Session** `web/contexts/AuthContext.tsx`, layouts, middleware, login page | cookies, the user a tab believes in | check, log in, log out, redirect | users | the tab knows its user, a banned one is kept out |
| **Bootstrap, metrics, mail, tokens, hashing** | - | start-up DDL, counters, wrappers of libraries | all | - |

The file `PROJECT.json` lists the hazards that follow from this, each at its
line and with the properties that cover it.

## 2 Modules and how they correspond to the code

```
MoneyLedger   <= implements =  Transfers  \
Brokerage     <= implements =  Trading     > Bank        (same rows, same locks)
                               Onboarding
Registration = UserAccounts + Onboarding + AdvisorAssignment
PrivateConversations  <= EXTENDS =  BanRequests
Messages
LiveUpdates  = ChatCluster + Feed + Bell
Screens      = ChatView + ConversationsPage + Attachments + Typing + TradingPage + Quotes
               + Statements + Cards + TransferPage + StaffPages
               + SecondFactor + Session + Dashboard
```

**Bank** is a composition over shared rows. **Registration**, **LiveUpdates** and
**Screens** put modules side by side that share no state: a behaviour is one of
the part that `side`, `part` or `screen` names, chosen in the initial state, and
the others do not move. They say in one specification, with one fairness
condition, what a user's account, the live channels of an open page and the pages do; nothing
is claimed about an interaction between the parts of these three.

Each component's module holds its constants and their assumptions, the state,
one action per statement, the specification and the properties. `MC<Module>`
gives TLC an instance, `<Module>Proofs` holds theorems: BankProofs those of Transfers and
Bank, RegistrationProofs those of AdvisorAssignment, Onboarding and UserAccounts, LiveUpdatesProofs
and ScreensProofs those of their parts. **Sums** has the lemmas about sums that they share (section 6). A definition that
follows a comment starting with `Mutant:` is never used by the
specification: it is the same step with a plausible mistake (a dropped guard, a
wrong order), kept to show that a property notices that mistake.

**MoneyLedger** is what `ITransferGateway` promises: one atomic step moves an
amount along an allowed route and uses up a key, one step closes the accounts
of a user. **Transfers** is the SQL transaction: `req`, `pc`, `sourceVersion`,
`destVersion` are the parameters, the program counter and the uncommitted row
versions of each execution (an *attempt*); `balance`, `live`, `ledger`, `keys`
the tables; `lock` the row locks. `Submit` is the request with the use case's
validation; then the INSERT of the key (which waits for another transaction
that holds it), the two SELECT ... FOR UPDATE in the order of
`type:id`, the conditional UPDATE, the credit with its statement lines, the
commit, and the answer. `Abort` is any failing statement or a dead
replica, `LoseAnswer` a committed transfer whose client hears nothing and may
submit again, `DeleteUser` the cascade. `shape`, chosen at the start from
`UpdateShapes`, is what the driver returns for `UPDATE ... RETURNING`: `"rows"` is the
shape the gateway is written for, `"pair"` the `[rows, count]` of the locked TypeORM
version (section 7). `unfunded` is history: what was credited while the debit of the
source matched no row and the driver hid it. The runs and the proofs are for both
shapes. MoneyLedger has, besides the movement that the port promises, the only other one
left when the refusal of a debit is not heeded (`Overcredit`).

**Brokerage** is the atomic desk: buy or sell units at one price, or close a
user. **Trading** has the statements of `createOrder`: the quote, the locked
account row, the position row, the new values (`Write`), and the saves of order, position
and account with the commit, which are one step (`CommitMarket`) because all of
them are inside the transaction and nobody else reads the rows before. `account` and
`row` are the entities in memory, saved with absolute values. Prices and units
are integers; `Amount` is the rounding to the cent of the order policy, with
`Scale` units to one quoted quantity, and `Bought` rounds the average price as
the code does. The refused order, the pending limit order, the catalogue of the
director and aborts are actions of their own.

**Bank** runs both over one `balance`, `live` and `lock`: a portfolio of the
desk is an investment account of the transfers.

**Onboarding**: `FindToken` ... `ReadWinner` are the statements of
`VerifyEmailUseCase` and `InitializeClientUseCase`; `found` and `checking` are
the lists the call remembers. `createBankAccount` tries an INSERT again after
any error, also after one whose row was stored. `StatementFails` and
`ReplicaDies` cut calls off.

**AdvisorAssignment**: for each client the committed row `link`, the row lock,
and `inserting`, the transaction that has an uncommitted entry in the unique
index, on which others wait. `Scan` and `LockLink` are apart, as are `ScanDelete` and
`Delete`, because a statement that waited sees the row it waited for and no new
one. After the commit come the side effects: hiding, telling the client, the
new and the old advisor. The same module has the onboarding's choice and
`INSERT ... ON CONFLICT DO NOTHING`. In `Row`, `by` is the transaction that
inserted the row, which stands for its tuple identity.

**UserAccounts** follows one e-mail address through registrations, logins,
resets, verifications, bans, role changes, profile updates and deletions.
`copy` is the user a request holds; `Load` and `Update`/`Insert` are the two
statements of `save`, and `diff` the columns that go into the UPDATE. `changed`
remembers what others wrote since a request read the row. Links carry their
user, purpose, expiry and use.

**PrivateConversations** is the opening of a conversation by the chat (create,
add both members, look again, give up for an older one) and by a ban request
(no second look). **BanRequests** adds `create`, with the director chosen under
the advisory lock and the INSERT outside of it, and `decide`: claim, ban,
revert when the ban fails, inform.

**Messages** is one conversation, a group or the private one of a client and an
advisor (`setting` says which, how many calls are made, how many may be cut off and who
uses the bell): `state` (what each member has read and hidden), `mute`, `notes` (the
grouped notifications), `messages` with `created_at` as a counter. A send is
the gateway's check of the conversation, the message, the unhiding and then per
recipient the mute setting, the search for an unread notification and the
increment or creation. Reading and hiding are read-then-save on the state row.

**ChatCluster** has, per instance, the gateway's maps (`rep`: connected sockets,
rooms, members, what peers declared and how old it is), the LISTEN connection,
and the notifications in flight as a set (`wire`). A handler is one step unless
it awaits: authentication and `handleConnection`, the membership and `Join` are apart.
`Crash` runs no `handleDisconnect`; an instance never comes back under its name.
The variables after `faults` are history: the crossings the code does not guard against.
`handleLeaveConversation` does not ask whether the socket is in the room: by one whose
join still awaits its membership, as by one of two sockets in the room, the user leaves the
members (`LeftBehind` remembers the sockets that stay).
So are the two fields of `msg`: the sockets that got the message, and those in the room
since it was sent, to which it is `due`.

**Feed** is the feed of one user: `rows` (the news that are live and his status row for
each), `feed` (the page), `traffic` (the list the stream read, loads, status requests). The
find and the save of a status are two steps; a load that fails on the network leaves the feed, one that the
server answers with an error empties a list (`LoseLoad`, `FailLoad`). **Bell** is the notification centre, whose
polls nothing orders.

**ChatView**: `room` (stored messages, the gateway's rooms), `line` (requests, socket
events in order), `view` (the list, the socket, the text, the mark). **Typing** is the
indicator between two members: flag and timer of the composer, the sets of the gateway,
the set of the reader. **Attachments** is the form of a message or of a news; reading and
shrinking a file is an `await`, so that choices overlap. **ConversationsPage** is the list
beside the display with the URL that holds the selection, and the creation of a group,
row by row. A message that brings a conversation back, the notification of this user
(none for one that he has muted) and the poll of the bell that tells the page are
three steps (`MessageComes`, `NotifyRecipient` or `SkipRecipient`, `PollBell`); of what
another tab hides or shows, others create and a reassignment hides the page hears nothing.

**TradingPage** and **TransferPage** are the two money pages: selections, loads, the form,
lost answers; the order and the transfer themselves are one step there (`ExecuteOrder`,
`ServeTransfer`), their statements are in Trading and Transfers. **Quotes** is the cache
behind the desk, with time in ticks. **Statements** writes ledger lines as TransferGateway does
(stamped at the start, written at the end of a transaction) and reads them as the two
statements do: a list is the set of its lines and the order it is sorted in, since no two lines of an account have
the same instant and all a statement deduces is its first line, its last one and a total. Its second half computes the overview of the analytics page from the same lines.

**Cards**, **SecondFactor**: find, check, `save` as two statements, from several pages.
**StaffPages**: the directory with its search timer and the stack of views of one user.
**Session**: `jar` (the two cookies), `tab` (the user and the path), `errands` (checks,
logins, pushes under way), with the sequence number of `checkAuth`; `welcome` is history:
somebody has just logged in and nothing has happened since that would lead elsewhere.

**Dashboard** is the overview: accounts, the lines of the selected one, whose loads no
effect cancels, and the form that tops it up (`SubmitTopUp` ... `FailTopUp`), with the two
reloads that follow a transfer.

In every page module the variable whose name ends in `Log` (`past`, `tale`, `deskLog` ...)
is history: what is left of the bounds, what the user was told, and the crossings the code
does not guard against, which the properties name.

## 3 Runs

| Run | Instance | Distinct states | What it shows |
|---|---|---|---|
| `transfers` | 4 accounts of 2 users, 7 requests (crossed, repeated key, overdraft, refused routes), 3 attempts, 1 key, both shapes | 88,050 | `IInv`, `NoOverdraft`, `LedgerAddsUp`, `KeyOnce`, `AnswersMatchLedger`, and `ImplementsMoneyLedger` |
| `transfers_driver` | the same, shape `"pair"` only | - | *violated*: `Conservation` |
| `trading` | 2 portfolios, 2 assets of which 1 on offer, 3 orders, prices {1, 6}, units {1, 5}, 4 units to one | 454,748 | `IInv`, `BookHolds`, `NeverOnCreditNorShort`, and `ImplementsBrokerage` |
| `bank` | 3 accounts, 2 transfers, 1 order, both shapes | 171,404 | `MoneyExplained`; `EverythingEnds`: no deadlock between crossed transfers and an order |
| `registration` | two verification calls with one token and failures; or one client, 2 advisors who may leave and 2 requests; or one address with 3 requests | 611,683 | `IInv`, `DossierHolds`, `AccountRowHolds`, `LinksAreSpent`, `AuditNeverWrong`, `NoSilentReplacement`, `RegistrationSettles` |
| `onboarding_partial` | `MCRegistration` with a dying replica as the only failure | - | *violated*: `DossierCompleted` |
| `assignment_audit` | `MCRegistration` with 3 advisors and reassignments only | - | *violated*: `AuditTruthful` |
| `users_ban` | `MCRegistration` with two requests about the address and no time | - | *violated*: `BanHolds` |
| `ban_requests` | 2 clients, 2 directors, 2 creations, 2 decisions, 1 opening of the chat, failures | 2,171,410 | `DecisionsHold`, `TwoPendingNeedOverlap`, `ConversationsHold` |
| `messages` | a group of 3 or a pair, 2 or 3 requests of any of 7 kinds, failures | 1,080,835 | `HiddenFlagsHold`, `UnreadAnnounced`, `OneNotificationUnlessOverlap` |
| `live_updates` | 2 instances, 2 users with 3 sockets; or a feed of 2 news; or a notification centre with 3 rows | 758,144 | `RoomsMatchSockets`, `BannedAreOut`, `MessageReachesRoom`, `GesturesHold`, `MessagesAreTold`; `LiveUpdatesSettle` |
| `screens` | one of thirteen pages or page parts, with its requests, answers, timers and failures | 2,521,758 | `PagesCatchUp`, `MarksWereShown`, `OutcomesAreTold`, `FilesArrive`, `TypingIsOver`, `FiguresAddUp`, `CancelledCardsStay`, `PricesAreFresh`, `TabKnowsItsUser` |

What the less obvious properties say:

* *LedgerAddsUp* says for either shape that the money of all accounts is the opening
  balances and what was credited unfunded (`MoneyAddsUp`; the balances of deleted accounts stay in the
  sum: a deletion takes the rows away, it moves no money), and that a
  statement adds up to the balance but for the debits that did not happen (`StatementsAddUp`).
  For `"rows"` it says more: nothing is unfunded (`Conservation`), and each line continues
  the balance of the line before it **in the order of the commits** (`StatementChains`).
  Lines are displayed by `created_at`, the start of the transaction.
* *AnswersMatchLedger* is the contract with a client who may not hear an
  answer: an error means that nothing moved, "duplicate" that somebody's
  transfer with this key did. *BookHolds* has the same for orders
  (`AnswersMatchBook`), that the orders explain cash and holdings (`BookExplained`),
  and that an average price lies within the prices paid.
* *DossierHolds*, *AccountRowHolds*, *LinksAreSpent*, *TwoPendingNeedOverlap*,
  *ConversationsHold*, *OneNotificationUnlessOverlap*: the code checks and then
  writes, without a constraint or a lock. These properties say exactly what is left
  of uniqueness: it is lost only when the two requests overlapped at the critical
  statements, never by a sequence of requests and never because of a failure.
* *HiddenFlagsHold*, *UnreadAnnounced* hold for requests
  that do not overlap a request writing the same row back.
* *DecisionsHold* allows the one gap the code has: a decision cut off between
  the claim and the ban, or whose revert failed.
* *BannedAreOut*, *MessageReachesRoom*, *LiveUpdatesSettle*: a kick and a message reach
  every socket they are for unless a notification was lost on the way, and whatever was
  lost, heartbeats and expiry, the stream's lists and the polls set it right in the end.

The properties of the pages have a common form: once nothing is under way, what is shown
is what the user asked for last and what the server holds. Where the code does not ensure
that, the property names the crossing that it takes. These are the exceptions, each of
which TLC showed to be needed:

| Page | Right, unless |
|---|---|
| messages of a conversation | the message was emitted while the browser was offline, joining or elsewhere; a list read before it replaced it |
| what is marked read | the pointer came from a message of another conversation |
| list of conversations | an older answer arrived last; another tab; a failed request |
| composer, news form | two choices of files overlapped, when more may be held than the server takes (posting then fails) |
| typing indicator | the typist changed the conversation within the second of the timer, or was unmounted or cut off; the reader was offline |
| trading page | the account was changed during an order; a load or an answer was lost |
| statement of the client | a day has two lines: their order within the day is lost; two transfers that waited for the account were committed in the other order |
| overview of figures | an answer to an earlier selection came last |
| cards | a request had read the row before a cancellation and saved it after |
| transfer page | an answer given before a change was shown after it; a new label brought a beneficiary back that was deleted since it was read |
| accounts overview | the lines of an account selected before came last, or ones older than the transfer; a transfer made elsewhere |
| users pages | two loads of one view overlapped; a change made by somebody else |
| second factor | two of its requests held the row at once; another tab, a lost answer |
| session | cookie or ban changed since the tab last asked, or its last check failed; a banned user whom a failed check let out again |

Deadlock checking is off where the system may stop: requests are finitely
many and end. That no request waits forever is `EverythingEnds` and `RegistrationSettles`.

## 4 Bounds

* **Executions** (`Attempts`, `Orders`, `Calls`, `Requests`, `Creates`,
  `Decisions`, `Opens`): two or three. Each hazard needs two that overlap; a
  third is the retry, or the one that finds what the overlap left.
* **Money**: opening balances are small enough for the second transfer or order
  to fail, amounts large enough for it to matter. `Prices`, `Units` and `Scale`
  in `trading` include an order whose amount rounds to nothing (1 unit of 4 at
  price 1) and averages that need rounding.
* **Registration**: `MaxDeaths` = 1 dead replica of two; `Attempts` = 2 tries of
  an INSERT (the code has 3; the last try and a repeated one are what differs).
  `Leaving` are the advisors who may be banned or deleted. The three requests about the
  address are one of any kind, one that saves a row it read, mails a link or takes a free
  address, and one reset; at the start the address is free, or belongs to a client one wrong password
  away from the lock, or to one who is banned, unverified and has a second factor.
  `MaxAttempts` = 2 wrong passwords until the lock, `LockFor` = `LinkFor` = 1 tick until a
  lock or link expires, `Horizon` = 1 tick in all: each can still be good or have
  expired when it is looked at. Requests of one kind differ, so no symmetry is used.
* **Ban requests**: `MaxCalls` = 4 of the five calls, and `Bannable`, whom
  staff may ban: the directors (a banned director is passed over).
* **Messages**: `Settings` are a group with two requests of which one may be cut off, a
  group with three that go through, and the pair (`Client` and an advisor) with three
  of which one may be cut off.
* **Live updates**: `Stories` name the sockets and the kinds of event of a behaviour
  (coming and going, bans, crashes, lost or late notifications, joins, messages), because all
  at once are too many; each pair of events that meet on one piece of state is in one
  of them. `TTL` counts periods of the heartbeat: 1 of them in place of the 3 of the code (60 s and
  20 s) makes presence expire after the first heartbeat that is missed. `MaxFlight` = 1 is how many
  notifications may be on their way when something makes another (so two can overtake each
  other), `MaxFaults` = 1 the crashes, listener failures and failed publications.
  `FeedBounds` and `BellBounds` as for the pages.
* **Pages**: each page has a set of records (`Budgets`, `DeskBounds`, ..., `HomeBounds`) that
  say how many gestures, requests, failures and so on a behaviour has. The records trade one
  for another, so that each pair of hazards has a behaviour of its own, for instance many gestures without
  a failure, or few with two. Two conversations, accounts, assets, users
  or tabs are what a stale answer needs; three files overflow a limit of two.
* **Statements**: up to four transfers and five ticks, three to a day or month (`TicksPerDay`); `LineAmounts` are 1 and 2,
  so that two lines differ in their amount, and the opening balance lets a debit be refused.
* **Time** in `Quotes`: 7 ticks; the lifetimes 2, 3 and 4 stand for 60 s and 30 min, so that each of
  them expires, and a request may time out after one tick.
* **Symmetry** permutes executions (and, where nothing tells them apart,
  clients and directors), only in runs without liveness properties: `transfers`,
  `transfers_driver`, `trading`, `ban_requests`, `messages`.

## 5 Fairness

Weak fairness of the steps the code takes by itself, per execution:
PostgreSQL executes every statement it can and serves those who wait for a row
when a transaction ends; the event loop of Node resumes every `await` that
has finished; a request for a quote ends by its timeouts (`bank`, `registration`,
`onboarding_partial`). In `live_updates`: timers of heartbeat, expiry, poll and retry fire;
notifications that are not lost travel; a listener that lost its connection comes back; an
authentication or join that was begun goes on; the five-second stream goes on
while the page is open. None for submissions, gestures, connections, failures, deaths, bans,
deletions, lost messages or time: users and environment may never do these. Weak fairness is
enough because a lock that is released stays
claimable only by finitely many executions, each of which takes it once, and because a
timer's step stays enabled until it fires.

The temporal properties are `EverythingEnds` (bank), `RegistrationSettles`
(`EveryRequestEnds` of the assignment and `DossierUnlessCutOff` of the onboarding),
`LiveUpdatesSettle`, and `DossierCompleted`, which fails.

## 6 Proofs

Every theorem is checked by TLAPS to its last step, for every value of the constants that
the assumptions allow.

| Theorem | For every | Says |
|---|---|---|
| `BankProofs!InductiveInvariant`, `TypeCorrectness` | accounts, users, requests, keys, attempts, both driver shapes | `Spec => []IInv`, `Spec => []TypeOK` |
| `BalancesNeverNegative` | the same | `Spec => []NoOverdraft` |
| `KeysUsedOnce` | the same | `Spec => []KeyOnce` |
| `AnswersAreTrue` | the same | `Spec => []AnswersMatchLedger` |
| `LedgerExplained` | the same | `Spec => []LedgerAddsUp` |
| `TransfersImplementLedger` | the same | `Spec => Port!Spec` |
| `TradingProofs!InductiveInvariant` | portfolios, assets, prices, scale, orders | `Spec => []IInv` |
| `NothingOnCreditNorShort` | the same | `Spec => []NeverOnCreditNorShort` |
| `AveragesWithinPrices`, `AnswersAreBooked` | the same | `AverageWithinPrices` and `AnswersMatchBook`, parts of `BookHolds` |
| `OrdersExplainBook`, `BookCorrect` | the same | `Spec => []BookExplained`, `Spec => []BookHolds` |
| `TradingImplementsBrokerage` | the same | `Spec => Floor!Spec` |
| `BankProofs!BankInvariant` | transfers and orders of all these, on the same rows | `BankSpec => []BankInv` |
| `NothingOverdrawnTogether` | the same | `[](NoOverdraft /\ KeyOnce /\ Desk!NeverOnCreditNorShort)` |
| `BalancesExplained` | the same | `BankSpec => []MoneyExplained` |
| `MovementsAndTrades` | the same | `BankSpec => OneAtATime` |
| `RegistrationProofs!InductiveInvariant` | clients, advisors, requests | `Spec => []IInv` |
| `AuditSound`, `ReplacementAudited` | the same | `Spec => AuditNeverWrong`, `Spec => NoSilentReplacement` |
| `DossierCorrect` | verification calls, tries, failures | `RegistrationSpec => []DossierHolds` |
| `AccountRowCorrect`, `LinksSpent` | requests about an address, times | `[]AccountRowHolds`, `[]LinksAreSpent` |
| `BanRequestsProofs!Invariant` | clients, directors, calls | `Spec => []IInv` |
| `DecisionsStand`, `PendingOverlap`, `ConversationsKept` | the same | `[]DecisionsHold`, `[]TwoPendingNeedOverlap`, `[]ConversationsHold` |
| `MessagesProofs!HiddenFlagsCorrect` | members, requests of any kind, cut off or not | `Spec => []HiddenFlagsHold` |
| `UnreadAreAnnounced`, `NotificationsGrouped` | the same | `[]UnreadAnnounced`, `[]OneNotificationUnlessOverlap` |
| `LiveUpdatesProofs!Invariant` | instances, users, sockets, news, notifications, TTL and bounds | `LiveSpec => []IInv` |
| `RoomsCorrect`, `BannedUsersOut`, `MessagesReachRooms` | the same | `[]RoomsMatchSockets`, `[]BannedAreOut`, `[]MessageReachesRoom` |
| `GesturesCorrect`, `UnreadAreTold` | the same | `[]GesturesHold`, `[]MessagesAreTold` |
| `ScreensProofs!CancelledCardsKept` | pages, budgets | `ScreensSpec => []CancelledCardsStay` |
| `PricesFresh` | lifetimes, timeouts, requests | `[]PricesAreFresh` |
| `ReadMeansShown` | conversations, messages, requests | `[]MarksWereShown` |
| `TypingEndsAlways` | conversations, keys, switches | `[]TypingIsOver` |
| `FilesReachPosts` | finite sets of files, limits | `[]FilesArrive` |
| `UserIsKnown` | clicks, logins, bans, failures | `[]TabKnowsItsUser` |
| `OutcomesTold` | accounts, forms, messages, secrets, failures | `ScreensSpec => []OutcomesAreTold` |
| `PagesAreCurrent` | conversations, accounts, assets, clients, answers in any order | `ScreensSpec => []PagesCatchUp` |
| `FiguresCorrect` | transfers, amounts, periods, numbers of months | `ScreensSpec => []FiguresAddUp` |

The assumptions are the named ones of the modules (`AccountsAssumption`,
`RequestsAssumption`, `ProcessAssumption`, `DriverAssumption`;
`PortfolioAssumption`, `MarketAssumption`, `OrdersAssumption`; `BankAssumption`;
`AssignmentAssumption`, `RegistrationAssumption` and those of its parts; `ConversationsAssumption`,
`BanRequestsAssumption`; `MessagesAssumption`; `OwnerAssumption`, `TTLAssumption`,
`NoneAssumption`, `FeedAssumption`, `BellAssumption`; `FilesAssumption`,
`FirstAssumption`, `TalksAssumption`, `NoPathAssumption`, the `TTLAssumption` of Quotes,
`TradingPageAssumption`, `TransferPageAssumption`, `UnknownAssumption`, `HomeAssumption`, `NobodyAssumption`,
`StatementAssumption`, `AnalyticsAssumption`, `StaffAssumption`). They say that
balances and lifetimes are numbers, accounts are finitely many, ranks tell them apart, the portfolios of the desk
are the investment accounts of the transfers, a transfer is no order, null values are not values, the page begins in a
conversation that exists, files are finitely many, and so on. TLC evaluates them on every run.

**Transfers.** `NoOverdraft` is not inductive: the commit writes a row version
computed several steps before. The strengthening says that such a version still
equals the committed balance minus the amount, or that there is none and the source
cannot pay (`VersionInv`), which holds because nobody else can commit to a row whose lock the transaction holds from
its second SELECT on (`LockInv`); that the request is one that passed
validation (`RequestInv`); and that a key belongs to one open transaction or to
one committed transfer (`KeyInv`). Refinement uses the same invariant: the
commit is one movement, paid unless `VersionInv` says the source could not and the driver
hid it; everything else stutters. That answers are true needs that what an
attempt has written to the ledger is decided by where it is; that the lines chain, that
the last line of an account carries its balance. `CommitFigures` has what a commit adds to
balances, statements and `unfunded`, and the sums follow from it (`StatementsAtCommit`, `MoneyAtCommit`).

**Trading.** The desk saves absolute values, so it is right exactly because the
entities in memory are what the tables hold: `MemoryCurrent`, which rests on
`HoldsAccount` (the account row is owned from SELECT ... FOR UPDATE to the end)
and `RequestKept`. The average price is a quotient rounded twice; it stays between the lowest and
the highest price paid because each rounding of a number between two integers does.

**Sums** (for `MoneyAddsUp`, `BookExplained`, `MoneyExplained`, `FiguresAddUp`). `SumFunctionOnSet` is a
fold, so it stands for a function on the finite subsets that is chosen to satisfy its
recursive equation. That such a function exists (`SummingExists`) and that it does not depend on which element it takes first
(`SumTakesAny`) are inductions on the cardinality; the induction theorems being out of reach, each is a
minimal counterexample: the naturals are well-founded (`NatLessThanWellFounded`), a set of
least cardinality for which the fact fails loses an element and the fact holds for the rest. From these, what the
invariants need: a sum in which one term changes (`SumAfterChange`) and one that has one term more (`SumOfMore`);
sums of two sets without a common element (`SumOfDisjoint`), of the parts of a set (`SumByPart`), of the same terms under other
names (`SumRenamed`), of opposite terms (`SumOfOpposites`).
A commit is a change for each row it writes, an execution one term more; that the rows of orders are finitely many is part of the
invariant (`BookKept`).

**Bank.** `BankInv` is both inductive invariants over the common rows. Neither side is
re-proved: a step of the transfers changes no row that an order has locked (`TransferKeepsHeldRows`), so what the order
remembers of it stays current (`OrdersSurviveTransfers`), and the other way round
(`DeskKeepsHeldRows`, `TransfersSurviveOrders`). Each commit then adds to a balance what its lines or its row explain, and
each step of the bank is one movement of MoneyLedger, one trade or closing of Brokerage, or nothing (`OneAtATime`, which TLC finds true on the instance of the bank run too). The bank does not
implement MoneyLedger alone, nor Brokerage: the balance of a portfolio moves with both.

**Assignment.** `OldAdvisorHeld`: a transaction that knows an old advisor owns
his row until it commits; `IndexHeld` and `ReadyToCommit`: one about to commit
is alone with the client's entry in the unique index, and has removed the old
row or found none. `AuditedAfterCommit` makes sure that an audit row is new at
the commit. What fails in the code (section 7) is the converse: a transaction
that knows *no* old advisor may still replace one.

**Registration.** A call that is at a statement has made sure of all before it
(`Ensured`), and whoever made an account had listed the accounts without finding its type
(`MadeUnseen`), so two of one type were both unseen, and the calls overlapped. For the row
of the user, `RemembersRow`: until the save reads the row again, the copy differs from the row only in
columns that the request is about or that others wrote since. `SpendsLinks`: what a reset has marked works no
more, and no link issued later is among what it marked (`Unissued`).

**Ban requests.** `DecisionsHold` needs that only the decision that claimed a request
gives it back: `OneHolder` (two never hold the same one) and `DecisionKnows` (what the holder knows
of the row is what it says). For the conversations, calls know of each other: `FlightsMeet`,
`MakersMeet`, `SecondsMeet` say that a conversation that exists beside another was made by a call that
overlapped the other's, and `HoldsConversation` that nobody but its maker takes one away.

**Messages.** All three properties are about a row that is read in one statement and saved in another.
The invariant speaks of what a request holds in memory as well as of the row: `ReadHolds`,
`ShowHolds` and `FreezeHolds` say of a read, a send and a reassignment that what they wrote is
in the row *and* in what every later request has loaded of it, unless one that overlaps wrote it back.
`NotesFit`: a send that found no unread notification overlaps with whoever has made one meanwhile; `AnnounceFits`
relates how far a send has come to what its recipients have.

**Live updates.** Each part has an invariant of its own, since a behaviour is of one part.
*Centre* (`BellInv`): what `seenRef` remembers was told (`SeenIsTold`). *Feed* (`FeedInv`): a news that is not
mixed up has one request at most, which is that of the last gesture (`OneRequest`), and a dismissed one is in
`removedIds` or on no list that is on its way (`DismissedIsKept`). *Gateways* (`ClusterInv`):
the maps of a gateway hold sockets that are open on it (`SocketsLive`), a notification is of a
banned user or of the message (`NotesFit`), a verified socket of a banned user is excused
(`VerifiedExcused`), and a socket the message is due to has not left its room (`DueInRoom`).

**Pages.** Each page has its invariant, about what is on its way and what is shown.
*Cards*: a request that is about to save has read the row as it is, or another has saved since (`FoundIsCurrent`).
*Quotes*: ages, in ticks, of what a request has read, of what is cached and of what is given (`FetchesYoung`,
`CacheYoung`): a price in the cache adds the age of its rate. *Messages of a conversation*
(`ViewInv`): a stored message is shown, on its way or missed in a gap (`StoredIsKnown`); events keep their order, so
nothing older than a message shown is still missing (`EventsInOrder`, `NothingBehind`), a list has all that is older than
its last message (`ListsAreFull`); so a mark covers what was shown (`MarksCover`). *Typing*: for the indicator that
is shown a stop is on its way or will be sent by the timer (`ShownEnds`), and behind each start comes its stop
(`StartsEnd`). *Attachments*: a choice that is still being made smaller is one that has not ended
(`ShrinksApart`), it has room for what is left (`RoomLeft`), and nothing is uploaded for a sending that does not fit
(`SendingFits`). *Session*: one check counts at a time and is of the page shown
(`OneCheck`), its answer is right unless something changed (`AnswersRight`), what is shown is right unless a check is under
way (`ShownRight`), and whoever is banned or has just logged in is on his way (`OnTheWayOut`, `OnTheWayIn`).

`OutcomesAreTold` and `PagesCatchUp` are one promise each of many pages, so their proofs are one invariant per page and
a last theorem that puts them together. Most say: what is shown is right, *or* a request is on its way
whose answer will make it right, *or* one of the crossings happened that the property excepts. What differs is how a
page tells an answer that still counts from one that does not. *Trading* (`DeskInv`): a load that may still be shown is of the
selection (`LoadsFit`), so the account, or a load of it, is there (`AccountComes`, `ChartComes`). *Transfers*
(`TransferPageInv`): one transfer is under way at a time (`OneTransfer`), which makes the count of those told add up; an
answer that is not marked old says what the rows say (`NewsIsCurrent`), and whatever of the panel differs from them has
such an answer to come (`PanelComes`). *Security* (`FactorInv`): unless two requests held the row at once, a request that
saves finds the row as it read it (`OneHolds`), and a tab waits for one answer (`OneHeard`, `TabKnows`). *Overview of the
client* (`HomeInv`): the button waits for the loads that follow a top-up (`OneAfter`), and the sums are those of Sums
again. *Sending of messages* (`SendInv`): each message that the composer cleared is stored, refused or among the
emits, which are counted one by one: an emit has a number of its own, since two of the same content are two
(without it the set of emits lost one, and the count was wrong; the attempt at the proof showed it).
*List of conversations* (`ListInv`): the last answer, shown or on its way, is the list of the server unless something is
still to be read, a message is on its way to the bell, or nothing told the page (`LastIsCurrent`). *Analytics* (`OverviewInv`): the last request is
under way, has failed or has arrived (`LastIsKnown`). *Pages of the staff* (`StaffInv`): a load is of the view it was
sent by, told by its number (`SheetLoads`), and of what a sheet or the list shows wrongly there is a load or a change of the same page to come
(`SheetComes`, `DirectoryComes`).

*Figures* (`FiguresInv`): each line continues the balance of the line committed before it (`LinesChain`), and no two
are of one instant (`StampsDiffer`). Unless transfers crossed, the lines of a period are then a run of lines committed
one after another (`PeriodIsRun`), whose total is the difference of the balances at its ends (`TotalOfRun`), and
either order puts the ends of the run first and last (`RunEnds`). An overview's queries saw the balance after some line
(`BankIsSeen`) and, of the lines committed until some instant, those of its window (`RowsAreSeen`), and what was
seen stays so when lines are added (`SeenStaysSeen`); totals and months then are sums of one set by its parts
(`FiguresByMonth`).

The proof of the session corrected the property: a login is followed by the dashboard only if no answer
"banned" to an earlier check is still on its way, because `ProtectedLayout` obeys it when it comes late. The bounds were too small for that
until an attempt at the proof asked for it; `welcome` says so now, and the run has a budget in which it happens.

**Only model-checked:**

* all liveness: `EverythingEnds`, `RegistrationSettles`, `LiveUpdatesSettle`;
* the violated properties of section 7, which have no proof, being false.

## 7 Where code and documentation disagree

Four runs each check a property the repository states and show a behaviour of
the code that violates it.

1. **`transfers_driver` / `Conservation`.** `TransferGateway.ts:128` takes
   the length of what `manager.query` returns for `UPDATE ... RETURNING` as
   the number of rows. TypeORM 0.3.28 returns `[rows, count]` there, always of length 2
   (`ban-requests.service.ts:247` unpacks it). A debit that matched no row is
   not noticed and the credit goes on. The port says "soit tout est appliqué, soit rien".
   What holds even so is proved: no balance gets negative, a key is used once, answers tell
   what was committed, and the money that appears is exactly what such debits left out.
2. **`onboarding_partial` / `DossierCompleted`.** The comment of
   `InitializeClientUseCase` says that a call after a partial failure completes
   what is missing. Its only caller has used the token up before, so there is
   no such call.
3. **`assignment_audit` / `AuditTruthful`.** The second of two overlapping
   reassignments waits for a row that is then deleted, does not see the new
   one, and records that there was no advisor.
4. **`users_ban` / `BanHolds`.** A login that loaded the user before the ban
   saves `is_banned = false` after it.

Besides, the model reaches a reassignment to an advisor who was banned after
the validation, which the comment at `advisor-reassignment.service.ts:78`
excludes; two ban requests created at once that go to the same director in
spite of the advisory lock; and a ban request that loses its conversation to
the second look of an opening. The first two are hazards without a property, the third is
the exception in `ConversationsHold`.

Reading the code for the models showed some disagreements that no run refutes, because they are
about figures and traffic, not about an order of events:

* `generateStatementPdf.ts:20-23` says of the lines it is given "triées par date
  croissante". The client's page sorts lines that carry only their day
  (`transactions.controller.ts:84-94`), so that those of one day stay the latest first, and the
  opening balance of such a period is deduced from its second movement. It is the exception `TwoInADay` of
  `StatementsAddUp`.
* The activities of a portfolio have a positive `amount` and their direction in `type`
  (`trading.controller.ts:208-230`); `dashboard/api.ts:49-60` takes the direction from the sign
  of `amount`, so that the overview shows a purchase as a credit.
* `analytics.service.ts:100-102` counts the debit line of an outgoing transfer as a payment; only
  arriving lines are of type `transfer`.
* The effect that joins a conversation (`useChat.ts:83-87`) depends on `emit`, which
  `useWebSocket` makes anew at each render, and the gateway answers a join of a joined room with
  `presence_update`, which renders again.

## 8 What is not modelled

* Start-up of the schema, metrics, mail, JWTs, hashing and the arithmetic of TOTP: libraries,
  and code that runs before any request.
* Landing page, settings, presentation, the layout of the PDF and the popup of a news: they keep
  no state that a request or an event changes.
* Data: names, IBANs, texts, reasons, images. They are model values or left out.
* Between the parts of Registration, LiveUpdates and Screens nothing is composed: the
  page modules take the transfer, the order and the rows of the server as one step each, and the
  modules of those say what happens inside. The page modules take the gateway as its port
  promises it, that is with the shape `"rows"`.
* Inside the modelled parts: Messages assumes one clock for `created_at` and
  `last_read_at` and fixed participants, and takes the save of a mute as one
  step; BanRequests has no deletions; UserAccounts has one address; the
  advisors of the onboarding are the ones listed (the code lists the first 500 users);
  ChatCluster has one room, and its instances never come back under their name; `NewsRepository.list`
  and the details of a user are read in one step; StaffPages takes what other modules have as
  statements (ban, reassignment, ban request) as one step.

## 9 Plan

The order is by what the system cannot afford to get wrong: money first, then
who owns a client, then the accounts of users, then conversations, then what pages show.

Done: MoneyLedger, Transfers and its proofs; Brokerage, Trading and its proofs;
Bank; Onboarding, AdvisorAssignment and its proofs, UserAccounts, together in Registration;
PrivateConversations and BanRequests; Messages; ChatCluster, Feed and Bell, together in
LiveUpdates; the pages, together in Screens.

Proved: every safety property of the passing runs. What is left, in this order:

1. **Shorter proofs**: the pages that load a list and change it repeat an argument, which could be a lemma
   about a set of requests and what the last of them brings.
2. **The news feed's stream and the chat page** in what the models leave out (PROJECT.json, components).
