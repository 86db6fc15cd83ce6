------------------------------ MODULE Screens ------------------------------
(***************************************************************************)
(* The pages of the web client, each with the requests it makes: the       *)
(* conversation shown (ChatView), the list beside it (ConversationsPage),  *)
(* the files of a message or a news (Attachments), the typing indicator    *)
(* (Typing), the trading page (TradingPage) and the quotes behind it       *)
(* (Quotes), the statements and the overview of them (Statements), the     *)
(* cards (Cards), the transfer page (TransferPage), the users page of the  *)
(* staff (StaffPages), the security page (SecondFactor), and who the tab    *)
(* takes the user for (Session), and the overview of his accounts          *)
(* (Dashboard).                                                            *)
(*                                                                         *)
(* A user has one of them before him, and they share no state: a behaviour *)
(* of this module is one of the page that screen names.                    *)
(***************************************************************************)
EXTENDS ChatView, ConversationsPage, Attachments, Typing, TradingPage, Statements,
        Cards, TransferPage, StaffPages, SecondFactor, Quotes,
        Session, Dashboard

CONSTANT Away       \* the value of the variables of a page that is not there

VARIABLE screen

ScreenNames ==
    {"view", "page", "form", "typing", "desk", "statement", "cards",
     "transfer", "staff", "security", "quotes", "session", "home"}

screenVars == <<screen, viewVars, pageVars, formVars, typingVars, deskVars,
                 analyticsVars, cardVars, transferVars, staffVars, factorVars, quoteVars, sessionVars, homeVars>>

\* The pages that are not shown are not mounted: their variables are Away.
ScreensInit ==
    /\ screen \in ScreenNames
    /\ \/ screen = "view" /\ ViewInit
       \/ /\ screen # "view"
          /\ room = Away /\ line = Away /\ view = Away /\ past = Away /\ budget = Away
    /\ \/ screen = "page" /\ PageInit
       \/ /\ screen # "page"
          /\ members = Away /\ hidden = Away /\ page = Away /\ asking = Away
          /\ doing = Away /\ notices = Away /\ tale = Away
    /\ \/ screen = "form" /\ FormInit
       \/ /\ screen # "form"
          /\ form = Away /\ stored = Away /\ formLog = Away
    /\ \/ screen = "typing" /\ TypingInit
       \/ /\ screen # "typing"
          /\ typist = Away /\ typingUsers = Away /\ watcher = Away /\ typingLine = Away
          /\ typingLog = Away
    /\ \/ screen = "desk" /\ DeskInit
       \/ /\ screen # "desk"
          /\ book = Away /\ desk = Away /\ deskLine = Away /\ deskLog = Away
    /\ \/ screen = "statement" /\ AnalyticsInit
       \/ /\ screen # "statement"
          /\ clock = Away /\ balance = Away /\ lines = Away /\ started = Away
          /\ linesLeft = Away /\ months = Away /\ shown = Away /\ failed = Away
          /\ asks = Away /\ askLog = Away
    /\ \/ screen = "cards" /\ CardsInit
       \/ /\ screen # "cards"
          /\ card = Away /\ pageOf = Away /\ ordered = Away /\ cardLog = Away
    /\ \/ screen = "transfer" /\ TransferPageInit
       \/ /\ screen # "transfer"
          /\ beneficiaries = Away /\ transferred = Away /\ panel = Away
          /\ transferForm = Away /\ calls = Away /\ pageLog = Away
    /\ \/ screen = "staff" /\ StaffInit
       \/ /\ screen # "staff"
          /\ held = Away /\ modal = Away /\ section = Away /\ staffCalls = Away
          /\ staffLog = Away
    /\ \/ screen = "security" /\ FactorInit
       \/ /\ screen # "security"
          /\ factor = Away /\ tabs = Away /\ app = Away /\ requests = Away
          /\ factorLog = Away
    /\ \/ screen = "quotes" /\ QuotesInit
       \/ /\ screen # "quotes"
          /\ now = Away /\ cache = Away /\ fetches = Away /\ handed = Away
          /\ quotesLeft = Away
    /\ \/ screen = "session" /\ SessionInit
       \/ /\ screen # "session"
          /\ jar = Away /\ isBanned = Away /\ tab = Away /\ errands = Away
          /\ sessionLog = Away
    /\ \/ screen = "home" /\ HomeInit
       \/ /\ screen # "home"
          /\ purse = Away /\ home = Away /\ homeLine = Away /\ homeLog = Away

ScreensNext ==
    \/ /\ screen = "view" /\ ViewNext
       /\ UNCHANGED <<screen, pageVars, formVars, typingVars, deskVars,
                      analyticsVars, cardVars, transferVars, staffVars, factorVars,
                      quoteVars, sessionVars, homeVars>>
    \/ /\ screen = "page" /\ PageNext
       /\ UNCHANGED <<screen, viewVars, formVars, typingVars, deskVars,
                      analyticsVars, cardVars, transferVars, staffVars, factorVars,
                      quoteVars, sessionVars, homeVars>>
    \/ /\ screen = "form" /\ FormNext
       /\ UNCHANGED <<screen, viewVars, pageVars, typingVars, deskVars,
                      analyticsVars, cardVars, transferVars, staffVars, factorVars,
                      quoteVars, sessionVars, homeVars>>
    \/ /\ screen = "typing" /\ TypingNext
       /\ UNCHANGED <<screen, viewVars, pageVars, formVars, deskVars,
                      analyticsVars, cardVars, transferVars, staffVars, factorVars,
                      quoteVars, sessionVars, homeVars>>
    \/ /\ screen = "desk" /\ DeskNext
       /\ UNCHANGED <<screen, viewVars, pageVars, formVars, typingVars,
                      analyticsVars, cardVars, transferVars, staffVars, factorVars,
                      quoteVars, sessionVars, homeVars>>
    \/ /\ screen = "statement" /\ AnalyticsNext
       /\ UNCHANGED <<screen, viewVars, pageVars, formVars, typingVars, deskVars,
                      cardVars, transferVars, staffVars, factorVars, quoteVars, sessionVars, homeVars>>
    \/ /\ screen = "cards" /\ CardsNext
       /\ UNCHANGED <<screen, viewVars, pageVars, formVars, typingVars, deskVars,
                      analyticsVars, transferVars, staffVars, factorVars, quoteVars, sessionVars, homeVars>>
    \/ /\ screen = "transfer" /\ TransferPageNext
       /\ UNCHANGED <<screen, viewVars, pageVars, formVars, typingVars, deskVars,
                      analyticsVars, cardVars, staffVars, factorVars, quoteVars, sessionVars, homeVars>>
    \/ /\ screen = "staff" /\ StaffNext
       /\ UNCHANGED <<screen, viewVars, pageVars, formVars, typingVars, deskVars,
                      analyticsVars, cardVars, transferVars, factorVars, quoteVars, sessionVars, homeVars>>
    \/ /\ screen = "security" /\ FactorNext
       /\ UNCHANGED <<screen, viewVars, pageVars, formVars, typingVars, deskVars,
                      analyticsVars, cardVars, transferVars, staffVars, quoteVars, sessionVars, homeVars>>
    \/ /\ screen = "quotes" /\ QuotesNext
       /\ UNCHANGED <<screen, viewVars, pageVars, formVars, typingVars, deskVars,
                      analyticsVars, cardVars, transferVars, staffVars, factorVars, sessionVars, homeVars>>
    \/ /\ screen = "session" /\ SessionNext
       /\ UNCHANGED <<screen, viewVars, pageVars, formVars, typingVars, deskVars,
                      analyticsVars, cardVars, transferVars, staffVars, factorVars, quoteVars, homeVars>>
    \/ /\ screen = "home" /\ HomeNext
       /\ UNCHANGED <<screen, viewVars, pageVars, formVars, typingVars, deskVars,
                      analyticsVars, cardVars, transferVars, staffVars, factorVars,
                      quoteVars, sessionVars>>

ScreensSpec == ScreensInit /\ [][ScreensNext]_screenVars

-----------------------------------------------------------------------------
\* What a page shows once its requests are answered is what the user asked for last and
\* what the server then holds, the crossings apart that each page does not guard
\* against: messages (useChat), the list of conversations (ChatPageContainer), account,
\* orders and chart (trading/page.tsx), beneficiaries and the chosen destination
\* (BeneficiariesPanel), the overview (AnalyticsPage), and the list and the sheets of users
\* with their accounts (UserSection, UserDetailsView, AccountTransactionsView), the
\* second factor (security/page.tsx), and the accounts and lines of the overview
\* (DashboardContent, TransactionsSection).
PagesCatchUp ==
    /\ screen = "view" => ViewMissesOnlyGaps
    /\ screen = "page" => PageCatchesUp
    /\ screen = "desk" => DeskShowsSelection
    /\ screen = "transfer" => PanelCatchesUp /\ DestinationIsChosen
    /\ screen = "statement" => FiguresAreSelected
    /\ screen = "staff" => StaffPagesCatchUp
    /\ screen = "security" => FactorIsTold
    /\ screen = "home" => HomeCatchesUp

\* The figures made of the lines of the ledger, statements of both kinds and overviews,
\* agree with the balance and with each other.
FiguresAddUp == screen = "statement" => StatementsAddUp /\ FiguresAgree

\* Each order, transfer or message a page sent has its effect once, and what became of it
\* is told to the user, or the answer was lost: then he was told that it failed, with the
\* form ready to send it again, and no key that would make the server recognise it; and the
\* secret of a second factor that logins ask for is one the user was shown.
OutcomesAreTold ==
    /\ screen = "desk" => OrdersAreTold
    /\ screen = "transfer" => TransfersAreTold
    /\ screen = "view" => ClearedWasSent
    /\ screen = "security" => NotLockedOut
    /\ screen = "home" => TopUpsAreTold

\* Files chosen for a message or a news reach it, within the limit of the server.
FilesArrive == screen = "form" => ChosenFilesArrive /\ FormWithinLimit

\* A conversation is marked read up to messages its reader was shown (useChat).
MarksWereShown == screen = "view" => ReadWasShown

\* The indicator of typing goes out once whoever wrote has stopped (MessageComposer,
\* ChatGateway).
TypingIsOver == screen = "typing" => TypingEnds

\* A card opposed stays cancelled, whatever other requests about it do (CardsController).
CancelledCardsStay == screen = "cards" => CancelledStays

\* A price handed out is not older than its cache allows (MarketDataService).
PricesAreFresh == screen = "quotes" => QuoteIsFresh

\* The tab takes the user for who the cookie and the server say he is (AuthContext).
TabKnowsItsUser == screen = "session" => SessionHolds
=============================================================================
