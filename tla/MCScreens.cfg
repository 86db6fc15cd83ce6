CONSTANTS
  c1 = c1 c2 = c2 k1 = k1 k2 = k2 f1 = f1 f2 = f2 f3 = f3 a1 = a1 a2 = a2 a3 = a3
  s1 = s1 s2 = s2 p1 = p1 p2 = p2 i1 = i1 i2 = i2 l1 = l1 l2 = l2 u1 = u1 u2 = u2 v1 = v1 v2 = v2 t1 = t1 t2 = t2
  Conversations = {c1, c2}
  First = c1
  Budgets <- MCBudgets
  NoOne = NoOne
  Me = Me
  Friends = {f1, f2}
  Known = {k1, k2}
  Fresh = Fresh
  Groups = {g1}
  MaxGestures = 2
  MaxFailures = 1
  Nobody = Nobody
  Files = {f1, f2, f3}
  MaxFiles = 2
  MaxFailuresOfForm = 1
  Talks = {c1, c2}
  FirstTalk = c1
  TypingBounds <- MCTypingBounds
  NoTalk = NoTalk
  Accounts = {a1, a2}
  Symbols = {s1, s2}
  DeskBounds <- MCDeskBounds
  Nil = Nil
  StatementBounds <- MCStatementBounds
  Opening0 = 1
  LineAmounts = {1, 2}
  TicksPerDay = 3
  MonthChoices = {1, 2}
  AnalyticsBounds <- MCAnalyticsBounds
  NoFigures = NoFigures
  Pages = {p1, p2}
  CardBounds <- MCCardBounds
  NoCard = NoCard
  Ibans = {i1, i2}
  OwnAccounts = {a1, a2}
  Labels = {l1, l2}
  PageBounds <- MCPageBounds
  NoIban = NoIban
  Clients = {u1, u2}
  Advisors = {v1, v2}
  ThisAdvisor = v1
  StaffBounds <- MCStaffBounds
  NoSheet = NoSheet
  Tabs = {t1, t2}
  FactorBounds <- MCFactorBounds
  Unknown = Unknown
  QuoteTTL = 2
  HistoryTTL = 4
  RateTTL = 3
  Timeout = 1
  HistoryLag = 0
  Foreign = TRUE
  QuoteBounds <- MCQuoteBounds
  NoQuote = NoQuote
  SessionBounds <- MCSessionBounds
  NoPath = NoPath
  PurseList <- MCPurseList
  FirstPurse = a1
  HomeAmounts = {1, 2}
  HomeBounds <- MCHomeBounds
  NoPurse = NoPurse
  Away = Away
SPECIFICATION ScreensSpec
INVARIANTS
  PagesCatchUp
  MarksWereShown
  OutcomesAreTold
  FilesArrive
  TypingIsOver
  FiguresAddUp
  CancelledCardsStay
  PricesAreFresh
  TabKnowsItsUser
CHECK_DEADLOCK FALSE
