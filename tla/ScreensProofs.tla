--------------------------- MODULE ScreensProofs ---------------------------
(***************************************************************************)
(* Safety properties of the pages, for any numbers of them, of requests    *)
(* under way, of files, messages and cached prices, and any bounds.        *)
(*                                                                         *)
(* A behaviour is one of the page that screen names: each page has an      *)
(* inductive invariant of its own.                                         *)
(***************************************************************************)
EXTENDS Screens, Sums, TLAPS

\* A step of the pages is a step of the one that is shown, or leaves it alone.
LEMMA PageSteps ==
    ASSUME [ScreensNext]_screenVars
    PROVE  /\ screen' = screen
           /\ screen = "cards" => [CardsNext]_cardVars
           /\ screen = "quotes" => [QuotesNext]_quoteVars
           /\ screen = "view" => [ViewNext]_viewVars
           /\ screen = "typing" => [TypingNext]_typingVars
           /\ screen = "form" => [FormNext]_formVars
           /\ screen = "session" => [SessionNext]_sessionVars
           /\ screen = "desk" => [DeskNext]_deskVars
           /\ screen = "transfer" => [TransferPageNext]_transferVars
           /\ screen = "security" => [FactorNext]_factorVars
           /\ screen = "home" => [HomeNext]_homeVars
           /\ screen = "page" => [PageNext]_pageVars
           /\ screen = "statement" => [AnalyticsNext]_analyticsVars
           /\ screen = "staff" => [StaffNext]_staffVars
BY DEF ScreensNext, screenVars

\* The page that is shown begins as it does by itself.
LEMMA PageInits ==
    ASSUME ScreensInit
    PROVE  /\ screen = "cards" => CardsInit
           /\ screen = "quotes" => QuotesInit
           /\ screen = "view" => ViewInit
           /\ screen = "typing" => TypingInit
           /\ screen = "form" => FormInit
           /\ screen = "session" => SessionInit
           /\ screen = "desk" => DeskInit
           /\ screen = "transfer" => TransferPageInit
           /\ screen = "security" => FactorInit
           /\ screen = "home" => HomeInit
           /\ screen = "page" => PageInit
           /\ screen = "statement" => AnalyticsInit
           /\ screen = "staff" => StaffInit
BY Zenon DEF ScreensInit

-----------------------------------------------------------------------------
(* Cards *)

\* A request that has just been sent, was answered or was refused saves nothing.
LEMMA OtherCardSteps ==
    ASSUME CardInv, NEW p \in Pages, UNCHANGED card,
           NEW r, ordered' = [ordered EXCEPT ![p] = r], Asked(r), r.stage # "found",
           NEW l, cardLog' = [cardLog EXCEPT !.left = l]
    PROVE  CardInv'
BY DEF CardInv, CardTypeOK, FoundIsCurrent, CancelledStays

\* Saving writes the row another request has not saved meanwhile, or is late.
LEMMA CardSaved ==
    ASSUME CardInv, NEW p \in Pages, SaveCard(p)
    PROVE  CardInv'
<1>1. CardRow(ordered[p].read) /\ Asked(ordered[p])
  BY DEF SaveCard, CardInv, CardTypeOK, FoundIsCurrent
<1>2. CardRow(card')
  BY <1>1 DEF SaveCard, ToSave, CardRow
<1>3. \A q \in Pages :
         \/ ordered'[q] = [ordered[p] EXCEPT !.stage = "saved", !.read = card']
         \/ ordered'[q] = [ordered[q] EXCEPT !.late = TRUE]
         \/ ordered[q].stage # "found" /\ ordered'[q] = ordered[q]
  BY DEF SaveCard
<1>4. \A q \in Pages : Asked(ordered'[q])
  BY <1>1, <1>3 DEF CardInv, CardTypeOK, Asked
<1>5. /\ cardLog' = [left |-> cardLog.left,
                     cancelled |-> cardLog.cancelled \/ card'.status = "cancelled",
                     overwritten |-> cardLog.overwritten \/ (ordered[p].late /\ card # card')]
  BY DEF SaveCard, CardInv, CardTypeOK
<1>6. CardTypeOK'
  BY <1>2, <1>4, <1>5 DEF SaveCard, CardTypeOK
<1>7. FoundIsCurrent'
  <2> SUFFICES ASSUME NEW q \in Pages, ordered'[q].stage = "found"
               PROVE  CardRow(ordered'[q].read) /\ ordered'[q].late = TRUE
    BY DEF FoundIsCurrent
  <2>1. ordered'[q].stage = "saved" \/ ordered'[q] = [ordered[q] EXCEPT !.late = TRUE]
    BY <1>1, <1>3 DEF Asked
  <2>2. ordered'[q] = [ordered[q] EXCEPT !.late = TRUE] /\ ordered[q].stage = "found"
    BY <2>1 DEF CardInv, CardTypeOK, Asked
  <2>3. ordered'[q].late = TRUE /\ ordered'[q].read = ordered[q].read
    BY <2>2 DEF CardInv, CardTypeOK, Asked
  <2> QED  BY <2>2, <2>3 DEF CardInv, FoundIsCurrent
<1>8. CancelledStays'
  <2> SUFFICES ASSUME cardLog'.cancelled, card'.status # "cancelled"
               PROVE  cardLog'.overwritten
    BY DEF CancelledStays
  <2>1. cardLog.cancelled  BY <1>5, Zenon
  <2>2. card.status = "cancelled" \/ cardLog.overwritten
    BY <2>1 DEF CardInv, CancelledStays
  <2>3. CASE cardLog.overwritten  BY <2>3, <1>5, Zenon
  <2>4. CASE card.status = "cancelled"
    BY <2>4, <1>5 DEF SaveCard, CardInv, FoundIsCurrent
  <2> QED  BY <2>2, <2>3, <2>4
<1> QED  BY <1>6, <1>7, <1>8 DEF CardInv

\* Every step of the cards page, of its requests and of the server keeps the invariant.
LEMMA CardSteps ==
    ASSUME CardInv, [CardsNext]_cardVars
    PROVE  CardInv'
<1>1. CASE UNCHANGED cardVars
  BY <1>1 DEF cardVars, CardInv, CardTypeOK, FoundIsCurrent, CancelledStays
<1>2. CASE CardsNext
  <2> PICK p \in Pages :
        \/ Load(p) \/ Freeze(p) \/ Oppose(p) \/ Edit(p) \/ SaveSettings(p) \/ Reopen(p)
        \/ FindOwnedCard(p) \/ SaveCard(p) \/ Answered(p) \/ Refused(p) \/ Broken(p)
    BY <1>2 DEF CardsNext
  <2> DEFINE Left == cardLog' = [cardLog EXCEPT !.left = [@ EXCEPT !.clicks = @ - 1]]
  <2>1. CASE UNCHANGED <<card, ordered>> /\ (UNCHANGED cardLog \/ PressKey)
    <3>1. \E l : cardLog' = [cardLog EXCEPT !.left = l]
      BY <2>1 DEF PressKey, CardInv, CardTypeOK
    <3>2. /\ cardLog'.cancelled = cardLog.cancelled /\ cardLog'.overwritten = cardLog.overwritten
          /\ cardLog' = [left |-> cardLog'.left, cancelled |-> cardLog'.cancelled,
                         overwritten |-> cardLog'.overwritten]
      BY <3>1 DEF CardInv, CardTypeOK
    <3> QED  BY <2>1, <3>2 DEF CardInv, CardTypeOK, FoundIsCurrent, CancelledStays
  <2>2. CASE SaveCard(p)  BY <2>2, CardSaved
  <2>3. ASSUME NEW r, ordered' = [ordered EXCEPT ![p] = r], Asked(r), r.stage # "found",
               UNCHANGED card, UNCHANGED cardLog
        PROVE  CardInv'
    BY <2>3, OtherCardSteps DEF CardInv, CardTypeOK
  <2>4. ASSUME NEW kind, NEW to, Go(p, kind, to)  PROVE CardInv'
    <3>1. PICK l : cardLog' = [cardLog EXCEPT !.left = l]
      BY <2>4 DEF Go, PressKey
    <3> DEFINE r == [kind |-> kind, stage |-> "sent", to |-> to, read |-> NoCard, late |-> FALSE]
    <3>2. Asked(r) /\ r.stage # "found"  BY DEF Asked
    <3>3. ordered' = [ordered EXCEPT ![p] = r] /\ UNCHANGED card  BY <2>4 DEF Go
    <3> HIDE DEF r
    <3> QED  BY <3>1, <3>2, <3>3, OtherCardSteps
  <2>5. CASE Freeze(p) \/ Oppose(p) \/ SaveSettings(p)
    BY <2>4, <2>5 DEF Freeze, Oppose, SaveSettings
  <2>6. CASE Load(p) \/ Edit(p) \/ Reopen(p)
    BY <2>1, <2>6 DEF Load, Edit, Reopen
  <2>7. CASE Answered(p) \/ Refused(p)
    BY <2>7, <2>3 DEF Asked, NoRequest, Answered, Refused
  <2>8. CASE Broken(p)
    <3>1. Asked(NoRequest) /\ NoRequest.stage # "found"  BY DEF Asked, NoRequest
    <3>2. ordered' = [ordered EXCEPT ![p] = NoRequest] /\ UNCHANGED card
      BY <2>8 DEF Broken
    <3>3. PICK l : cardLog' = [cardLog EXCEPT !.left = l]
      BY <2>8 DEF Broken
    <3> QED  BY <3>1, <3>2, <3>3, OtherCardSteps
  <2>9. CASE FindOwnedCard(p)
    <3> PICK stage : /\ stage = IF card.status = "cancelled" THEN "refused" ELSE "found"
                     /\ ordered' = [ordered EXCEPT ![p].read = card, ![p].stage = stage]
                     /\ UNCHANGED <<card, cardLog>>
      BY <2>9 DEF FindOwnedCard
    <3>1. Asked(ordered[p]) /\ DOMAIN ordered = Pages  BY DEF CardInv, CardTypeOK
    <3>2. \A q \in Pages : ordered'[q] = IF q = p THEN [ordered[p] EXCEPT !.read = card, !.stage = stage]
                                         ELSE ordered[q]
      BY <3>1
    <3>3. Asked(ordered'[p]) /\ ordered'[p].read = card /\ ordered'[p].stage = stage
          /\ ordered'[p].late = ordered[p].late
      BY <3>1, <3>2 DEF Asked
    <3>4. stage = "found" => card.status # "cancelled"
      OBVIOUS
    <3>5. CardTypeOK'
      BY <3>1, <3>2, <3>3 DEF CardInv, CardTypeOK
    <3>6. FoundIsCurrent'
      <4> SUFFICES ASSUME NEW q \in Pages, ordered'[q].stage = "found"
                   PROVE  /\ CardRow(ordered'[q].read)
                          /\ ~ordered'[q].late => ordered'[q].read = card /\ card.status # "cancelled"
        BY DEF FoundIsCurrent
      <4>1. CASE q = p  BY <4>1, <3>3, <3>4 DEF CardInv, CardTypeOK
      <4>2. CASE q # p  BY <4>2, <3>2 DEF CardInv, FoundIsCurrent
      <4> QED  BY <4>1, <4>2
    <3> QED  BY <3>5, <3>6 DEF CardInv, CancelledStays
  <2> QED  BY <2>2, <2>5, <2>6, <2>7, <2>8, <2>9
<1> QED  BY <1>1, <1>2

\* A card opposed stays cancelled, however many pages and requests there are, but when a
\* request had read the row before another one saved it (CardsController.updateStatus).
THEOREM CancelledCardsKept == ScreensSpec => []CancelledCardsStay
<1> DEFINE Inv == screen = "cards" => CardInv
<1>1. ScreensInit => Inv
  <2> SUFFICES ASSUME CardsInit  PROVE CardInv  BY PageInits
  <2>1. CardRow(card)  BY DEF CardsInit, CardRow
  <2>2. DOMAIN ordered = Pages /\ \A p \in Pages : ordered[p] = NoRequest  BY DEF CardsInit
  <2>3. Asked(NoRequest) /\ NoRequest.stage # "found"  BY DEF Asked, NoRequest
  <2> PICK b : cardLog = [left |-> b, cancelled |-> FALSE, overwritten |-> FALSE]
    BY DEF CardsInit
  <2>4. cardLog.left = b /\ cardLog.cancelled = FALSE /\ cardLog.overwritten = FALSE
    OBVIOUS
  <2>5. cardLog = [left |-> cardLog.left, cancelled |-> cardLog.cancelled,
                   overwritten |-> cardLog.overwritten]
    BY <2>4
  <2> QED
    BY <2>1, <2>2, <2>3, <2>4, <2>5 DEF CardInv, CardTypeOK, FoundIsCurrent, CancelledStays
<1>2. Inv /\ [ScreensNext]_screenVars => Inv'
  BY PageSteps, CardSteps
<1>3. Inv => CancelledCardsStay
  BY DEF CardInv, CancelledCardsStay
<1> QED  BY <1>1, <1>2, <1>3, PTL DEF ScreensSpec

-----------------------------------------------------------------------------
(* Quotes *)

\* A value handed out when it is stored, or taken from the cache while that is valid, is
\* as fresh as promised.
LEMMA HandedFresh ==
    ASSUME NEW t \in Int, NEW value, NEW at \in Int, QuoteYoung(value, at), t <= at + QuoteTTL,
           now = t, handed' = Handed(value)
    PROVE  QuoteIsFresh'
<1> USE TTLAssumption
<1>1. handed'.at = t /\ handed'.price = value.price /\ handed'.rate = value.rate
      /\ handed'.lag = value.lag
  BY DEF Handed
<1> QED  BY <1>1 DEF QuoteIsFresh, QuoteYoung

\* What is stored is young, and the other requests and entries stay as they were.
LEMMA StoredYoung ==
    ASSUME QuotesInv, NEW f \in fetches, UNCHANGED now,
           NEW price, NEW lag, NEW rate, NEW rates, Store(f, price, lag, rate, rates),
           QuoteYoung([price |-> price, rate |-> rate, lag |-> lag], now),
           rates # NoQuote => /\ rates.until \in Int /\ rates.value \in Int
                              /\ rates.until - rates.value <= RateTTL + Timeout
    PROVE  QuotesInv'
<1> DEFINE value == [price |-> price, rate |-> rate, lag |-> lag]
<1> USE TTLAssumption
<1>1. /\ cache'.quote = [value |-> value, until |-> now + QuoteTTL]
      /\ cache'.rate = rates
      /\ cache' = [quote |-> cache'.quote, history |-> cache'.history, rate |-> cache'.rate]
  BY DEF Store, Until
<1>2. fetches' \subseteq fetches  BY DEF Store
<1>3. handed' = handed \/ handed' = Handed(value)  BY DEF Store
<1> HIDE DEF value
<1>4. QuoteYoung(value, now)  BY DEF value
<1>5. FetchesYoung'  BY <1>2 DEF QuotesInv, FetchesYoung
<1>6. CacheYoung'
  BY <1>1, <1>4 DEF QuotesInv, CacheYoung, QuoteYoung
<1>7. QuoteIsFresh'
  BY <1>4, HandedFresh, <1>3 DEF QuotesInv, QuoteIsFresh
<1> QED  BY <1>5, <1>6, <1>7 DEF QuotesInv

AsksRate(f, since, price, lag) ==
    [f EXCEPT !.stage = "rate", !.since = since, !.price = price, !.lag = lag]

\* The request for the rate, which follows the answer with the price.
LEMMA RateAsked ==
    ASSUME NEW f, NEW since, NEW price, NEW lag,
           f = [n |-> f.n, kind |-> f.kind, stage |-> f.stage, since |-> f.since,
                price |-> f.price, lag |-> f.lag]
    PROVE  AsksRate(f, since, price, lag)
             = [n |-> f.n, kind |-> f.kind, stage |-> "rate", since |-> since,
                price |-> price, lag |-> lag]
<1> DEFINE h == [n |-> f.n, kind |-> f.kind, stage |-> f.stage, since |-> f.since,
                 price |-> f.price, lag |-> f.lag]
           g == [h EXCEPT !.stage = "rate", !.since = since, !.price = price, !.lag = lag]
<1>1. g = [n |-> f.n, kind |-> f.kind, stage |-> "rate", since |-> since,
           price |-> price, lag |-> lag]
  <2>1. DOMAIN g = {"n", "kind", "stage", "since", "price", "lag"}  OBVIOUS
  <2>2. g.n = f.n /\ g.kind = f.kind  OBVIOUS
  <2>3. g.stage = "rate"  OBVIOUS
  <2>4. g.since = since  OBVIOUS
  <2>5. g.price = price  OBVIOUS
  <2>6. g.lag = lag  OBVIOUS
  <2>7. g = [i \in {"n", "kind", "stage", "since", "price", "lag"} |-> g[i]]
    BY <2>1
  <2> HIDE DEF g
  <2> QED  BY <2>1, <2>2, <2>3, <2>4, <2>5, <2>6, <2>7
<1>2. g = AsksRate(f, since, price, lag)
  BY DEF AsksRate
<1> QED  BY <1>1, <1>2

\* Every request, answer, failure and tick keeps the ages of what is cached and under way.
LEMMA QuotesSteps ==
    ASSUME QuotesInv, [QuotesNext]_quoteVars
    PROVE  QuotesInv'
<1> USE TTLAssumption
<1>1. CASE UNCHANGED quoteVars
  BY <1>1 DEF quoteVars, QuotesInv, FetchesYoung, CacheYoung, QuoteYoung, QuoteIsFresh
<1>2. ASSUME NEW kind, AskOf(kind), UNCHANGED <<now, cache, handed>>  PROVE QuotesInv'
  BY <1>2 DEF AskOf, QuotesInv, FetchesYoung, CacheYoung, QuoteYoung, QuoteIsFresh
<1>3. CASE GetQuote
  BY <1>2, HandedFresh, <1>3 DEF Valid, QuotesInv, CacheYoung, FetchesYoung, QuoteYoung, GetQuote
<1>4. CASE GetHistory  BY <1>4, <1>2 DEF GetHistory
<1>5. CASE Pass
  BY <1>5 DEF Pass, QuotesInv, FetchesYoung, CacheYoung, QuoteYoung, QuoteIsFresh
<1>6. ASSUME NEW f \in fetches, AnswerPrice(f)  PROVE QuotesInv'
  <2> PICK price \in MadeSince(f), lag \in IF f.kind = "history" THEN 0..HistoryLag ELSE {0} :
          IF ~Foreign THEN Store(f, price - lag, lag, now, cache.rate)
          ELSE IF Valid(cache.rate)
          THEN Store(f, price - lag, lag, cache.rate.value, cache.rate)
          ELSE /\ fetches' = (fetches \ {f}) \cup
                     {[f EXCEPT !.stage = "rate", !.since = now, !.price = price - lag, !.lag = lag]}
               /\ UNCHANGED <<cache, handed>>
    BY <1>6 DEF AnswerPrice
  <2>1. UNCHANGED now  BY <1>6 DEF AnswerPrice
  <2>2. lag \in Int /\ price \in Int /\ now \in Int /\ price - lag \in Int
    BY DEF MadeSince, QuotesInv, FetchesYoung
  <2>3. now - (price - lag) <= Timeout + lag  BY <2>2 DEF MadeSince, QuotesInv, FetchesYoung
  <2>4. CASE ~Foreign /\ Store(f, price - lag, lag, now, cache.rate)
    BY <2>2, <2>3, <2>1, <2>4, StoredYoung DEF QuoteYoung, QuotesInv, CacheYoung
  <2>5. CASE Valid(cache.rate) /\ Store(f, price - lag, lag, cache.rate.value, cache.rate)
    BY <2>2, <2>5, <2>3, <2>1, StoredYoung DEF Valid, QuotesInv, CacheYoung, QuoteYoung
  <2>6. CASE /\ fetches' = (fetches \ {f}) \cup
                     {[f EXCEPT !.stage = "rate", !.since = now, !.price = price - lag, !.lag = lag]}
             /\ UNCHANGED <<cache, handed>>
    <3> DEFINE g == [f EXCEPT !.stage = "rate", !.since = now, !.price = price - lag, !.lag = lag]
    <3>1. /\ g.since = now /\ g.stage = "rate" /\ g.price = price - lag /\ g.lag = lag
          /\ g = [n |-> g.n, kind |-> g.kind, stage |-> g.stage, since |-> g.since,
                  price |-> g.price, lag |-> g.lag]
      <4>1. f = [n |-> f.n, kind |-> f.kind, stage |-> f.stage, since |-> f.since,
                 price |-> f.price, lag |-> f.lag]
        BY DEF QuotesInv, FetchesYoung
      <4>2. g = [n |-> f.n, kind |-> f.kind, stage |-> "rate", since |-> now,
                 price |-> price - lag, lag |-> lag]
        <5>1. AsksRate(f, now, price - lag, lag)
                = [n |-> f.n, kind |-> f.kind, stage |-> "rate", since |-> now,
                   price |-> price - lag, lag |-> lag]
          BY <4>1, RateAsked
        <5> QED  BY <5>1 DEF AsksRate
      <4> QED  BY <4>2
    <3>2. fetches' = (fetches \ {f}) \cup {g}  BY <2>6
    <3> HIDE DEF g
    <3>3. FetchesYoung'  BY <2>1, <2>2, <2>3, <3>1, <3>2 DEF QuotesInv, FetchesYoung
    <3> QED  BY <2>1, <2>6, <3>3 DEF QuotesInv, CacheYoung, QuoteYoung, QuoteIsFresh
  <2> QED  BY <2>4, <2>5, <2>6
<1>7. ASSUME NEW f \in fetches, AnswerRate(f)  PROVE QuotesInv'
  <2> PICK rate \in MadeSince(f) : Store(f, f.price, f.lag, rate, Until(rate, RateTTL))
    BY <1>7 DEF AnswerRate
  <2>1. UNCHANGED now /\ f.stage = "rate"  BY <1>7 DEF AnswerRate
  <2>2. /\ rate \in Int /\ now \in Int /\ f.since \in Int /\ f.since <= rate /\ now <= f.since + Timeout
        /\ f.price \in Int /\ f.lag \in Int /\ f.since - f.price <= Timeout + f.lag
    BY <2>1 DEF MadeSince, QuotesInv, FetchesYoung
  <2>3. QuoteYoung([price |-> f.price, rate |-> rate, lag |-> f.lag], now)
    BY <2>2 DEF QuoteYoung
  <2>4. /\ Until(rate, RateTTL).until \in Int /\ Until(rate, RateTTL).value \in Int
        /\ Until(rate, RateTTL).until - Until(rate, RateTTL).value <= RateTTL + Timeout
    BY <2>2 DEF Until
  <2> HIDE DEF Until
  <2> QED  BY <2>1, <2>3, <2>4, StoredYoung
<1>8. ASSUME NEW f \in fetches, FailQuote(f)  PROVE QuotesInv'
  BY <1>8 DEF FailQuote, Simulated, QuoteIsFresh, QuotesInv, FetchesYoung, CacheYoung, QuoteYoung
<1> QED  BY <1>1, <1>3, <1>4, <1>5, <1>6, <1>7, <1>8 DEF QuotesNext

\* No order is given a price, or a rate, older than the lifetimes of the cache and the
\* time its requests took, whatever the lifetimes and however requests overlap
\* (MarketDataService.getQuote).
THEOREM PricesFresh == ScreensSpec => []PricesAreFresh
<1> DEFINE Inv == screen = "quotes" => QuotesInv
<1>1. ScreensInit => Inv
  <2> SUFFICES ASSUME QuotesInit  PROVE QuotesInv  BY PageInits
  <2>1. now = 0 /\ fetches = {} /\ handed = NoQuote  BY DEF QuotesInit
  <2>2. CacheYoung  BY DEF QuotesInit, CacheYoung
  <2> QED  BY <2>1, <2>2 DEF QuotesInv, FetchesYoung, QuoteIsFresh
<1>2. Inv /\ [ScreensNext]_screenVars => Inv'
  BY PageSteps, QuotesSteps
<1>3. Inv => PricesAreFresh
  BY DEF QuotesInv, PricesAreFresh
<1> QED  BY <1>1, <1>2, <1>3, PTL DEF ScreensSpec

-----------------------------------------------------------------------------
(* Messages of a conversation *)

\* A list read from the table has each message of the conversation, and no other.
LEMMA ListIsAll ==
    ASSUME NEW S, Numbered(S)
    PROVE  InOrder(S) \in Seq(S) /\ Range(InOrder(S)) = S
<1> DEFINE C == Cardinality(S)
           UpTo(m) == {a \in S : a.n <= m.n}
           Place == [m \in S |-> Cardinality(UpTo(m))]
<1>1. C \in Nat /\ IsFiniteSet(1..C) /\ Cardinality(1..C) = C
  BY FS_CardinalityType, FS_Interval DEF Numbered
<1>2. \A m \in S : IsFiniteSet(UpTo(m)) /\ Cardinality(UpTo(m)) \in 1..C
  <2> TAKE m \in S
  <2>1. UpTo(m) \in SUBSET S /\ m \in UpTo(m)  BY DEF Numbered
  <2>2. IsFiniteSet(UpTo(m)) /\ Cardinality(UpTo(m)) <= C  BY <2>1, FS_Subset DEF Numbered
  <2>3. Cardinality(UpTo(m)) \in Nat /\ Cardinality(UpTo(m)) # 0
    BY <2>1, <2>2, FS_CardinalityType, FS_EmptySet
  <2> QED  BY <2>2, <2>3, <1>1
<1>3. \A m, x \in S : Cardinality(UpTo(m)) = Cardinality(UpTo(x)) => m = x
  <2>1. \A m, x \in S : m.n <= x.n /\ Cardinality(UpTo(m)) = Cardinality(UpTo(x)) => m = x
    <3> TAKE m, x \in S
    <3> HAVE m.n <= x.n /\ Cardinality(UpTo(m)) = Cardinality(UpTo(x))
    <3>1. UpTo(m) \in SUBSET UpTo(x)  BY DEF Numbered
    <3>2. UpTo(m) = UpTo(x)  BY <1>2, <3>1, FS_Subset
    <3>3. x \in UpTo(x)  BY DEF Numbered
    <3> QED  BY <3>2, <3>3 DEF Numbered
  <2> QED  BY <2>1 DEF Numbered
<1>4. Place \in Injection(S, 1..C)
  BY <1>2, <1>3 DEF Injection, IsInjective
<1>5. Place \in Surjection(S, 1..C)
  BY <1>1, <1>4, FS_Injection
<1>6. \A i \in 1..C : \E m \in S : Cardinality(UpTo(m)) = i
  BY <1>5 DEF Surjection
<1> DEFINE At(i) == CHOOSE m \in S : Cardinality(UpTo(m)) = i
<1>7. \A i \in 1..C : At(i) \in S /\ Cardinality(UpTo(At(i))) = i
  BY <1>6
<1>8. \A m \in S : At(Cardinality(UpTo(m))) = m
  BY <1>2, <1>3, <1>7
<1>9. InOrder(S) = [i \in 1..C |-> At(i)]
  BY DEF InOrder
<1> HIDE DEF At, UpTo, C
<1>10. InOrder(S) \in Seq(S)  BY <1>1, <1>7, <1>9
<1>11. Range(InOrder(S)) = {At(i) : i \in 1..C}  BY <1>9 DEF Range
<1> QED  BY <1>2, <1>7, <1>8, <1>10, <1>11

\* What the page marks read after a step is covered by what it then shows.
LEMMA MarkReadCovers ==
    ASSUME ViewTypeOK', StoredIsKnown', NothingBehind', NEW k \in MarkRead(view'),
           Seen(view') \subseteq past'.seen
    PROVE  Covers(k, past.seen \cup past.gap)'
<1> PICK last : last = Last(view'.shown)  OBVIOUS
<1>1. /\ k.conv = view'.sel /\ k.n = last.n /\ view'.visible /\ view'.shown # <<>>
      /\ k = [conv |-> k.conv, n |-> k.n, served |-> k.served]
  BY DEF MarkRead
<1>2. last = view'.shown[Len(view'.shown)] /\ Len(view'.shown) \in DOMAIN view'.shown
      /\ last \in room'.store
  BY <1>1 DEF Last, ViewTypeOK
<1>3. Seen(view') = Range(view'.shown) /\ last \in Range(view'.shown)
  BY <1>1, <1>2 DEF Seen, Range
<1>4. ASSUME NEW x \in room'.store, NEW m \in room'.store,
             x.n = k.n, x.conv = k.conv, m.conv = k.conv, m.n <= k.n
      PROVE  m \in past'.gap \cup Range(view'.shown)
  <2>1. x = last  BY <1>1, <1>2, <1>4 DEF ViewTypeOK, Numbered
  <2>2. CASE m.n = k.n  BY <2>2, <1>1, <1>2, <1>3 DEF ViewTypeOK, Numbered
  <2>3. CASE m \in Range(line'.down) /\ m.n # k.n
    <3> PICK j \in DOMAIN line'.down : line'.down[j] = m  BY <2>3 DEF Range
    <3>1. m.n < last.n  BY <1>1, <1>2, <1>4, <2>3 DEF ViewTypeOK, Numbered
    <3> QED  BY <3>1, <1>2, <1>4, <2>1 DEF NothingBehind
  <2> QED  BY <2>2, <2>3 DEF StoredIsKnown
<1> QED  BY <1>1, <1>2, <1>3, <1>4 DEF Covers, ViewTypeOK

\* What is known, stored and read so far is kept: the marks and pointers stay covered.
SameMessages ==
    /\ room'.store = room.store /\ room'.read = room.read
    /\ past.seen \subseteq past'.seen /\ past.gap \subseteq past'.gap
    /\ past'.astray = past.astray

\* A mark covered by what was shown stays so while the messages and the history stand.
LEMMA CoverKept ==
    ASSUME ViewInv, SameMessages, NEW k, Covers(k, past.seen \cup past.gap)
    PROVE  Covers(k, past.seen \cup past.gap)'
BY DEF SameMessages, Covers

\* What the server counts as read stays so while the messages and the history stand.
LEMMA ReadKept ==
    ASSUME ViewInv, SameMessages
    PROVE  ReadWasShown'
BY DEF ViewInv, SameMessages, ReadWasShown

\* A step that shows, fetches or joins and neither stores a message nor serves a mark.
ShowsOnly ==
    /\ SameMessages
    /\ DOMAIN room' = DOMAIN room /\ DOMAIN line' = DOMAIN line
    /\ DOMAIN view' = DOMAIN view /\ DOMAIN past' = DOMAIN past
    /\ view'.sel \in Conversations /\ view'.on \in BOOLEAN /\ view'.visible \in BOOLEAN
    /\ \A k \in line'.marks :
          k \in line.marks \/ (k \in MarkRead(view') /\ Seen(view') \subseteq past'.seen)

ListShape(l) ==
    /\ l = [conv |-> l.conv, got |-> l.got]
    /\ l.got # NoOne =>
          /\ l.got \in Seq(room.store)
          /\ \A x \in Range(l.got), m \in room.store :
                m.conv = x.conv /\ m.n < x.n => m \in Range(l.got)

\* Such a step keeps the invariant once lists, rooms and what is on its way agree again.
LEMMA ShowsOnlyInv ==
    ASSUME ViewInv, ShowsOnly, view'.shown \in Seq(room.store), line'.down \in Seq(room.store),
           \A l \in line'.loads : l \in line.loads \/ ListShape(l),
           InRoomOrJoining', StoredIsKnown', EventsInOrder', NothingBehind'
    PROVE  ViewInv'
BY CoverKept, MarkReadCovers, ReadKept DEF ViewInv, ViewTypeOK, ListsAreFull, ListShape, ShowsOnly,
   SameMessages, MarksCover

\* Steps that touch neither what is shown nor the events on their way.
LEMMA QuietSteps ==
    ASSUME ViewInv, ShowsOnly, view'.shown = view.shown, line'.down = line.down,
           \A l \in line'.loads : l \in line.loads \/ ListShape(l),
           InRoomOrJoining'
    PROVE  ViewInv'
BY ShowsOnlyInv DEF ViewInv, ShowsOnly, SameMessages, StoredIsKnown, EventsInOrder, NothingBehind,
   ViewTypeOK

\* Switching to a conversation, and the list of its messages being read.
LEMMA Looking ==
    ASSUME ViewInv
    PROVE  /\ \A c \in Conversations : SwitchTo(c) => ViewInv'
           /\ \A l \in line.loads : ServeList(l) => ViewInv'
           /\ ShowTab => ViewInv'
           /\ HideTab => ViewInv'
<1>1. ASSUME NEW c \in Conversations, SwitchTo(c)  PROVE ViewInv'
  <2> PICK v, l :
         /\ v = [view EXCEPT !.sel = c]
         /\ l = [line EXCEPT
                   !.loads = @ \cup {[conv |-> c, got |-> NoOne]},
                   !.up = IF view.on THEN @ \cup {[do |-> "join", conv |-> c]} ELSE @]
         /\ Render(v, l) /\ UNCHANGED room
    BY <1>1 DEF SwitchTo
  <2>1. /\ v.sel = c /\ v.shown = view.shown /\ v.on = view.on /\ v.visible = view.visible
        /\ DOMAIN v = DOMAIN view
    BY DEF ViewInv, ViewTypeOK
  <2>2. /\ l.down = line.down /\ l.marks = line.marks /\ DOMAIN l = DOMAIN line
        /\ l.loads = line.loads \cup {[conv |-> c, got |-> NoOne]}
        /\ view.on => [do |-> "join", conv |-> c] \in l.up
    BY DEF ViewInv, ViewTypeOK
  <2>3. /\ view' = v /\ line' = [l EXCEPT !.marks = @ \cup MarkRead(v)]
        /\ past' = [past EXCEPT !.seen = @ \cup Seen(v)] /\ UNCHANGED room
    BY DEF Render
  <2>4. /\ line'.down = line.down /\ line'.marks = line.marks \cup MarkRead(v)
        /\ line'.loads = l.loads /\ line'.up = l.up /\ DOMAIN line' = DOMAIN line
    BY <2>2, <2>3 DEF ViewInv, ViewTypeOK
  <2>5. ShowsOnly
    BY <2>1, <2>3, <2>4 DEF ShowsOnly, SameMessages, ViewInv, ViewTypeOK
  <2>6. InRoomOrJoining'
    BY <2>1, <2>2, <2>3, <2>4 DEF InRoomOrJoining
  <2>7. ListShape([conv |-> c, got |-> NoOne])  BY DEF ListShape
  <2> QED  BY <2>1, <2>2, <2>3, <2>4, <2>5, <2>6, <2>7, QuietSteps
<1>2. ASSUME NEW l \in line.loads, ServeList(l)  PROVE ViewInv'
  <2> DEFINE g == [l EXCEPT !.got = InOrder({m \in room.store : m.conv = l.conv})]
  <2>1. /\ UNCHANGED <<room, view, past>> /\ line'.up = line.up /\ line'.down = line.down
        /\ line'.marks = line.marks /\ DOMAIN line' = DOMAIN line
        /\ line'.loads = (line.loads \ {l}) \cup {g}
    BY <1>2 DEF ServeList, ViewInv, ViewTypeOK
  <2>2. ListShape(g)
    <3> PICK S : S = {m \in room.store : m.conv = l.conv}  OBVIOUS
    <3>1. Numbered(S)
      BY FS_Subset DEF ViewInv, ViewTypeOK, Numbered
    <3>2. InOrder(S) \in Seq(S) /\ Range(InOrder(S)) = S  BY <3>1, ListIsAll
    <3>3. InOrder(S) \in Seq(room.store)  BY <3>2
    <3>4. g.got = InOrder(S) /\ g = [conv |-> g.conv, got |-> g.got]
      BY DEF ViewInv, ViewTypeOK
    <3> HIDE DEF g
    <3> QED  BY <3>2, <3>3, <3>4 DEF ListShape
  <2> HIDE DEF g
  <2>3. ShowsOnly /\ InRoomOrJoining'
    BY <2>1 DEF ShowsOnly, SameMessages, ViewInv, ViewTypeOK, InRoomOrJoining
  <2> QED  BY <2>1, <2>2, <2>3, QuietSteps
<1>3. ASSUME ShowTab  PROVE ViewInv'
  <2> PICK v : v = [view EXCEPT !.visible = TRUE]  OBVIOUS
  <2>1. /\ UNCHANGED room /\ view' = v
        /\ line' = [line EXCEPT !.marks = @ \cup MarkRead(v)]
        /\ past' = [past EXCEPT !.seen = @ \cup Seen(v)]
    BY <1>3 DEF ShowTab, Render
  <2>2. /\ v.sel = view.sel /\ v.shown = view.shown /\ v.on = view.on /\ v.visible = TRUE
        /\ DOMAIN v = DOMAIN view
    BY DEF ViewInv, ViewTypeOK
  <2>3. ShowsOnly /\ InRoomOrJoining' /\ line'.down = line.down /\ line'.loads = line.loads
    BY <2>1, <2>2 DEF ShowsOnly, SameMessages, ViewInv, ViewTypeOK, InRoomOrJoining
  <2> QED  BY <2>1, <2>2, <2>3, QuietSteps
<1>4. ASSUME HideTab  PROVE ViewInv'
  BY <1>4, QuietSteps DEF HideTab, ViewInv, ViewTypeOK, ShowsOnly, SameMessages, InRoomOrJoining
<1> QED  BY <1>1, <1>2, <1>3, <1>4

\* What Head and Tail of a sequence hold.
LEMMA TailOf ==
    ASSUME NEW S, NEW s \in Seq(S), s # <<>>
    PROVE  /\ Head(s) \in S /\ Head(s) = s[1] /\ 1 \in DOMAIN s /\ Tail(s) \in Seq(S)
           /\ \A j \in DOMAIN Tail(s) : j \in Nat /\ j >= 1 /\ j + 1 \in DOMAIN s /\ Tail(s)[j] = s[j + 1]
           /\ Range(s) = {Head(s)} \cup Range(Tail(s))
<1>1. /\ Head(s) \in S /\ Head(s) = s[1] /\ 1 \in DOMAIN s /\ Tail(s) \in Seq(S)
      /\ Len(Tail(s)) = Len(s) - 1 /\ Len(s) \in Nat
  OBVIOUS
<1>2. \A j \in DOMAIN Tail(s) : j \in Nat /\ j >= 1 /\ j + 1 \in DOMAIN s /\ Tail(s)[j] = s[j + 1]
  BY <1>1
<1>3. \A i \in DOMAIN s : i = 1 \/ (i - 1 \in DOMAIN Tail(s) /\ s[i] = Tail(s)[i - 1])
  BY <1>1
<1> PICK t : t = Tail(s)  OBVIOUS
<1> PICK h : h = Head(s)  OBVIOUS
<1>4. Range(s) = {h} \cup Range(t)
  <2>1. \A x \in Range(s) : x = h \/ x \in Range(t)
    <3> TAKE x \in Range(s)
    <3> PICK i \in DOMAIN s : s[i] = x  BY DEF Range
    <3>1. CASE i = 1  BY <1>1, <3>1
    <3>2. CASE i # 1  BY <1>3, <3>2 DEF Range
    <3> QED  BY <3>1, <3>2
  <2>2. h \in Range(s)  BY <1>1 DEF Range
  <2>3. \A x \in Range(t) : x \in Range(s)
    <3> TAKE x \in Range(t)
    <3> PICK j \in DOMAIN t : t[j] = x  BY DEF Range
    <3> QED  BY <1>2 DEF Range
  <2> QED  BY <2>1, <2>2, <2>3
<1> QED  BY <1>1, <1>2, <1>4

\* A sequence of more than one element ends like its tail.
LEMMA LastOfTail ==
    ASSUME NEW S, NEW s \in Seq(S), s # <<>>, Len(s) # 1
    PROVE  Tail(s) # <<>> /\ Tail(s)[Len(Tail(s))] = s[Len(s)]
<1> PICK n \in Nat : n = Len(s)  OBVIOUS
<1>1. n # 0  OBVIOUS
<1>2. n # 1  OBVIOUS
<1>3. Len(Tail(s)) = n - 1  BY <1>1
<1>4. \A i \in 1..(n - 1) : Tail(s)[i] = s[i + 1]  OBVIOUS
<1>5. n - 1 \in 1..(n - 1) /\ (n - 1) + 1 = n  BY <1>1, <1>2
<1>6. Tail(s)[n - 1] = s[n]  BY <1>4, <1>5
<1>7. Tail(s) # <<>>
  <2>1. ASSUME NEW q, q = <<>>, Len(q) = n - 1  PROVE FALSE
    <3>1. Len(q) = 0  BY <2>1
    <3> QED  BY <2>1, <3>1, <1>5
  <2> QED  BY <1>3, <2>1
<1> QED  BY <1>3, <1>6, <1>7

Appended(q, s, m) == q = Append(s, m)

\* What a sequence with one more element holds.
LEMMA AppendOf ==
    ASSUME NEW S, NEW s \in Seq(S), NEW m \in S, NEW q, Appended(q, s, m)
    PROVE  /\ q \in Seq(S) /\ Range(q) = Range(s) \cup {m}
           /\ \A i \in DOMAIN q : (i \in DOMAIN s /\ q[i] = s[i]) \/ (i = Len(s) + 1 /\ q[i] = m)
BY DEF Appended, Range

\* Lists and messages that arrive on the page, in whatever order.
LEMMA Arriving ==
    ASSUME ViewInv
    PROVE  /\ \A l \in line.loads : ArriveList(l) => ViewInv'
           /\ \A l \in line.loads : FailList(l) => ViewInv'
           /\ ArriveMessage => ViewInv'
<1>1. ASSUME NEW l \in line.loads, ArriveList(l)  PROVE ViewInv'
  <2> PICK v : v = [view EXCEPT !.shown = l.got]  OBVIOUS
  <2>1. /\ v.sel = view.sel /\ v.shown = l.got /\ v.on = view.on /\ v.visible = view.visible
        /\ DOMAIN v = DOMAIN view
    BY DEF ViewInv, ViewTypeOK
  <2>2. /\ view' = v /\ UNCHANGED room
        /\ line' = [line EXCEPT !.loads = @ \ {l}, !.marks = @ \cup MarkRead(v)]
        /\ past' = [past EXCEPT !.seen = @ \cup Seen(v),
                                !.gap = @ \cup (Range(view.shown) \ Range(l.got))]
    BY <1>1 DEF ArriveList, Range
  <2>3. /\ line'.down = line.down /\ line'.marks = line.marks \cup MarkRead(v)
        /\ line'.loads = line.loads \ {l} /\ line'.up = line.up /\ DOMAIN line' = DOMAIN line
    BY <2>2 DEF ViewInv, ViewTypeOK
  <2>4. /\ past'.seen = past.seen \cup Seen(v)
        /\ past'.gap = past.gap \cup (Range(view.shown) \ Range(l.got))
        /\ past'.astray = past.astray /\ DOMAIN past' = DOMAIN past
    BY <2>2 DEF ViewInv, ViewTypeOK
  <2>5. l.got \in Seq(room.store)
        /\ \A x \in Range(l.got), m \in room.store :
              m.conv = x.conv /\ m.n < x.n => m \in Range(l.got)
    BY <1>1 DEF ArriveList, ViewInv, ViewTypeOK, ListsAreFull
  <2>6. ShowsOnly /\ InRoomOrJoining' /\ EventsInOrder'
    BY <2>1, <2>2, <2>3, <2>4
       DEF ShowsOnly, SameMessages, ViewInv, ViewTypeOK, InRoomOrJoining, EventsInOrder
  <2>7. StoredIsKnown'
    BY <2>1, <2>2, <2>3, <2>4 DEF ViewInv, StoredIsKnown
  <2>8. NothingBehind'
    <3> SUFFICES ASSUME NEW i \in DOMAIN l.got, NEW j \in DOMAIN line.down,
                        line.down[j].conv = l.got[i].conv, line.down[j].n < l.got[i].n
                 PROVE  line.down[j] \in Range(l.got)
      BY <2>1, <2>2, <2>3 DEF NothingBehind
    <3>1. l.got[i] \in Range(l.got)  BY DEF Range
    <3>2. line.down[j] \in room.store  BY DEF ViewInv, ViewTypeOK
    <3> QED  BY <2>5, <3>1, <3>2
  <2> QED  BY <2>1, <2>2, <2>3, <2>5, <2>6, <2>7, <2>8, ShowsOnlyInv DEF ViewInv, ViewTypeOK
<1>2. ASSUME NEW l \in line.loads, FailList(l)  PROVE ViewInv'
  <2>1. /\ UNCHANGED room /\ view'.shown = <<>> /\ view'.sel = view.sel /\ view'.on = view.on
        /\ view'.visible = view.visible /\ DOMAIN view' = DOMAIN view
    BY <1>2 DEF FailList, ViewInv, ViewTypeOK
  <2>2. /\ line'.down = line.down /\ line'.marks = line.marks
        /\ line'.loads = line.loads \ {l} /\ line'.up = line.up /\ DOMAIN line' = DOMAIN line
    BY <1>2 DEF FailList, ViewInv, ViewTypeOK
  <2>3. /\ past'.seen = past.seen /\ past.gap \subseteq past'.gap
        /\ Range(view.shown) \cap room.store \subseteq past'.gap
        /\ past'.astray = past.astray /\ DOMAIN past' = DOMAIN past
    BY <1>2 DEF FailList, IsShown, Range, ViewInv, ViewTypeOK
  <2>4. ShowsOnly /\ InRoomOrJoining' /\ EventsInOrder' /\ NothingBehind'
    BY <2>1, <2>2, <2>3 DEF ShowsOnly, SameMessages, ViewInv, ViewTypeOK, InRoomOrJoining,
       EventsInOrder, NothingBehind
  <2>5. StoredIsKnown'
    BY <2>1, <2>2, <2>3 DEF ViewInv, StoredIsKnown
  <2>6. view'.shown \in Seq(room.store)  BY <2>1
  <2> QED  BY <2>1, <2>2, <2>4, <2>5, <2>6, ShowsOnlyInv DEF ViewInv, ViewTypeOK
<1>3. ASSUME ArriveMessage  PROVE ViewInv'
  <2> PICK m, v, l :
         /\ m = Head(line.down)
         /\ v = [view EXCEPT !.shown = IF IsShown(m) THEN @ ELSE Append(@, m)]
         /\ l = [line EXCEPT !.down = Tail(@)]
         /\ Render(v, l) /\ UNCHANGED room /\ line.down # <<>>
    BY <1>3 DEF ArriveMessage
  <2>1. /\ v.sel = view.sel /\ v.on = view.on /\ v.visible = view.visible
        /\ DOMAIN v = DOMAIN view
        /\ v.shown = IF IsShown(m) THEN view.shown ELSE Append(view.shown, m)
    BY DEF ViewInv, ViewTypeOK
  <2>2. /\ l.down = Tail(line.down) /\ l.marks = line.marks /\ DOMAIN l = DOMAIN line
        /\ l.loads = line.loads /\ l.up = line.up
    BY DEF ViewInv, ViewTypeOK
  <2>3. /\ view' = v /\ line' = [l EXCEPT !.marks = @ \cup MarkRead(v)]
        /\ past' = [past EXCEPT !.seen = @ \cup Seen(v)] /\ UNCHANGED room
    BY DEF Render
  <2>4. /\ line'.down = Tail(line.down) /\ line'.marks = line.marks \cup MarkRead(v)
        /\ line'.loads = line.loads /\ line'.up = line.up /\ DOMAIN line' = DOMAIN line
    BY <2>2, <2>3 DEF ViewInv, ViewTypeOK
  <2>5. /\ line.down \in Seq(room.store) /\ view.shown \in Seq(room.store)
        /\ m \in room.store /\ m = line.down[1] /\ Tail(line.down) \in Seq(room.store)
    BY DEF ViewInv, ViewTypeOK
  <2>6. /\ \A j \in DOMAIN Tail(line.down) :
              /\ j \in Nat /\ j >= 1 /\ j + 1 \in DOMAIN line.down
              /\ Tail(line.down)[j] = line.down[j + 1]
        /\ 1 \in DOMAIN line.down
        /\ Range(line.down) = {m} \cup Range(Tail(line.down))
    BY <2>5, TailOf
  <2>7. v.shown \in Seq(room.store) /\ Range(v.shown) = Range(view.shown) \cup {m}
    <3>1. CASE IsShown(m)  BY <2>1, <2>5, <3>1 DEF IsShown, Range
    <3>2. CASE ~IsShown(m)
      <4>1. Appended(v.shown, view.shown, m)  BY <2>1, <3>2 DEF Appended
      <4>2. view.shown \in Seq(room.store) /\ m \in room.store  BY <2>5
      <4> QED  BY <4>1, <4>2, AppendOf
    <3> QED  BY <3>1, <3>2
  <2>8. ShowsOnly /\ InRoomOrJoining'
    BY <2>1, <2>3, <2>4
       DEF ShowsOnly, SameMessages, ViewInv, ViewTypeOK, InRoomOrJoining
  <2>9. StoredIsKnown' /\ EventsInOrder'
    <3>1. StoredIsKnown'
      BY <2>3, <2>4, <2>6, <2>7, <2>8 DEF ViewInv, StoredIsKnown, ShowsOnly, SameMessages
    <3>2. EventsInOrder'
      BY <2>4, <2>6 DEF ViewInv, EventsInOrder
    <3> QED  BY <3>1, <3>2
  <2>10. NothingBehind'
    <3> PICK t : t = Tail(line.down)  OBVIOUS
    <3>0. line'.down = t /\ view'.shown = v.shown  BY <2>3, <2>4
    <3> SUFFICES ASSUME NEW i \in DOMAIN v.shown, NEW j \in DOMAIN t,
                        t[j].conv = v.shown[i].conv, t[j].n < v.shown[i].n
                 PROVE  t[j] \in Range(v.shown)
      BY <3>0, Zenon DEF NothingBehind
    <3>1. j + 1 \in DOMAIN line.down /\ 1 < j + 1 /\ Tail(line.down)[j] = line.down[j + 1]
      BY <2>6
    <3>2. CASE v.shown[i] = m
      BY <2>5, <2>6, <3>1, <3>2 DEF ViewInv, EventsInOrder, ViewTypeOK, Numbered
    <3>3. CASE v.shown[i] # m
      <4>1. v.shown[i] \in Range(view.shown)  BY <2>7, <3>3 DEF Range
      <4>2. PICK h \in DOMAIN view.shown : view.shown[h] = v.shown[i]  BY <4>1 DEF Range
      <4> QED  BY <2>7, <3>1, <4>2 DEF ViewInv, NothingBehind
    <3> QED  BY <3>2, <3>3
  <2> QED  BY <2>3, <2>4, <2>5, <2>7, <2>8, <2>9, <2>10, ShowsOnlyInv
<1> QED  BY <1>1, <1>2, <1>3

\* The pointer of a mark that is served covers what is older, or is of another conversation.
LEMMA Serving ==
    ASSUME ViewInv, NEW k \in line.marks, ServeMark(k)
    PROVE  ViewInv'
<1> PICK g : g = [k EXCEPT !.served = TRUE]  OBVIOUS
<1>1. /\ UNCHANGED view /\ DOMAIN room' = DOMAIN room /\ room'.store = room.store
      /\ room'.rooms = room.rooms /\ room'.read = [room.read EXCEPT ![k.conv] = k.n]
      /\ DOMAIN line' = DOMAIN line /\ line'.up = line.up /\ line'.down = line.down
      /\ line'.loads = line.loads /\ line'.marks = (line.marks \ {k}) \cup {g}
  BY DEF ServeMark, ViewInv, ViewTypeOK
<1>2. /\ DOMAIN past' = DOMAIN past /\ past'.seen = past.seen /\ past'.gap = past.gap
      /\ past'.astray = IF \E m \in room.store : m.n = k.n /\ m.conv # k.conv
                        THEN past.astray \cup {k.conv} ELSE past.astray
  BY DEF ServeMark, ViewInv, ViewTypeOK
<1>3. Covers(k, past.seen \cup past.gap)  BY DEF ViewInv, MarksCover
<1>4. PICK x \in room.store : x.n = k.n  BY <1>3 DEF Covers
<1>5. k.conv \in Conversations /\ k.n \in Nat /\ k.n <= Cardinality(room.store)
  BY <1>3, <1>4 DEF Covers, ViewInv, ViewTypeOK, Numbered
<1>6. \A c \in Conversations : room'.read[c] = IF c = k.conv THEN k.n ELSE room.read[c]
  BY <1>1 DEF ViewInv, ViewTypeOK
<1>7. ViewTypeOK'
  BY <1>1, <1>2, <1>5, <1>6 DEF ViewInv, ViewTypeOK
<1>8. g = [conv |-> k.conv, n |-> k.n, served |-> TRUE]
  BY <1>3 DEF Covers
<1>9. \A h \in line'.marks : Covers(h, past.seen \cup past.gap)'
  BY <1>3, <1>8, <1>1, <1>2 DEF Covers, ViewInv, MarksCover
<1>10. ReadWasShown'
  <2> SUFFICES ASSUME NEW m \in room.store, ~m.own, m.n <= room'.read[m.conv]
               PROVE  m \in past.seen \/ m \in past.gap \/ m.conv \in past'.astray
    BY <1>1, <1>2 DEF ReadWasShown
  <2>1. m.conv \in Conversations  BY DEF ViewInv, ViewTypeOK
  <2>2. CASE m.conv # k.conv
    BY <2>1, <2>2, <1>2, <1>6 DEF ViewInv, ReadWasShown
  <2>3. CASE m.conv = k.conv /\ x.conv # k.conv
    BY <2>3, <1>2, <1>4
  <2>4. CASE m.conv = k.conv /\ x.conv = k.conv
    BY <2>1, <2>4, <1>6, <1>3, <1>4 DEF Covers
  <2> QED  BY <2>2, <2>3, <2>4
<1>11. InRoomOrJoining' /\ StoredIsKnown' /\ EventsInOrder' /\ NothingBehind' /\ ListsAreFull'
  BY <1>1, <1>2 DEF ViewInv, InRoomOrJoining, StoredIsKnown, EventsInOrder, NothingBehind,
     ListsAreFull
<1> QED  BY <1>7, <1>9, <1>10, <1>11 DEF ViewInv, MarksCover

\* What changes neither messages nor rooms, and adds neither list nor mark.
LEMMA IdleSteps ==
    ASSUME ViewInv, UNCHANGED room,
           DOMAIN view' = DOMAIN view, view'.sel = view.sel, view'.shown = view.shown,
           view'.on = view.on, view'.visible = view.visible,
           DOMAIN line' = DOMAIN line, line'.down = line.down, line'.loads = line.loads,
           line'.marks \subseteq line.marks, line.up \subseteq line'.up,
           DOMAIN past' = DOMAIN past, past'.seen = past.seen, past'.gap = past.gap,
           past'.astray = past.astray
    PROVE  ViewInv'
BY QuietSteps DEF ShowsOnly, SameMessages, ViewInv, ViewTypeOK, InRoomOrJoining

\* Marks that arrive or are lost, and the composer.
LEMMA Writing ==
    ASSUME ViewInv
    PROVE  /\ \A k \in line.marks : ArriveMark(k) => ViewInv'
           /\ \A k \in line.marks : LoseMark(k) => ViewInv'
           /\ Write => ViewInv'
           /\ SendText => ViewInv'
           /\ StartUpload => ViewInv'
           /\ EndUpload => ViewInv'
           /\ FailUpload => ViewInv'
<1> USE DEF ViewInv, ViewTypeOK
<1>1. ASSUME NEW k \in line.marks, ArriveMark(k)  PROVE ViewInv'
  BY <1>1, IdleSteps DEF ArriveMark
<1>2. ASSUME NEW k \in line.marks, LoseMark(k)  PROVE ViewInv'
  BY <1>2, IdleSteps DEF LoseMark
<1>3. ASSUME Write  PROVE ViewInv'  BY <1>3, IdleSteps DEF Write
<1>4. ASSUME SendText  PROVE ViewInv'  BY <1>4, IdleSteps DEF SendText, Emitted
<1>5. ASSUME StartUpload  PROVE ViewInv'  BY <1>5, IdleSteps DEF StartUpload
<1>6. ASSUME EndUpload  PROVE ViewInv'  BY <1>6, IdleSteps DEF EndUpload, Emitted
<1>7. ASSUME FailUpload  PROVE ViewInv'  BY <1>7, IdleSteps DEF FailUpload
<1> QED  BY <1>1, <1>2, <1>3, <1>4, <1>5, <1>6, <1>7

\* The socket comes, goes, and joins a room.
LEMMA Connecting ==
    ASSUME ViewInv
    PROVE  /\ ConnectSocket => ViewInv'
           /\ DropSocket => ViewInv'
           /\ \A c \in Conversations : ServeJoin(c) => ViewInv'
<1>1. ASSUME ConnectSocket  PROVE ViewInv'
  BY <1>1, QuietSteps DEF ConnectSocket, ViewInv, ViewTypeOK, ShowsOnly, SameMessages,
     InRoomOrJoining
<1>2. ASSUME DropSocket  PROVE ViewInv'
  <2>1. /\ DOMAIN room' = DOMAIN room /\ room'.store = room.store /\ room'.read = room.read
        /\ DOMAIN view' = DOMAIN view /\ DOMAIN line' = DOMAIN line /\ DOMAIN past' = DOMAIN past
        /\ view'.sel = view.sel /\ view'.shown = view.shown /\ view'.visible = view.visible
        /\ view'.on = FALSE /\ line'.down = <<>> /\ line'.loads = line.loads
        /\ line'.marks = line.marks
    BY <1>2 DEF DropSocket, ViewInv, ViewTypeOK
  <2>2. /\ past'.seen = past.seen /\ past'.gap = past.gap \cup Range(line.down)
        /\ past'.astray = past.astray
    BY <1>2 DEF DropSocket, ViewInv, ViewTypeOK, Range
  <2>3. ShowsOnly /\ InRoomOrJoining'
    BY <2>1, <2>2 DEF ShowsOnly, SameMessages, ViewInv, ViewTypeOK, InRoomOrJoining
  <2>4. StoredIsKnown'  BY <2>1, <2>2 DEF ViewInv, StoredIsKnown
  <2>5. line'.down \in Seq(room.store) /\ DOMAIN line'.down = {}  BY <2>1
  <2>6. EventsInOrder' /\ NothingBehind'  BY <2>5 DEF EventsInOrder, NothingBehind
  <2> QED  BY <2>1, <2>3, <2>4, <2>5, <2>6, ShowsOnlyInv DEF ViewInv, ViewTypeOK
<1>3. ASSUME NEW c \in Conversations, ServeJoin(c)  PROVE ViewInv'
  BY <1>3, QuietSteps DEF ServeJoin, ViewInv, ViewTypeOK, ShowsOnly, SameMessages, InRoomOrJoining
<1> QED  BY <1>1, <1>2, <1>3

\* A message just stored goes to the page that listens, or is in a gap; it is newer than all
\* that is shown, listed, on its way or marked.
LEMMA Storing ==
    ASSUME ViewInv, NEW c \in Conversations, NEW own, NEW m, m = NextMessage(c, own),
           NEW l, DOMAIN l = DOMAIN line, l.down = line.down, l.marks = line.marks,
           l.loads = line.loads,
           \A d : [do |-> "join", conv |-> d] \in line.up => [do |-> "join", conv |-> d] \in l.up,
           Stored(m, l), UNCHANGED view
    PROVE  ViewInv'
<1> DEFINE C == Cardinality(room.store)
<1>1. C \in Nat  BY FS_CardinalityType DEF ViewInv, ViewTypeOK, Numbered
<1>2. m.n = C + 1 /\ m.conv = c  BY DEF NextMessage
<1>3. m \notin room.store  BY <1>1, <1>2 DEF ViewInv, ViewTypeOK
<1>4. /\ DOMAIN room' = DOMAIN room /\ room'.store = room.store \cup {m}
      /\ room'.rooms = room.rooms /\ room'.read = room.read
  BY DEF Stored, ViewInv, ViewTypeOK
<1>5. IsFiniteSet(room'.store) /\ Cardinality(room'.store) = C + 1
  BY <1>3, <1>4, FS_AddElement DEF ViewInv, ViewTypeOK, Numbered
<1>6. /\ DOMAIN line' = DOMAIN line /\ line'.marks = line.marks /\ line'.loads = line.loads
      /\ line'.up = l.up
      /\ line'.down = IF m.conv \in room.rooms THEN Append(line.down, m) ELSE line.down
  BY DEF Stored, ViewInv, ViewTypeOK
<1>7. /\ DOMAIN past' = DOMAIN past /\ past'.seen = past.seen /\ past'.astray = past.astray
      /\ past.gap \subseteq past'.gap
      /\ m.conv \notin room.rooms => m \in past'.gap
  BY DEF ViewInv, InRoomOrJoining, Stored, ViewTypeOK
<1>8. \A x \in room.store : x.n \in Nat /\ x.n <= C  BY DEF ViewInv, ViewTypeOK, Numbered
<1>10. line.down \in Seq(room.store) /\ line.down \in Seq(room'.store)
  BY <1>4 DEF ViewInv, ViewTypeOK
<1>11. /\ line'.down \in Seq(room'.store) /\ Range(line.down) \subseteq Range(line'.down)
       /\ m.conv \in room.rooms => m \in Range(line'.down)
       /\ \A i \in DOMAIN line'.down :
             \/ i \in DOMAIN line.down /\ line'.down[i] = line.down[i]
             \/ i = Len(line.down) + 1 /\ line'.down[i] = m
  <2>1. CASE m.conv \in room.rooms
    <3>1. Appended(line'.down, line.down, m)  BY <2>1, <1>6 DEF Appended
    <3>2. m \in room'.store  BY <1>4
    <3>3. /\ line'.down \in Seq(room'.store) /\ Range(line'.down) = Range(line.down) \cup {m}
          /\ \A i \in DOMAIN line'.down :
                \/ i \in DOMAIN line.down /\ line'.down[i] = line.down[i]
                \/ i = Len(line.down) + 1 /\ line'.down[i] = m
      BY <1>10, <3>1, <3>2, AppendOf
    <3> QED  BY <3>3
  <2>2. CASE m.conv \notin room.rooms
    BY <2>2, <1>6, <1>10
  <2> QED  BY <2>1, <2>2
<1> HIDE DEF C
<1>12. ViewTypeOK'
  <2>1. Numbered(room'.store)
    BY <1>1, <1>2, <1>4, <1>5, <1>8 DEF ViewInv, ViewTypeOK, Numbered
  <2>2. \A x \in room'.store : x.conv \in Conversations /\ x.n <= Cardinality(room'.store)
    BY <1>1, <1>2, <1>4, <1>5, <1>8 DEF ViewInv, ViewTypeOK
  <2>3. \A d \in Conversations : room'.read[d] <= Cardinality(room'.store)
    BY <1>1, <1>4, <1>5 DEF C, ViewInv, ViewTypeOK
  <2>4. \A g \in line'.loads :
          /\ g = [conv |-> g.conv, got |-> g.got]
          /\ g.got # NoOne => g.got \in Seq(room'.store)
    BY <1>4, <1>6 DEF ViewInv, ViewTypeOK
  <2>5. view'.shown \in Seq(room'.store)  BY <1>4 DEF ViewInv, ViewTypeOK
  <2> QED  BY <2>1, <2>2, <2>3, <2>4, <2>5, <1>4, <1>6, <1>7, <1>11 DEF ViewInv, ViewTypeOK
<1>13. InRoomOrJoining'  BY <1>4, <1>6 DEF ViewInv, InRoomOrJoining
<1>14. StoredIsKnown'
  BY <1>4, <1>7, <1>11 DEF ViewInv, StoredIsKnown
<1>15. \A i \in DOMAIN line.down : i \in 1..Len(line.down) /\ line.down[i] \in room.store
  BY <1>10
<1>16. \A i \in DOMAIN view.shown : view.shown[i] \in room.store
  BY DEF ViewInv, ViewTypeOK
<1>17. EventsInOrder'
  BY <1>10, <1>1, <1>2, <1>8, <1>11, <1>15 DEF ViewInv, EventsInOrder
<1>18. NothingBehind'
  <2> SUFFICES ASSUME NEW i \in DOMAIN view.shown, NEW j \in DOMAIN line'.down,
                      line'.down[j].conv = view.shown[i].conv,
                      line'.down[j].n < view.shown[i].n
               PROVE  line'.down[j] \in Range(view.shown)
    BY Zenon DEF NothingBehind
  <2>1. view.shown[i].n \in Nat /\ view.shown[i].n <= C  BY <1>8, <1>16
  <2>2. line'.down[j] # m  BY <2>1, <1>1, <1>2
  <2>3. j \in DOMAIN line.down /\ line'.down[j] = line.down[j]  BY <2>2, <1>11
  <2> QED  BY <2>3 DEF ViewInv, NothingBehind
<1>19. ListsAreFull'
  <2>1. \A g \in line.loads : g.got # NoOne => Range(g.got) \subseteq room.store
    BY DEF ViewInv, ViewTypeOK, Range
  <2> QED  BY <2>1, <1>1, <1>2, <1>4, <1>6, <1>8 DEF ViewInv, ListsAreFull
<1>20. MarksCover'
  <2> SUFFICES ASSUME NEW k \in line.marks  PROVE Covers(k, past.seen \cup past.gap)'
    BY <1>6 DEF MarksCover
  <2>1. Covers(k, past.seen \cup past.gap)  BY DEF ViewInv, MarksCover
  <2>2. PICK x \in room.store : x.n = k.n  BY <2>1 DEF Covers
  <2>3. k.n < m.n /\ ~(m.n <= k.n) /\ m.n # k.n  BY <2>2, <1>1, <1>2, <1>8
  <2>4. \E y \in room'.store : y.n = k.n  BY <2>2, <1>4
  <2>5. \A y, z \in room'.store :
           y.n = k.n /\ y.conv = k.conv /\ z.conv = k.conv /\ z.n <= k.n
             => y \in room.store /\ z \in room.store
    BY <2>3, <1>4
  <2> QED  BY <2>1, <2>4, <2>5, <1>7 DEF Covers
<1>21. ReadWasShown'
  BY <1>2, <1>1, <1>4, <1>7 DEF C, ViewInv, ViewTypeOK, ReadWasShown
<1> QED  BY <1>12, <1>13, <1>14, <1>17, <1>18, <1>19, <1>20, <1>21 DEF ViewInv

\* What the composer has cleared is accounted for, emit by emit.
Sends == {e \in line.up : e.do = "send"}
OwnStored == {m \in room.store : m.own}

SendInv ==
    /\ IsFiniteSet(line.up)
    /\ \A e \in Sends : e.conv \in Conversations /\ e.nth \in Nat /\ e.nth < past.cleared
    /\ view.sending \in Conversations \cup {NoOne}
    /\ past.cleared \in Nat /\ past.refused \in Nat
    /\ ClearedWasSent

\* The same account, in short.
LEMMA SendsAccounted ==
    /\ ClearedWasSent <=>
          \/ past.cleared = Cardinality(OwnStored) + past.refused + Cardinality(Sends)
          \/ past.dropped
    /\ (ClearedWasSent)' <=>
          \/ past'.cleared = Cardinality(OwnStored') + past'.refused + Cardinality(Sends')
          \/ past'.dropped
BY DEF ClearedWasSent, Sends, OwnStored

\* One more emit, or none.
LEMMA FiniteWithOne ==
    ASSUME IsFiniteSet(line.up), NEW j, line'.up = line.up \/ line'.up = line.up \cup {j}
    PROVE  IsFiniteSet(line'.up)
BY FS_AddElement

\* A step that neither emits nor serves a message.
LEMMA SendKept ==
    ASSUME SendInv, Sends' = Sends, OwnStored' = OwnStored, IsFiniteSet(line'.up),
           view'.sending \in Conversations \cup {NoOne},
           past'.cleared = past.cleared, past'.refused = past.refused, past'.dropped = past.dropped
    PROVE  SendInv'
BY DEF SendInv, ClearedWasSent, Sends, OwnStored

\* One more emit, for what the composer clears.
LEMMA SendAdded ==
    ASSUME ViewInv, SendInv, NEW c \in Conversations, line' = Emitted(c), UNCHANGED room,
           view'.sending = NoOne, past' = [past EXCEPT !.cleared = @ + 1]
    PROVE  SendInv'
<1> DEFINE e == [do |-> "send", conv |-> c, nth |-> past.cleared]
<1>1. line'.up = line.up \cup {e} /\ e.do = "send" /\ e.conv = c /\ e.nth = past.cleared
  BY DEF Emitted, ViewInv, ViewTypeOK
<1>2. /\ past'.cleared = past.cleared + 1 /\ past'.refused = past.refused
      /\ past'.dropped = past.dropped /\ past.cleared \in Nat /\ past.refused \in Nat
  BY DEF ViewInv, ViewTypeOK, SendInv
<1> HIDE DEF e
<1>3. Sends' = Sends \cup {e} /\ e \notin Sends
  BY <1>1, <1>2 DEF Sends, SendInv
<1>4. IsFiniteSet(Sends) /\ IsFiniteSet(line'.up)
  BY <1>1, FS_Subset, FS_AddElement DEF Sends, SendInv
<1>5. Cardinality(Sends') = Cardinality(Sends) + 1 /\ Cardinality(Sends) \in Nat
  BY <1>3, <1>4, FS_AddElement, FS_CardinalityType
<1>6. OwnStored' = OwnStored /\ Cardinality(OwnStored) \in Nat
  BY FS_Subset, FS_CardinalityType DEF OwnStored, ViewInv, ViewTypeOK, Numbered
<1>7. ClearedWasSent'
  BY <1>2, <1>5, <1>6 DEF SendInv, ClearedWasSent, Sends, OwnStored
<1> QED  BY <1>1, <1>2, <1>3, <1>4, <1>7 DEF SendInv

\* The server serves one: it stores the message or refuses it.
LEMMA SendServed ==
    ASSUME ViewInv, SendInv, NEW e \in line.up, ServeSend(e)
    PROVE  SendInv'
<1> DEFINE l == [line EXCEPT !.up = @ \ {e}]
           m == NextMessage(e.conv, TRUE)
<1>1. e \in Sends /\ UNCHANGED view
  BY DEF ServeSend, Sends
<1>2. l.up = line.up \ {e} /\ DOMAIN l = DOMAIN line
  BY DEF ViewInv, ViewTypeOK
<1>3. /\ IsFiniteSet(Sends) /\ IsFiniteSet(line.up \ {e}) /\ IsFiniteSet(OwnStored)
      /\ IsFiniteSet(room.store)
  BY FS_Subset DEF Sends, OwnStored, SendInv, ViewInv, ViewTypeOK, Numbered
<1>4. /\ Cardinality(Sends \ {e}) = Cardinality(Sends) - 1
      /\ Cardinality(Sends) \in Nat /\ Cardinality(OwnStored) \in Nat
  BY <1>1, <1>3, FS_RemoveElement, FS_CardinalityType
<1>5. past.cleared \in Nat /\ past.refused \in Nat
  BY DEF SendInv
<1>6. m.own /\ m.n = Cardinality(room.store) + 1
  BY DEF NextMessage
<1>7. \/ line' = l /\ past' = [past EXCEPT !.refused = @ + 1] /\ UNCHANGED room
      \/ Stored(m, l)
  BY DEF ServeSend
<1> HIDE DEF l, m
<1>8. CASE line' = l /\ past' = [past EXCEPT !.refused = @ + 1] /\ UNCHANGED room
  <2>1. /\ Sends' = Sends \ {e} /\ OwnStored' = OwnStored /\ line'.up = line.up \ {e}
    BY <1>2, <1>8 DEF Sends, OwnStored
  <2>2. /\ past'.cleared = past.cleared /\ past'.refused = past.refused + 1
        /\ past'.dropped = past.dropped
    BY <1>8 DEF ViewInv, ViewTypeOK
  <2>3. ClearedWasSent'
    BY <1>4, <1>5, <2>1, <2>2, SendsAccounted DEF SendInv
  <2> QED  BY <1>1, <1>3, <1>5, <2>1, <2>2, <2>3 DEF SendInv
<1>9. CASE Stored(m, l)
  <2>1. /\ line'.up = line.up \ {e} /\ room'.store = room.store \cup {m}
        /\ past'.cleared = past.cleared /\ past'.refused = past.refused
        /\ past'.dropped = past.dropped
    BY <1>2, <1>9 DEF Stored, ViewInv, ViewTypeOK
  <2>2. Cardinality(room.store) \in Nat /\ m \notin room.store
    BY <1>3, <1>6, FS_CardinalityType DEF ViewInv, ViewTypeOK, Numbered
  <2>3. Sends' = Sends \ {e} /\ OwnStored' = OwnStored \cup {m} /\ m \notin OwnStored
    BY <1>6, <2>1, <2>2 DEF Sends, OwnStored
  <2>4. Cardinality(OwnStored') = Cardinality(OwnStored) + 1
    BY <1>3, <2>3, FS_AddElement
  <2>5. ClearedWasSent'
    BY <1>4, <1>5, <2>1, <2>3, <2>4, SendsAccounted DEF SendInv
  <2> QED  BY <1>1, <1>3, <1>5, <2>1, <2>3, <2>5 DEF SendInv
<1> QED  BY <1>7, <1>8, <1>9

\* Every step of the page of a conversation keeps the account.
LEMMA SendSteps ==
    ASSUME ViewInv, SendInv, [ViewNext]_viewVars
    PROVE  SendInv'
<1> USE DEF ViewInv, ViewTypeOK
<1>1. CASE UNCHANGED viewVars
  BY <1>1, SendKept DEF viewVars, SendInv, Sends, OwnStored
<1>2. ASSUME NEW c \in Conversations, SwitchTo(c)  PROVE SendInv'
  <2>1. /\ UNCHANGED room /\ view'.sending = view.sending
        /\ line'.up = line.up \/ line'.up = line.up \cup {[do |-> "join", conv |-> c]}
        /\ past'.cleared = past.cleared /\ past'.refused = past.refused
        /\ past'.dropped = past.dropped
    BY <1>2 DEF SwitchTo, Render
  <2>2. IsFiniteSet(line'.up)
    BY <2>1, FiniteWithOne DEF SendInv
  <2> QED  BY <2>1, <2>2, SendKept DEF SendInv, Sends, OwnStored
<1>3. ASSUME NEW c \in Conversations, ServeJoin(c)  PROVE SendInv'
  BY <1>3, FS_Subset, SendKept DEF ServeJoin, SendInv, Sends, OwnStored
<1>4. ASSUME NEW c \in Conversations, OtherSends(c)  PROVE SendInv'
  BY <1>4, SendKept DEF OtherSends, Stored, NextMessage, SendInv, Sends, OwnStored
<1>5. ASSUME NEW l \in line.loads, ServeList(l) \/ ArriveList(l) \/ FailList(l)  PROVE SendInv'
  BY <1>5, SendKept DEF ServeList, ArriveList, FailList, SendInv, Sends, OwnStored
<1>6. ASSUME NEW k \in line.marks, ServeMark(k) \/ ArriveMark(k) \/ LoseMark(k)  PROVE SendInv'
  BY <1>6, SendKept DEF ServeMark, ArriveMark, LoseMark, SendInv, Sends, OwnStored
<1>7. CASE ArriveMessage \/ HideTab \/ ShowTab
  BY <1>7, SendKept DEF ArriveMessage, HideTab, ShowTab, Render, SendInv, Sends, OwnStored
<1>8. CASE ConnectSocket
  <2>1. /\ UNCHANGED <<room, past>> /\ view'.sending = view.sending
        /\ line'.up = line.up \cup {[do |-> "join", conv |-> view.sel]}
    BY <1>8 DEF ConnectSocket
  <2>2. IsFiniteSet(line'.up)
    BY <2>1, FiniteWithOne DEF SendInv
  <2> QED  BY <2>1, <2>2, SendKept DEF SendInv, Sends, OwnStored
<1>9. CASE DropSocket
  <2>1. /\ view'.sending = view.sending /\ past'.cleared = past.cleared
        /\ past'.refused = past.refused /\ line'.up = {}
    BY <1>9 DEF DropSocket, ViewInv, ViewTypeOK
  <2>2. past'.dropped <=> past.dropped \/ Sends # {}
    BY <1>9 DEF DropSocket, Sends, ViewInv, ViewTypeOK
  <2>3. Sends' = {} /\ IsFiniteSet(line'.up)
    BY <2>1, FS_EmptySet DEF Sends
  <2>4. OwnStored' = OwnStored
    BY <1>9 DEF DropSocket, OwnStored
  <2>5. (ClearedWasSent)'
    BY <2>1, <2>2, <2>3, <2>4, SendsAccounted DEF SendInv
  <2> QED  BY <2>1, <2>3, <2>5 DEF SendInv
<1>10. CASE Write \/ StartUpload \/ FailUpload
  BY <1>10, SendKept DEF Write, StartUpload, FailUpload, SendInv, Sends, OwnStored
<1>11. CASE SendText
  BY <1>11, SendAdded DEF SendText
<1>12. CASE EndUpload
  BY <1>12, SendAdded DEF EndUpload, SendInv
<1> QED  BY <1>1, <1>2, <1>3, <1>4, <1>5, <1>6, <1>7, <1>8, <1>9, <1>10, <1>11, <1>12, SendServed
         DEF ViewNext

\* Every step of the page of a conversation, its socket and the server keeps the invariant.
LEMMA ViewSteps ==
    ASSUME ViewInv, SendInv, [ViewNext]_viewVars
    PROVE  ViewInv'
<1>1. CASE UNCHANGED viewVars
  BY <1>1, IdleSteps DEF viewVars
<1>2. ASSUME NEW c \in Conversations, OtherSends(c)  PROVE ViewInv'
  <2>1. Stored(NextMessage(c, FALSE), line) /\ UNCHANGED view  BY <1>2 DEF OtherSends
  <2> PICK m : m = NextMessage(c, FALSE)  OBVIOUS
  <2> QED  BY <2>1, Storing
<1>3. ASSUME NEW e \in line.up, ServeSend(e)  PROVE ViewInv'
  <2> PICK l : l = [line EXCEPT !.up = @ \ {e}]  OBVIOUS
  <2>1. /\ DOMAIN l = DOMAIN line /\ l.down = line.down /\ l.marks = line.marks
        /\ l.loads = line.loads
        /\ l.up = line.up \ {e}
    BY DEF ViewInv, ViewTypeOK
  <2>2. /\ \A d : [do |-> "join", conv |-> d] \in line.up => [do |-> "join", conv |-> d] \in l.up
        /\ e.conv \in Conversations
    BY <1>3, <2>1 DEF ServeSend, SendInv, Sends
  <2>3. CASE line' = l /\ past' = [past EXCEPT !.refused = @ + 1] /\ UNCHANGED <<room, view>>
    BY <2>3, <2>1, <2>2, QuietSteps DEF ViewInv, ViewTypeOK, ShowsOnly, SameMessages,
       InRoomOrJoining
  <2>4. CASE Stored(NextMessage(e.conv, TRUE), l) /\ UNCHANGED view
    <3> PICK m : m = NextMessage(e.conv, TRUE)  OBVIOUS
    <3> QED  BY <2>1, <2>2, <2>4, Storing
  <2> QED  BY <1>3, <2>3, <2>4 DEF ServeSend
<1>4. CASE ViewNext
  BY <1>2, <1>3, <1>4, Looking, Arriving, Serving, Writing, Connecting, Zenon DEF ViewNext
<1> QED  BY <1>1, <1>4

\* The page of a conversation opens.
LEMMA ViewOpens ==
    ASSUME ViewInit
    PROVE  ViewInv /\ SendInv
<1>1. room.store = {} /\ Numbered({}) /\ Cardinality({}) = 0 /\ IsFiniteSet({})
  BY FS_EmptySet DEF ViewInit, Numbered
<1>2. /\ line.down = <<>> /\ view.shown = <<>> /\ ~view.on /\ line.marks = {} /\ line.up = {}
      /\ line.loads = {[conv |-> First, got |-> NoOne]}
  BY DEF ViewInit
<1>3. \A c \in Conversations : room.read[c] = 0  BY DEF ViewInit
<1>4. ViewTypeOK
  BY <1>1, <1>2, <1>3, FirstAssumption DEF ViewInit, ViewTypeOK
<1>5. DOMAIN line.down = {} /\ DOMAIN view.shown = {}  BY <1>2
<1>6. ViewInv
  BY <1>1, <1>2, <1>4, <1>5 DEF ViewInv, InRoomOrJoining, StoredIsKnown, EventsInOrder,
     NothingBehind, ListsAreFull, MarksCover, ReadWasShown
<1>7. view.sending = NoOne /\ past.cleared = 0 /\ past.refused = 0
  BY DEF ViewInit
<1>8. {m \in room.store : m.own} = {} /\ {e \in line.up : e.do = "send"} = {}
  BY <1>1, <1>2
<1> QED  BY <1>1, <1>2, <1>6, <1>7, <1>8 DEF SendInv, Sends, ClearedWasSent

\* A message of somebody else counts as read only when it was on the page, for any
\* conversations and messages, however lists, events and marks cross (useChat).
THEOREM ReadMeansShown == ScreensSpec => []MarksWereShown
<1> DEFINE Inv == screen = "view" => ViewInv /\ SendInv
<1>1. ScreensInit => Inv
  BY PageInits, ViewOpens
<1>2. Inv /\ [ScreensNext]_screenVars => Inv'
  BY PageSteps, ViewSteps, SendSteps
<1>3. Inv => MarksWereShown
  BY DEF ViewInv, MarksWereShown
<1> QED  BY <1>1, <1>2, <1>3, PTL DEF ScreensSpec

-----------------------------------------------------------------------------
(* The typing indicator *)

Joined(q, s, t) == q = s \o t

Parts(q, s, t) ==
    /\ \A i \in DOMAIN s : i \in DOMAIN q /\ q[i] = s[i]
    /\ \A i \in DOMAIN t : Len(s) + i \in DOMAIN q /\ q[Len(s) + i] = t[i]
    /\ \A i \in DOMAIN q : i \in DOMAIN s \/ (i - Len(s) \in DOMAIN t /\ q[i] = t[i - Len(s)])

\* What two sequences put together hold.
LEMMA JoinedOf ==
    ASSUME NEW S, NEW s \in Seq(S), NEW t \in Seq(S), NEW q, Joined(q, s, t)
    PROVE  q \in Seq(S) /\ Parts(q, s, t)
BY DEF Joined, Parts

\* The typist emits es and sets the timer: what he said before still ends, and so does es.
LEMMA Emitting ==
    ASSUME TypingInv, TypingTypeOK', ~TypingExcused, NEW es \in Seq(TypingEmits),
           Joined(typingLine'.up, typingLine.up, es),
           UNCHANGED <<typingUsers, watcher>>, typingLine'.down = typingLine.down,
           \* what the timer was set for
           \/ typist.timer = NoTalk
           \/ typist'.timer = typist.timer
           \/ \E i \in DOMAIN es : es[i].do \in {"stop", "send"} /\ es[i].talk = typist.timer,
           \* a start comes with the timer
           \A i \in DOMAIN es : es[i].do = "start" => typist'.timer = es[i].talk
    PROVE  ShownEnds' /\ StartsEnd'
<1> PICK u, v : u = typingLine.up /\ v = typingLine'.up  OBVIOUS
<1>1. u \in Seq(TypingEmits) /\ Len(u) \in Nat /\ DOMAIN u = 1..Len(u)
  BY DEF TypingInv, TypingTypeOK
<1>2. Joined(v, u, es)  OBVIOUS
<1>3. /\ \A i \in DOMAIN u : i \in DOMAIN v /\ v[i] = u[i]
      /\ \A i \in DOMAIN es : Len(u) + i \in DOMAIN v /\ v[Len(u) + i] = es[i]
      /\ \A i \in DOMAIN v : i \in DOMAIN u \/ (i - Len(u) \in DOMAIN es /\ v[i] = es[i - Len(u)])
  <2>1. Parts(v, u, es)  BY <1>1, <1>2, JoinedOf
  <2> QED  BY <2>1 DEF Parts
<1>4. \A i \in DOMAIN es : i \in Nat /\ i >= 1  OBVIOUS
<1>5. ASSUME NEW i \in 1..(Len(u) + 1), NEW c, StopFrom(i, c)
      PROVE  StopFrom(i, c)'
  BY <1>3, <1>5 DEF StopFrom
<1>6. ASSUME NEW i \in 1..(Len(u) + 1), NEW c \in Talks, typist.timer = c
      PROVE  typist'.timer = c \/ StopFrom(i, c)'
  BY <1>6, TalksAssumption, <1>1, <1>3, <1>4 DEF StopFrom
<1>7. ShownEnds'
  <2> SUFFICES ASSUME WillShow'
               PROVE  \E c \in Talks : Hears(c)' /\ (typist'.timer = c \/ StopFrom(1, c)')
    BY DEF ShownEnds
  <2>1. WillShow  BY DEF WillShow
  <2>2. PICK c \in Talks : Hears(c) /\ (typist.timer = c \/ StopFrom(1, c))
    BY <2>1 DEF TypingInv, ShownEnds
  <2>3. Hears(c)'  BY <2>2 DEF Hears
  <2>4. 1 \in 1..(Len(u) + 1)  BY <1>1
  <2> QED  BY <2>2, <2>3, <2>4, <1>5, <1>6
<1>8. StartsEnd'
  <2> SUFFICES ASSUME NEW i \in DOMAIN v, v[i].do = "start"
               PROVE  typist'.timer = v[i].talk \/ StopFrom(i, v[i].talk)'
    BY DEF StartsEnd
  <2>1. CASE i \in DOMAIN u
    <3>1. v[i] = u[i] /\ i \in 1..(Len(u) + 1) /\ u[i].talk \in Talks
      <4>1. u[i] \in TypingEmits  BY <1>1, <2>1
      <4> QED  BY <1>1, <1>3, <2>1, <4>1 DEF TypingEmits
    <3>2. typist.timer = u[i].talk \/ StopFrom(i, u[i].talk)
      BY <2>1, <3>1 DEF TypingInv, StartsEnd
    <3> QED  BY <3>1, <3>2, <1>5, <1>6
  <2>2. CASE i \notin DOMAIN u  BY <1>3, <2>2
  <2> QED  BY <2>1, <2>2
<1> QED  BY <1>7, <1>8

\* The history only adds excuses.
LogGoesOn ==
    /\ DOMAIN typingLog' = DOMAIN typingLog
    /\ typingLog'.abandoned \in BOOLEAN /\ typingLog'.lost \in BOOLEAN
    /\ typingLog'.deaf \in BOOLEAN
    /\ TypingExcused => TypingExcused'

\* Steps of the typist keep the type invariant.
LEMMA TypistTypes ==
    ASSUME TypingTypeOK
    PROVE  /\ \A text \in BOOLEAN : TypeKey(text) => TypingTypeOK' /\ LogGoesOn
           /\ TimerStops => TypingTypeOK' /\ LogGoesOn
           /\ SendLine => TypingTypeOK' /\ LogGoesOn
           /\ UnmountComposer => TypingTypeOK' /\ LogGoesOn
           /\ DropTypist => TypingTypeOK' /\ LogGoesOn
           /\ ConnectTypist => TypingTypeOK' /\ LogGoesOn
           /\ \A c \in Talks : TypistSwitches(c) => TypingTypeOK' /\ LogGoesOn
<1> USE DEF TypingTypeOK, LogGoesOn, TypingExcused
<1>0. \A c \in Talks : /\ TypingStart(c) \in TypingEmits /\ TypingStop(c) \in TypingEmits
                       /\ [do |-> "send", talk |-> c] \in TypingEmits
  BY DEF TypingStart, TypingStop, TypingEmits
<1>1. ASSUME NEW text \in BOOLEAN, TypeKey(text)  PROVE TypingTypeOK' /\ LogGoesOn
  <2> PICK es : /\ es = IF text /\ ~typist.started THEN <<TypingStart(typist.talk)>> ELSE <<>>
                /\ Emits(es)
    BY <1>1 DEF TypeKey
  <2>1. es \in Seq(TypingEmits)
    <3> PICK e \in TypingEmits : e = TypingStart(typist.talk)  BY <1>0
    <3>1. es = <<e>> \/ es = <<>>  OBVIOUS
    <3> QED  BY <3>1
  <2>2. typingLine.up \o es \in Seq(TypingEmits)  BY <2>1
  <2>3. DOMAIN typingLine' = {"up", "down"} /\ typingLine'.up = typingLine.up \o es
        /\ typingLine'.down = typingLine.down
    BY DEF Emits
  <2>4. /\ DOMAIN typist' = DOMAIN typist /\ typist'.talk = typist.talk
        /\ typist'.timer = typist.talk
    BY <1>1 DEF TypeKey
  <2>5. LogGoesOn  BY <1>1, Zenon DEF TypeKey
  <2> QED  BY <1>1, <2>2, <2>3, <2>4, <2>5 DEF TypeKey
<1>2. ASSUME TimerStops  PROVE TypingTypeOK' /\ LogGoesOn
  <2> PICK e \in TypingEmits : e = TypingStop(typist.timer)
    BY <1>0, <1>2 DEF TimerStops
  <2>1. DOMAIN typingLine' = {"up", "down"} /\ typingLine'.up = typingLine.up \o <<e>>
        /\ typingLine'.down = typingLine.down
    BY <1>2 DEF TimerStops, Emits
  <2>2. typingLine.up \o <<e>> \in Seq(TypingEmits)  OBVIOUS
  <2>3. /\ DOMAIN typist' = DOMAIN typist /\ typist'.talk = typist.talk
        /\ typist'.timer = NoTalk /\ UNCHANGED <<typingUsers, watcher, typingLog>>
    BY <1>2 DEF TimerStops
  <2> QED  BY <2>1, <2>2, <2>3
<1>3. ASSUME SendLine  PROVE TypingTypeOK' /\ LogGoesOn
  <2> PICK d \in TypingEmits, e \in TypingEmits :
         d = [do |-> "send", talk |-> typist.talk] /\ e = TypingStop(typist.talk)
    BY <1>0
  <2>1. DOMAIN typingLine' = {"up", "down"} /\ typingLine'.up = typingLine.up \o <<d, e>>
        /\ typingLine'.down = typingLine.down
    BY <1>3 DEF SendLine, Emits
  <2>2. typingLine.up \o <<d, e>> \in Seq(TypingEmits)  OBVIOUS
  <2>3. /\ DOMAIN typist' = DOMAIN typist /\ typist'.talk = typist.talk
        /\ typist'.timer = NoTalk /\ UNCHANGED <<typingUsers, watcher>>
    BY <1>3 DEF SendLine
  <2>4. LogGoesOn  BY <1>3, Zenon DEF SendLine
  <2>5. /\ DOMAIN typingLog' = {"left", "abandoned", "lost", "deaf"}
        /\ typingLog'.abandoned \in BOOLEAN /\ typingLog'.lost \in BOOLEAN
        /\ typingLog'.deaf \in BOOLEAN
    BY <2>4, Zenon
  <2>6. TypingTypeOK'
    <3> HIDE DEF LogGoesOn
    <3> QED  BY <2>1, <2>2, <2>3, <2>5
  <2> QED  BY <2>4, <2>6, Zenon
<1>4. ASSUME UnmountComposer  PROVE TypingTypeOK' /\ LogGoesOn
  BY <1>4 DEF UnmountComposer
<1>5. ASSUME DropTypist  PROVE TypingTypeOK' /\ LogGoesOn
  BY <1>5 DEF DropTypist
<1>6. ASSUME ConnectTypist  PROVE TypingTypeOK' /\ LogGoesOn
  BY <1>6 DEF ConnectTypist
<1>7. ASSUME NEW c \in Talks, TypistSwitches(c)  PROVE TypingTypeOK' /\ LogGoesOn
  BY <1>7 DEF TypistSwitches, Spending
<1> QED  BY <1>1, <1>2, <1>3, <1>4, <1>5, <1>6, <1>7

\* Steps of the gateway and of the reader keep the type invariant.
LEMMA GatewayTypes ==
    ASSUME TypingTypeOK
    PROVE  /\ ServeEmit => TypingTypeOK' /\ LogGoesOn
           /\ ArriveTyping => TypingTypeOK' /\ LogGoesOn
           /\ DropWatcher => TypingTypeOK' /\ LogGoesOn
           /\ ConnectWatcher => TypingTypeOK' /\ LogGoesOn
           /\ \A c \in Talks : WatcherSwitches(c) \/ ServeJoining(c) => TypingTypeOK' /\ LogGoesOn
<1> USE DEF TypingTypeOK, LogGoesOn, TypingExcused
<1>1. ASSUME ServeEmit  PROVE TypingTypeOK' /\ LogGoesOn
  <2>1. /\ UNCHANGED <<typist, watcher, typingLog>> /\ typingLine.up # <<>>
        /\ DOMAIN typingUsers' = DOMAIN typingUsers
    BY <1>1 DEF ServeEmit, handleTypingStart, clearTyping
  <2>2. Tail(typingLine.up) \in Seq(TypingEmits)
    BY <2>1, TailOf
  <2>3. /\ DOMAIN typingLine' = {"up", "down"} /\ typingLine'.up = Tail(typingLine.up)
        /\ \/ typingLine'.down = typingLine.down
           \/ typingLine'.down = Append(typingLine.down, "user_typing")
           \/ typingLine'.down = Append(typingLine.down, "user_stopped_typing")
    BY <1>1 DEF ServeEmit, handleTypingStart, clearTyping, Told
  <2>4. typingLine'.down \in Seq(TypingEvents)
    <3>1. typingLine.down \in Seq(TypingEvents)  OBVIOUS
    <3>2. "user_typing" \in TypingEvents /\ "user_stopped_typing" \in TypingEvents
      BY DEF TypingEvents
    <3>3. \A e \in TypingEvents : Append(typingLine.down, e) \in Seq(TypingEvents)
      BY <3>1
    <3> QED  BY ONLY <2>3, <3>1, <3>2, <3>3
  <2> QED  BY <2>1, <2>2, <2>3, <2>4
<1>2. ASSUME ArriveTyping  PROVE TypingTypeOK' /\ LogGoesOn
  BY <1>2, TailOf DEF ArriveTyping
<1>3. ASSUME DropWatcher  PROVE TypingTypeOK' /\ LogGoesOn
  BY <1>3 DEF DropWatcher
<1>4. ASSUME ConnectWatcher  PROVE TypingTypeOK' /\ LogGoesOn
  BY <1>4 DEF ConnectWatcher
<1>5. ASSUME NEW c \in Talks, WatcherSwitches(c) \/ ServeJoining(c)
      PROVE  TypingTypeOK' /\ LogGoesOn
  BY <1>5 DEF WatcherSwitches, ServeJoining, Spending
<1> QED  BY <1>1, <1>2, <1>3, <1>4, <1>5

\* Steps that neither send nor serve an emit, and show nothing new.
LEMMA TypingFrame ==
    ASSUME TypingInv, ~TypingExcused, typist'.timer = typist.timer,
           typingLine'.up = typingLine.up, WillShow' => WillShow,
           \A c \in Talks : Hears(c) => Hears(c)'
    PROVE  ShownEnds' /\ StartsEnd'
BY DEF TypingInv, ShownEnds, StartsEnd, StopFrom

\* What arrives is what was going to be shown.
LEMMA ArrivingTyping ==
    ASSUME TypingInv, ~TypingExcused, ArriveTyping
    PROVE  ShownEnds' /\ StartsEnd'
<1> PICK d : d = typingLine.down  OBVIOUS
<1>1. d \in Seq(TypingEvents) /\ d # <<>> /\ Len(d) \in Nat /\ Len(d) >= 1
  BY DEF ArriveTyping, TypingInv, TypingTypeOK
<1>2. /\ typingLine'.down = Tail(d) /\ typingLine'.up = typingLine.up
      /\ UNCHANGED <<typist, typingUsers>>
      /\ watcher'.on = watcher.on /\ watcher'.rooms = watcher.rooms
      /\ watcher'.shows = (Head(d) = "user_typing")
  BY DEF ArriveTyping, TypingInv, TypingTypeOK
<1>3. WillShow' => WillShow
  <2>1. CASE Len(d) = 1
    <3>1. Tail(d) = <<>> /\ Head(d) = d[1]
      <4> PICK t : t = Tail(d)  OBVIOUS
      <4>1. t \in Seq(TypingEvents) /\ Len(t) = 0  BY <1>1, <2>1
      <4>2. t = <<>>  BY <4>1
      <4>3. Head(d) = d[1]  BY <1>1
      <4> QED  BY <4>2, <4>3
    <3>2. WillShow' => d[1] = "user_typing"  BY <1>2, <3>1 DEF WillShow
    <3> QED  BY <1>1, <2>1, <3>2 DEF WillShow
  <2>2. CASE Len(d) # 1
    BY <1>1, <2>2, LastOfTail, <1>2 DEF WillShow
  <2> QED  BY <2>1, <2>2
<1>4. \A c \in Talks : Hears(c) => Hears(c)'  BY <1>2 DEF Hears
<1> QED  BY <1>2, <1>3, <1>4, TypingFrame

\* The gateway serves the first emit: a start that the watcher hears has its stop behind it,
\* and a stop that he hears is the last event.
LEMMA ServingEmit ==
    ASSUME TypingInv, ~TypingExcused, ServeEmit
    PROVE  ShownEnds' /\ StartsEnd'
<1> PICK u, t, e, c : u = typingLine.up /\ t = Tail(u) /\ e = Head(u) /\ c = e.talk
  OBVIOUS
<1>1. u \in Seq(TypingEmits) /\ u # <<>>  BY DEF ServeEmit, TypingInv, TypingTypeOK
<1>2. /\ e \in TypingEmits /\ e = u[1] /\ 1 \in DOMAIN u
      /\ \A j \in DOMAIN t : j \in Nat /\ j >= 1 /\ j + 1 \in DOMAIN u /\ t[j] = u[j + 1]
  BY <1>1, TailOf
<1>3. c \in Talks /\ e.do \in {"start", "stop", "send"}  BY <1>2 DEF TypingEmits
<1>4. \A i \in DOMAIN u : i \in Nat /\ i >= 1 /\ (i # 1 => i - 1 \in DOMAIN t /\ t[i - 1] = u[i])
  BY <1>1
<1>5. typingLine'.up = t /\ UNCHANGED <<typist, watcher, typingLog>>
  BY DEF ServeEmit, handleTypingStart, clearTyping, Told, TypingInv, TypingTypeOK
<1>6. ASSUME NEW i \in Nat, i >= 1, NEW d, StopFrom(i + 1, d)  PROVE StopFrom(i, d)'
  <2> PICK j \in DOMAIN u : j >= i + 1 /\ u[j].do \in {"stop", "send"} /\ u[j].talk = d
    BY <1>6 DEF StopFrom
  <2>1. j - 1 \in DOMAIN t /\ t[j - 1] = u[j] /\ j - 1 >= i  BY <1>4, <1>6
  <2> QED  BY <2>1, <1>5 DEF StopFrom
<1>7. StartsEnd'
  <2> SUFFICES ASSUME NEW i \in DOMAIN t, t[i].do = "start"
               PROVE  typist.timer = t[i].talk \/ StopFrom(i, t[i].talk)'
    BY <1>5 DEF StartsEnd
  <2>1. i \in Nat /\ i >= 1 /\ i + 1 \in DOMAIN u /\ t[i] = u[i + 1]  BY <1>2
  <2>2. typist.timer = t[i].talk \/ StopFrom(i + 1, t[i].talk)
    BY <2>1 DEF TypingInv, StartsEnd
  <2> QED  BY <2>1, <2>2, <1>6
<1>8. \A d \in Talks : Hears(d) => Hears(d)'
  BY <1>5 DEF ServeEmit, handleTypingStart, clearTyping, Hears, TypingInv, TypingTypeOK
<1>9. ShownEnds'
  <2> SUFFICES ASSUME WillShow'
               PROVE  \E d \in Talks : Hears(d)' /\ (typist.timer = d \/ StopFrom(1, d)')
    BY <1>5 DEF ShownEnds
  <2>1. CASE /\ e.do = "start" /\ Hears(c)'
    <3>1. typist.timer = c \/ StopFrom(1, c)
      BY <1>2, <2>1 DEF TypingInv, StartsEnd
    <3>2. StopFrom(1, c) => StopFrom(2, c)
      <4> SUFFICES ASSUME StopFrom(1, c)  PROVE StopFrom(2, c)
        OBVIOUS
      <4>1. PICK j \in DOMAIN u : u[j].do \in {"stop", "send"} /\ u[j].talk = c
        BY DEF StopFrom
      <4>2. j # 1  BY <4>1, <1>2, <2>1
      <4>3. j \in Nat /\ j >= 1  BY <1>1
      <4>4. j >= 2  BY <4>2, <4>3
      <4> QED  BY <4>1, <4>4 DEF StopFrom
    <3>3. StopFrom(2, c) => StopFrom(1, c)'  BY <1>6
    <3> QED  BY <1>3, <2>1, <3>1, <3>2, <3>3
  <2>2. CASE typingLine'.down = typingLine.down /\ (e.do = "start" \/ ~Hears(c))
    <3>1. WillShow  BY <1>5, <2>2 DEF WillShow
    <3>2. PICK d \in Talks : Hears(d) /\ (typist.timer = d \/ StopFrom(1, d))
      BY <3>1 DEF TypingInv, ShownEnds
    <3>3. StopFrom(1, d) => StopFrom(2, d)
      <4> SUFFICES ASSUME StopFrom(1, d)  PROVE StopFrom(2, d)
        OBVIOUS
      <4>1. PICK j \in DOMAIN u : u[j].do \in {"stop", "send"} /\ u[j].talk = d
        BY DEF StopFrom
      <4>2. j # 1
        <5> SUFFICES ASSUME j = 1  PROVE FALSE
          OBVIOUS
        <5>1. d = c /\ e.do # "start"  BY <4>1, <1>2
        <5> QED  BY <5>1, <2>2, <3>2
      <4>3. j >= 2  BY <4>2, <1>4
      <4> QED  BY <4>1, <4>3 DEF StopFrom
    <3>4. StopFrom(2, d) => StopFrom(1, d)'  BY <1>6
    <3> QED  BY <1>8, <3>2, <3>3, <3>4
  <2>3. CASE typingLine'.down = Append(typingLine.down, "user_stopped_typing")
    <3> PICK q, r : q = typingLine.down /\ r = typingLine'.down  OBVIOUS
    <3>1. q \in Seq(TypingEvents) /\ r = Append(q, "user_stopped_typing")
      BY <2>3 DEF TypingInv, TypingTypeOK
    <3>2. r # <<>> /\ r[Len(r)] = "user_stopped_typing"  BY <3>1
    <3> QED  BY <3>2 DEF WillShow
  <2>4. CASE e.do = "start"
    BY <2>4, <1>3, <1>5, <2>1, <2>2 DEF ServeEmit, handleTypingStart, TypingInv, TypingTypeOK,
       Hears, Told
  <2>5. CASE e.do \in {"stop", "send"}
    BY <2>5, <2>3, <2>2 DEF ServeEmit, clearTyping, Told, Hears, TypingInv, TypingTypeOK
  <2> QED  BY <1>3, <2>4, <2>5
<1> QED  BY <1>7, <1>9

\* Every step of the typist, his gateway and the reader keeps the invariant.
LEMMA TypingSteps ==
    ASSUME TypingInv, [TypingNext]_typingVars
    PROVE  TypingInv'
<1>1. CASE UNCHANGED typingVars
  BY <1>1 DEF typingVars, TypingInv, TypingTypeOK, TypingExcused, ShownEnds, StartsEnd, WillShow,
              Hears, StopFrom
<1>2. CASE TypingNext
  <2>1. TypingTypeOK' /\ LogGoesOn
    BY <1>2, TypistTypes, GatewayTypes DEF TypingInv, TypingNext
  <2>2. CASE TypingExcused'
    BY <2>1, <2>2 DEF TypingInv
  <2>3. CASE ~TypingExcused'
    <3>1. ~TypingExcused  BY <2>1, <2>3 DEF LogGoesOn
    <3>2. ASSUME NEW text \in BOOLEAN, TypeKey(text)  PROVE ShownEnds' /\ StartsEnd'
      <4> PICK es : /\ es = IF text /\ ~typist.started
                            THEN <<TypingStart(typist.talk)>> ELSE <<>>
                    /\ Emits(es)
        BY <3>2 DEF TypeKey
      <4>1. TypingStart(typist.talk) \in TypingEmits
        BY DEF TypingStart, TypingEmits, TypingInv, TypingTypeOK
      <4>2. es \in Seq(TypingEmits)
        BY <4>1
      <4>3. Joined(typingLine'.up, typingLine.up, es) /\ typingLine'.down = typingLine.down
        BY DEF Emits, Joined, TypingInv, TypingTypeOK
      <4>4. typist'.timer = typist.talk /\ UNCHANGED <<typingUsers, watcher>>
        BY <3>2 DEF TypeKey, TypingInv, TypingTypeOK
      <4>5. typist.timer = NoTalk \/ typist'.timer = typist.timer
        BY <3>2, <2>3, <4>4 DEF TypeKey, TypingInv, TypingTypeOK, TypingExcused, Elsewhere
      <4>6. \A i \in DOMAIN es : es[i].do = "start" => typist'.timer = es[i].talk
        BY <4>4 DEF TypingStart
      <4> QED  BY <2>1, <3>1, <4>2, <4>3, <4>4, <4>5, <4>6, Emitting
    <3>3. ASSUME TimerStops  PROVE ShownEnds' /\ StartsEnd'
      <4> PICK e : e = TypingStop(typist.timer)  OBVIOUS
      <4>1. e \in TypingEmits /\ e.do = "stop" /\ e.talk = typist.timer
        BY <3>3 DEF TimerStops, TypingStop, TypingEmits, TypingInv, TypingTypeOK
      <4> PICK es : es = <<e>>  OBVIOUS
      <4>2. es \in Seq(TypingEmits) /\ 1 \in DOMAIN es /\ \A i \in DOMAIN es : es[i] = e
        BY <4>1
      <4>3. Joined(typingLine'.up, typingLine.up, es) /\ typingLine'.down = typingLine.down
        BY <3>3 DEF TimerStops, Emits, Joined, TypingInv, TypingTypeOK
      <4>4. UNCHANGED <<typingUsers, watcher>>  BY <3>3 DEF TimerStops
      <4> QED  BY <2>1, <3>1, <4>1, <4>2, <4>3, <4>4, Emitting
    <3>4. ASSUME SendLine  PROVE ShownEnds' /\ StartsEnd'
      <4> PICK d, e : d = [do |-> "send", talk |-> typist.talk] /\ e = TypingStop(typist.talk)
        OBVIOUS
      <4>1. /\ d \in TypingEmits /\ e \in TypingEmits
            /\ d.do = "send" /\ e.do = "stop" /\ e.talk = typist.talk
        BY DEF TypingStop, TypingEmits, TypingInv, TypingTypeOK
      <4> PICK es : es = <<d, e>>  OBVIOUS
      <4>2. /\ es \in Seq(TypingEmits) /\ 2 \in DOMAIN es /\ es[2] = e
            /\ \A i \in DOMAIN es : es[i] \in {d, e}
        BY <4>1
      <4>3. Joined(typingLine'.up, typingLine.up, es) /\ typingLine'.down = typingLine.down
        BY <3>4 DEF SendLine, Emits, Joined, TypingInv, TypingTypeOK
      <4>4. UNCHANGED <<typingUsers, watcher>>  BY <3>4 DEF SendLine
      <4>5. typist.timer = NoTalk \/ typist.timer = e.talk
        BY <3>4, <2>3, <4>1 DEF SendLine, TypingInv, TypingTypeOK, TypingExcused, Elsewhere
      <4>6. \A i \in DOMAIN es : es[i].do # "start"  BY <4>1, <4>2
      <4> QED  BY <2>1, <3>1, <4>1, <4>2, <4>3, <4>4, <4>5, <4>6, Emitting
    <3>5. ASSUME UnmountComposer  PROVE ShownEnds' /\ StartsEnd'
      BY <3>5, <2>3, <3>1, TypingFrame DEF UnmountComposer, TypingExcused, TypingInv, TypingTypeOK,
         WillShow, Hears
    <3>6. ASSUME DropTypist  PROVE ShownEnds' /\ StartsEnd'
      BY <3>6, <2>3, <3>1, TypingFrame DEF DropTypist, TypingExcused, TypingInv, TypingTypeOK,
         Hears, WillShow
    <3>7. ASSUME ConnectTypist  PROVE ShownEnds' /\ StartsEnd'
      BY <3>7, <2>3, <3>1, TypingFrame DEF ConnectTypist, TypingExcused, TypingInv, TypingTypeOK,
         WillShow, Hears
    <3>8. ASSUME NEW c \in Talks, TypistSwitches(c)  PROVE ShownEnds' /\ StartsEnd'
      BY <3>8, <3>1, TypingFrame DEF TypistSwitches, TypingInv, TypingTypeOK, WillShow, Hears
    <3>9. ASSUME DropWatcher  PROVE FALSE
      BY <3>9, <2>3 DEF DropWatcher, TypingExcused, TypingInv, TypingTypeOK
    <3>10. ASSUME ConnectWatcher \/ \E c \in Talks : WatcherSwitches(c) \/ ServeJoining(c)
           PROVE  ShownEnds' /\ StartsEnd'
      <4>1. /\ UNCHANGED <<typist, typingUsers, typingLine>>
            /\ watcher'.shows = watcher.shows /\ (watcher.on => watcher'.on)
            /\ watcher.rooms \subseteq watcher'.rooms
        <5>1. CASE ConnectWatcher
          BY <5>1 DEF ConnectWatcher, TypingInv, TypingTypeOK
        <5>2. ASSUME NEW c \in Talks, WatcherSwitches(c)
              PROVE  /\ UNCHANGED <<typist, typingUsers, typingLine>>
                     /\ watcher'.shows = watcher.shows /\ watcher'.on = watcher.on
                     /\ watcher'.rooms = watcher.rooms
          BY <5>2 DEF WatcherSwitches, TypingInv, TypingTypeOK
        <5>3. ASSUME NEW c \in Talks, ServeJoining(c)
              PROVE  /\ UNCHANGED <<typist, typingUsers, typingLine>>
                     /\ watcher'.shows = watcher.shows /\ watcher'.on = watcher.on
                     /\ watcher'.rooms = watcher.rooms \cup {c}
          BY <5>3 DEF ServeJoining, TypingInv, TypingTypeOK
        <5> QED  BY <3>10, <5>1, <5>2, <5>3
      <4>2. WillShow' => WillShow  BY <4>1 DEF WillShow
      <4>3. \A c \in Talks : Hears(c) => Hears(c)'  BY <4>1 DEF Hears
      <4> QED  BY <3>1, <4>1, <4>2, <4>3, TypingFrame
    <3>11. ShownEnds' /\ StartsEnd'
      BY <1>2, <3>1, <3>2, <3>3, <3>4, <3>5, <3>6, <3>7, <3>8, <3>9, <3>10,
         ArrivingTyping, ServingEmit DEF TypingNext
    <3> QED  BY <2>1, <3>11 DEF TypingInv
  <2> QED  BY <2>2, <2>3
<1> QED  BY <1>1, <1>2

\* Nobody is shown as typing for ever, for any conversations and whatever is typed, sent and
\* selected, but for what the property names (ChatInput, the gateway's sets and useChat).
THEOREM TypingEndsAlways == ScreensSpec => []TypingIsOver
<1> DEFINE Inv == screen = "typing" => TypingInv
<1>1. ScreensInit => Inv
  <2> SUFFICES ASSUME TypingInit  PROVE TypingInv  BY PageInits
  <2>1. TypingTypeOK  BY TalksAssumption DEF TypingInit, TypingTypeOK
  <2>2. ~WillShow /\ DOMAIN typingLine.up = {}  BY DEF TypingInit, WillShow
  <2> QED  BY <2>1, <2>2 DEF TypingInv, ShownEnds, StartsEnd
<1>2. Inv /\ [ScreensNext]_screenVars => Inv'
  BY PageSteps, TypingSteps
<1>3. Inv => TypingIsOver
  <2> SUFFICES ASSUME TypingInv, AllTold, watcher.shows, ~TypingExcused  PROVE FALSE
    BY DEF TypingIsOver, TypingEnds, TypingExcused
  <2>1. WillShow /\ DOMAIN typingLine.up = {}  BY DEF AllTold, WillShow
  <2>2. PICK c \in Talks : typist.timer = c \/ StopFrom(1, c)
    BY <2>1 DEF TypingInv, ShownEnds
  <2> QED  BY <2>1, <2>2, TalksAssumption DEF AllTold, StopFrom
<1> QED  BY <1>1, <1>2, <1>3, PTL DEF ScreensSpec

-----------------------------------------------------------------------------
(* Files of a message or a news *)

\* Sizes of sets of files.
LEMMA Sizes ==
    /\ \A S \in SUBSET Files : Cardinality(S) \in Nat
    /\ \A S, T \in SUBSET Files :
          /\ S \subseteq T => Cardinality(S) <= Cardinality(T)
          /\ Cardinality(S \cup T) <= Cardinality(S) + Cardinality(T)
    /\ \A S \in SUBSET Files, f \in Files : Cardinality(S \cup {f}) <= Cardinality(S) + 1
    /\ Cardinality({}) = 0
<1>1. \A S \in SUBSET Files : IsFiniteSet(S)
  BY FilesAssumption, FS_Subset
<1>2. \A S \in SUBSET Files : Cardinality(S) \in Nat
  BY <1>1, FS_CardinalityType
<1>3. ASSUME NEW S \in SUBSET Files, NEW T \in SUBSET Files, S \subseteq T
      PROVE  Cardinality(S) <= Cardinality(T)
  BY <1>1, <1>3, FS_Subset
<1>4. ASSUME NEW S \in SUBSET Files, NEW T \in SUBSET Files
      PROVE  Cardinality(S \cup T) <= Cardinality(S) + Cardinality(T)
  <2>1. IsFiniteSet(S) /\ IsFiniteSet(T) /\ S \cap T \in SUBSET Files  BY <1>1
  <2>2. Cardinality(S \cup T) = Cardinality(S) + Cardinality(T) - Cardinality(S \cap T)
    BY <2>1, FS_Union
  <2> QED  BY <2>1, <2>2, <1>2
<1>5. ASSUME NEW S \in SUBSET Files, NEW f \in Files
      PROVE  Cardinality(S \cup {f}) <= Cardinality(S) + 1
  BY FS_Singleton, <1>4
<1> QED  BY <1>2, <1>3, <1>4, <1>5, FS_EmptySet

\* A choice of files begins, goes on to its next file, and ends.
LEMMA Choosing ==
    ASSUME FormInv
    PROVE  /\ \A S \in SUBSET Files : ChooseFiles(S) => FormInv'
           /\ \A a \in form.adding : StopAtLimit(a) => FormInv'
           /\ \A a \in form.adding : EndAdding(a) => FormInv'
           /\ \A a \in form.adding : \A f \in a.left : Shrink(a, f) => FormInv'
<1> USE DEF FormInv, FormTypeOK
<1>1. ASSUME NEW S \in SUBSET Files, ChooseFiles(S)  PROVE FormInv'
  <2> PICK a : a = [left |-> S, done |-> {}, had |-> Cardinality(form.tray)]  OBVIOUS
  <2>1. Choice(a) /\ a.left = S /\ a.done = {} /\ a.had = Cardinality(form.tray)
    BY Sizes DEF Choice
  <2>2. /\ DOMAIN form' = DOMAIN form /\ form'.adding = form.adding \cup {a}
        /\ form'.kind = form.kind /\ form'.tray = form.tray /\ form'.kept = form.kept
        /\ form'.shrinking = form.shrinking
        /\ form'.sending = form.sending /\ form'.uploaded = form.uploaded
        /\ UNCHANGED stored
    BY <1>1 DEF ChooseFiles
  <2>3. /\ DOMAIN formLog' = DOMAIN formLog /\ formLog'.chosen = formLog.chosen \cup S
        /\ formLog'.refused = formLog.refused /\ formLog'.overtaken = formLog.overtaken
        /\ formLog'.crossed = (formLog.crossed \/ form.adding # {})
    BY <1>1 DEF ChooseFiles
  <2>4. FormTypeOK'  BY <2>1, <2>2, <2>3
  <2>5. ShrinksApart'  BY <2>2 DEF ShrinksApart
  <2>6. ChosenFilesArrive'  BY <2>1, <2>2, <2>3 DEF ChosenFilesArrive
  <2>7. SendingFits'  BY <2>2 DEF SendingFits
  <2>8. EditorInserts'  BY <2>1, <2>2 DEF EditorInserts, Editor
  <2>9. RoomLeft'
    <3> SUFFICES ASSUME ~formLog.crossed, form.adding = {}  PROVE RoomLeft'
      BY <2>3 DEF RoomLeft
    <3>1. form.shrinking = {}  BY DEF ShrinksApart
    <3> QED
      BY <2>1, <2>2, <3>1, Sizes, FilesAssumption DEF RoomLeft, Editor
  <2> QED  BY <2>4, <2>5, <2>6, <2>7, <2>8, <2>9
<1>2. ASSUME NEW a \in form.adding, StopAtLimit(a)  PROVE FormInv'
  <2> PICK c : c = [a EXCEPT !.left = {}]  OBVIOUS
  <2>1. Choice(c) /\ c.left = {} /\ c.done = a.done /\ c.had = a.had
    BY DEF Choice
  <2>2. /\ DOMAIN form' = DOMAIN form /\ form'.adding = (form.adding \ {a}) \cup {c}
        /\ form'.kind = form.kind /\ form'.tray = form.tray /\ form'.kept = form.kept
        /\ form'.shrinking = form.shrinking
        /\ form'.sending = form.sending /\ form'.uploaded = form.uploaded
        /\ UNCHANGED stored
    BY <1>2 DEF StopAtLimit
  <2>3. /\ DOMAIN formLog' = DOMAIN formLog /\ formLog'.refused = formLog.refused \cup a.left
        /\ formLog'.chosen = formLog.chosen /\ formLog'.overtaken = formLog.overtaken
        /\ formLog'.crossed = formLog.crossed
    BY <1>2 DEF StopAtLimit
  <2>4. FormTypeOK'  BY <2>1, <2>2, <2>3
  <2>5. ShrinksApart'
    BY <1>2, <2>2 DEF ShrinksApart, StopAtLimit
  <2>6. ChosenFilesArrive'  BY <2>1, <2>2, <2>3 DEF ChosenFilesArrive
  <2>7. SendingFits'  BY <2>2 DEF SendingFits
  <2>8. EditorInserts'  BY <2>1, <2>2 DEF EditorInserts, Editor
  <2>9. RoomLeft'  BY <2>1, <2>2, <2>3 DEF RoomLeft, Editor
  <2> QED  BY <2>4, <2>5, <2>6, <2>7, <2>8, <2>9
<1>3. ASSUME NEW a \in form.adding, EndAdding(a)  PROVE FormInv'
  <2>1. Choice(a) /\ a.left = {}  BY <1>3 DEF EndAdding
  <2>2. /\ DOMAIN form' = DOMAIN form /\ form'.adding = form.adding \ {a}
        /\ form'.kind = form.kind /\ form'.tray = form.tray \cup a.done
        /\ form'.kept = form.kept /\ form'.shrinking = form.shrinking
        /\ form'.sending = form.sending /\ form'.uploaded = form.uploaded
        /\ UNCHANGED <<stored, formLog>>
    BY <1>3 DEF EndAdding
  <2>4. FormTypeOK'  BY <2>1, <2>2 DEF Choice
  <2>5. ShrinksApart'  BY <2>1, <2>2 DEF ShrinksApart
  <2>6. ChosenFilesArrive'  BY <2>1, <2>2 DEF ChosenFilesArrive
  <2>7. SendingFits'  BY <2>2 DEF SendingFits
  <2>8. EditorInserts'  BY <2>1, <2>2 DEF EditorInserts, Editor
  <2>9. RoomLeft'
    <3> SUFFICES ASSUME ~formLog.crossed  PROVE RoomLeft'
      BY <2>2 DEF RoomLeft
    <3>1. form'.adding = {}  BY <2>2 DEF RoomLeft
    <3>2. form.shrinking = {}  BY <2>1, <3>1, <2>2 DEF ShrinksApart
    <3>3. CASE Editor
      BY <2>2, <3>3, <3>1, <3>2 DEF EditorInserts, RoomLeft, Editor
    <3>4. CASE ~Editor
      <4>1. Cardinality(form.tray) <= a.had /\ a.had + Cardinality(a.done) <= MaxFiles
        BY <3>4 DEF RoomLeft
      <4>2. Cardinality(form.tray \cup a.done) <= Cardinality(form.tray) + Cardinality(a.done)
        BY <2>1, Sizes DEF Choice
      <4>3. /\ Cardinality(form.tray) \in Nat /\ Cardinality(a.done) \in Nat
            /\ Cardinality(form.tray \cup a.done) \in Nat /\ a.had \in Nat
        BY <2>1, Sizes DEF Choice
      <4>4. Cardinality(form'.tray) <= MaxFiles
        BY <4>1, <4>2, <4>3, <2>2, FilesAssumption
      <4> QED  BY <2>2, <3>1, <3>2, <3>4, <4>4 DEF RoomLeft, Editor
    <3> QED  BY <3>3, <3>4
  <2> QED  BY <2>4, <2>5, <2>6, <2>7, <2>8, <2>9
<1>4. ASSUME NEW a \in form.adding, NEW f \in a.left, Shrink(a, f)  PROVE FormInv'
  <2> PICK b : b = [of |-> a, file |-> f]  OBVIOUS
  <2>1. b.of = a /\ b.file = f  OBVIOUS
  <2>2. /\ DOMAIN form' = DOMAIN form /\ form'.shrinking = form.shrinking \cup {b}
        /\ form'.kind = form.kind /\ form'.tray = form.tray /\ form'.kept = form.kept
        /\ form'.adding = form.adding
        /\ form'.sending = form.sending /\ form'.uploaded = form.uploaded
        /\ UNCHANGED <<stored, formLog>>
    BY <1>4 DEF Shrink
  <2>4. FormTypeOK'  BY <2>2
  <2>5. ShrinksApart'
    BY <1>4, <2>1, <2>2 DEF ShrinksApart, Shrink
  <2>6. ChosenFilesArrive'  BY <2>2 DEF ChosenFilesArrive
  <2>7. SendingFits'  BY <2>2 DEF SendingFits
  <2>8. EditorInserts'  BY <2>2 DEF EditorInserts, Editor
  <2>9. RoomLeft'
    BY <1>4, Sizes, FilesAssumption, <2>1, <2>2 DEF Shrink, Choice, Full, RoomLeft, Editor
  <2> QED  BY <2>4, <2>5, <2>6, <2>7, <2>8, <2>9
<1> QED  BY <1>1, <1>2, <1>3, <1>4

\* A file has been made smaller, and is attached or refused.
LEMMA Shrinking ==
    ASSUME FormInv, NEW b \in form.shrinking, NEW fits \in BOOLEAN, Shrunk(b, fits)
    PROVE  FormInv'
<1> USE DEF FormInv, FormTypeOK
<1> PICK f, a : f = b.file /\ a = b.of  OBVIOUS
<1>1. a \in form.adding /\ f \in a.left /\ Choice(a) /\ f \in Files
  BY DEF ShrinksApart, Choice
<1> PICK c : c = [a EXCEPT !.left = @ \ {f},
                           !.done = IF fits /\ ~Editor THEN @ \cup {f} ELSE @]
  OBVIOUS
<1>2. /\ Choice(c) /\ c.left = a.left \ {f} /\ c.had = a.had
      /\ c.done = IF fits /\ ~Editor THEN a.done \cup {f} ELSE a.done
  BY <1>1 DEF Choice
<1>3. /\ DOMAIN form' = DOMAIN form /\ form'.kind = form.kind
      /\ form'.adding = (form.adding \ {a}) \cup {c}
      /\ form'.shrinking = form.shrinking \ {b}
      /\ form'.tray = IF fits /\ Editor THEN form.tray \cup {f} ELSE form.tray
      /\ form'.kept = IF fits /\ Editor THEN form.kept \cup {f} ELSE form.kept
      /\ form'.sending = form.sending /\ form'.uploaded = form.uploaded
      /\ UNCHANGED stored
  BY DEF Shrunk
<1>4. /\ DOMAIN formLog' = DOMAIN formLog
      /\ formLog'.refused = IF fits THEN formLog.refused ELSE formLog.refused \cup {f}
      /\ formLog'.chosen = formLog.chosen /\ formLog'.overtaken = formLog.overtaken
      /\ formLog'.crossed = formLog.crossed
  BY DEF Shrunk
<1>5. FormTypeOK'
  BY <1>1, <1>2, <1>3, <1>4
<1>6. ShrinksApart'
  BY <1>3 DEF ShrinksApart
<1>7. ChosenFilesArrive'
  <2> SUFFICES ASSUME NEW g \in formLog.chosen
               PROVE  \/ g \in form'.tray \cup (UNION stored.posts)
                      \/ \E d \in form'.adding : g \in d.left \cup d.done
                      \/ g \in formLog'.refused \cup formLog'.overtaken
    BY <1>3, <1>4 DEF ChosenFilesArrive
  <2>1. CASE g = f
    <3>1. fits /\ Editor => f \in form'.tray  BY <1>3
    <3>2. fits /\ ~Editor => c \in form'.adding /\ f \in c.done  BY <1>2, <1>3
    <3>3. ~fits => f \in formLog'.refused  BY <1>4
    <3> QED  BY <2>1, <3>1, <3>2, <3>3
  <2>2. ASSUME g # f, NEW d \in form.adding, g \in d.left \cup d.done
        PROVE  \E x \in form'.adding : g \in x.left \cup x.done
    <3>1. CASE d = a
      <4>1. c \in form'.adding /\ g \in c.left \cup c.done  BY <2>2, <3>1, <1>2, <1>3
      <4> QED  BY <4>1
    <3>2. CASE d # a  BY <2>2, <3>2, <1>3
    <3> QED  BY <3>1, <3>2
  <2>3. CASE g # f /\ ~\E d \in form.adding : g \in d.left \cup d.done
    BY <2>3, <1>3, <1>4 DEF ChosenFilesArrive
  <2> QED  BY <2>1, <2>2, <2>3
<1>8. SendingFits'  BY <1>3 DEF SendingFits
<1>9. EditorInserts'  BY <1>1, <1>2, <1>3 DEF EditorInserts, Editor
<1>10. RoomLeft'
  <2> SUFFICES ASSUME ~formLog.crossed  PROVE RoomLeft'
    BY <1>4 DEF RoomLeft
  <2>1. /\ form'.adding = {c}
        /\ form'.shrinking = {}
    BY <1>1, <1>3 DEF RoomLeft, ShrinksApart
  <2>2. CASE Editor
    <3>1. Cardinality(form.kept) < MaxFiles /\ Cardinality(form.kept) <= MaxFiles
      BY <2>2 DEF RoomLeft
    <3>2. /\ Cardinality(form.kept) \in Nat /\ Cardinality(form'.kept) \in Nat
          /\ Cardinality(form'.tray) \in Nat
          /\ Cardinality(form'.kept) <= Cardinality(form.kept) + 1
      BY <1>1, <1>3, Sizes
    <3>3. Cardinality(form'.kept) <= MaxFiles
      BY <3>1, <3>2, FilesAssumption
    <3>4. Cardinality(form'.tray) <= Cardinality(form'.kept)
      BY <1>1, <1>3, <2>2, Sizes DEF EditorInserts
    <3>5. Cardinality(form'.tray) <= MaxFiles
      BY <3>2, <3>3, <3>4, FilesAssumption
    <3> QED  BY <1>3, <2>1, <2>2, <3>3, <3>5 DEF RoomLeft, Editor
  <2>3. CASE ~Editor
    <3>1. form'.tray = form.tray /\ Cardinality(form.tray) <= a.had
          /\ a.had + Cardinality(a.done) < MaxFiles
      BY <1>1, <1>3, <2>3 DEF RoomLeft
    <3>2. /\ Cardinality(a.done) \in Nat /\ Cardinality(c.done) \in Nat /\ a.had \in Nat
          /\ Cardinality(c.done) <= Cardinality(a.done) + 1
      BY <1>1, <1>2, Sizes DEF Choice
    <3>3. c.had + Cardinality(c.done) <= MaxFiles
      BY <1>2, <3>1, <3>2, FilesAssumption
    <3>4. Cardinality(form.tray) <= MaxFiles  BY DEF RoomLeft
    <3> QED  BY <1>2, <1>3, <2>1, <2>3, <3>1, <3>3, <3>4 DEF RoomLeft, Editor
  <2> QED  BY <2>2, <2>3
<1> QED  BY <1>5, <1>6, <1>7, <1>8, <1>9, <1>10

\* What is attached is removed, sent, stored, posted, or stays after a failure.
LEMMA Sending ==
    ASSUME FormInv
    PROVE  /\ \A f \in Files : RemoveFile(f) => FormInv'
           /\ \A f \in Files : SaveFile(f) => FormInv'
           /\ SendForm => FormInv'
           /\ EndSending => FormInv'
           /\ FailSending => FormInv'
           /\ LosePosted => FormInv'
<1> USE DEF FormInv, FormTypeOK
<1>1. ASSUME NEW f \in Files, RemoveFile(f)  PROVE FormInv'
  <2>1. /\ DOMAIN form' = DOMAIN form /\ form'.tray = form.tray \ {f}
        /\ form'.kind = form.kind /\ form'.kept = form.kept /\ form'.adding = form.adding
        /\ form'.shrinking = form.shrinking
        /\ form'.sending = form.sending /\ form'.uploaded = form.uploaded
        /\ UNCHANGED stored
    BY <1>1 DEF RemoveFile
  <2>2. /\ DOMAIN formLog' = DOMAIN formLog /\ formLog'.refused = formLog.refused \cup {f}
        /\ formLog'.chosen = formLog.chosen /\ formLog'.overtaken = formLog.overtaken
        /\ formLog'.crossed = formLog.crossed
    BY <1>1 DEF RemoveFile
  <2>3. FormTypeOK'  BY <2>1, <2>2
  <2>4. ShrinksApart'  BY <2>1 DEF ShrinksApart
  <2>5. ChosenFilesArrive'  BY <2>1, <2>2 DEF ChosenFilesArrive
  <2>6. SendingFits'  BY <2>1 DEF SendingFits
  <2>7. EditorInserts'  BY <2>1 DEF EditorInserts, Editor
  <2>8. RoomLeft'
    <3>1. /\ Cardinality(form'.tray) \in Nat /\ Cardinality(form.tray) \in Nat
          /\ Cardinality(form'.tray) <= Cardinality(form.tray)
      BY <2>1, Sizes
    <3>2. \A n \in Nat : Cardinality(form.tray) <= n => Cardinality(form'.tray) <= n
      BY <3>1
    <3>3. \A a \in form.adding : a.had \in Nat  BY DEF Choice
    <3> QED  BY <2>1, <2>2, <3>2, <3>3, FilesAssumption DEF RoomLeft, Editor
  <2> QED  BY <2>3, <2>4, <2>5, <2>6, <2>7, <2>8
<1>2. ASSUME NEW f \in Files, SaveFile(f)  PROVE FormInv'
  <2>1. /\ DOMAIN form' = DOMAIN form /\ form'.tray = form.tray
        /\ form'.kind = form.kind /\ form'.kept = form.kept /\ form'.adding = form.adding
        /\ form'.shrinking = form.shrinking
        /\ form'.sending = form.sending /\ form'.uploaded = form.uploaded \cup {f}
        /\ UNCHANGED formLog
    BY <1>2 DEF SaveFile
  <2>2. DOMAIN stored' = DOMAIN stored /\ stored'.files = stored.files \cup {f}
        /\ stored'.posts = stored.posts
    BY <1>2 DEF SaveFile
  <2>3. FormTypeOK'  BY <2>1, <2>2
  <2>4. ShrinksApart'  BY <2>1 DEF ShrinksApart
  <2>5. ChosenFilesArrive'  BY <2>1, <2>2 DEF ChosenFilesArrive
  <2>6. SendingFits'  BY <1>2, <2>1, <2>2 DEF SendingFits, SaveFile
  <2>7. EditorInserts'  BY <2>1 DEF EditorInserts, Editor
  <2>8. RoomLeft'  BY <2>1 DEF RoomLeft, Editor
  <2> QED  BY <2>3, <2>4, <2>5, <2>6, <2>7, <2>8
<1>3. ASSUME SendForm \/ FailSending  PROVE FormInv'
  <2>1. /\ DOMAIN form' = DOMAIN form /\ form'.tray = form.tray
        /\ form'.kind = form.kind /\ form'.kept = form.kept /\ form'.adding = form.adding
        /\ form'.shrinking = form.shrinking
        /\ form'.sending \in {form.tray, {}} /\ form'.uploaded = {}
        /\ UNCHANGED stored
    BY <1>3 DEF SendForm, FailSending
  <2>2. /\ DOMAIN formLog' = DOMAIN formLog /\ formLog'.refused = formLog.refused
        /\ formLog'.chosen = formLog.chosen /\ formLog'.overtaken = formLog.overtaken
        /\ formLog'.crossed = formLog.crossed
    BY <1>3 DEF SendForm, FailSending
  <2>3. FormTypeOK'  BY <2>1, <2>2
  <2>4. ShrinksApart'  BY <2>1 DEF ShrinksApart
  <2>5. ChosenFilesArrive'  BY <2>1, <2>2 DEF ChosenFilesArrive
  <2>6. SendingFits'  BY <2>1 DEF SendingFits
  <2>7. EditorInserts'  BY <2>1 DEF EditorInserts, Editor
  <2>8. RoomLeft'  BY <2>1, <2>2 DEF RoomLeft, Editor
  <2> QED  BY <2>3, <2>4, <2>5, <2>6, <2>7, <2>8
<1>4. ASSUME EndSending  PROVE FormInv'
  <2>1. /\ DOMAIN form' = DOMAIN form /\ form'.tray = {}
        /\ form'.kind = form.kind /\ form'.kept = {} /\ form'.adding = form.adding
        /\ form'.shrinking = form.shrinking
        /\ form'.sending = {} /\ form'.uploaded = {}
    BY <1>4 DEF EndSending
  <2>2. DOMAIN stored' = DOMAIN stored /\ stored'.files = stored.files
        /\ stored'.posts = stored.posts \cup {form.sending}
    BY <1>4 DEF EndSending
  <2>3. /\ DOMAIN formLog' = DOMAIN formLog /\ formLog'.refused = formLog.refused
        /\ formLog'.chosen = formLog.chosen
        /\ formLog'.overtaken = formLog.overtaken \cup (form.tray \ form.sending)
        /\ formLog'.crossed = formLog.crossed
    BY <1>4 DEF EndSending
  <2>4. FormTypeOK'  BY <2>1, <2>2, <2>3
  <2>5. ShrinksApart'  BY <2>1 DEF ShrinksApart
  <2>6. ChosenFilesArrive'  BY <2>1, <2>2, <2>3 DEF ChosenFilesArrive
  <2>7. SendingFits'  BY <1>4, <2>1, <2>2 DEF SendingFits, EndSending
  <2>8. EditorInserts'  BY <2>1 DEF EditorInserts, Editor
  <2>9. RoomLeft'
    BY Sizes, <2>1, <2>3, FilesAssumption DEF Choice, RoomLeft, Editor
  <2> QED  BY <2>4, <2>5, <2>6, <2>7, <2>8, <2>9
<1>5. ASSUME LosePosted  PROVE FormInv'
  <2>1. /\ DOMAIN form' = DOMAIN form /\ form'.tray = form.tray
        /\ form'.kind = form.kind /\ form'.kept = form.kept /\ form'.adding = form.adding
        /\ form'.shrinking = form.shrinking
        /\ form'.sending = {} /\ form'.uploaded = {}
    BY <1>5 DEF LosePosted
  <2>2. DOMAIN stored' = DOMAIN stored /\ stored'.files = stored.files
        /\ stored'.posts = stored.posts \cup {form.sending}
    BY <1>5 DEF LosePosted
  <2>3. /\ DOMAIN formLog' = DOMAIN formLog /\ formLog'.refused = formLog.refused
        /\ formLog'.chosen = formLog.chosen /\ formLog'.overtaken = formLog.overtaken
        /\ formLog'.crossed = formLog.crossed
    BY <1>5 DEF LosePosted
  <2>4. FormTypeOK'  BY <2>1, <2>2, <2>3
  <2>5. ShrinksApart'  BY <2>1 DEF ShrinksApart
  <2>6. ChosenFilesArrive'  BY <2>1, <2>2, <2>3 DEF ChosenFilesArrive
  <2>7. SendingFits'  BY <1>5, <2>1, <2>2 DEF SendingFits, LosePosted
  <2>8. EditorInserts'  BY <2>1 DEF EditorInserts, Editor
  <2>9. RoomLeft'  BY <2>1, <2>3 DEF RoomLeft, Editor
  <2> QED  BY <2>4, <2>5, <2>6, <2>7, <2>8, <2>9
<1> QED  BY <1>1, <1>2, <1>3, <1>4, <1>5

\* Every file chosen reaches the message or the news, and the form stays within the limit,
\* for any finite set of files and however choices, sendings and failures cross
\* (MessageComposer, CreateNewsInlineForm, saveAll).
THEOREM FilesReachPosts == ScreensSpec => []FilesArrive
<1> DEFINE Inv == screen = "form" => FormInv
<1>1. ScreensInit => Inv
  <2> SUFFICES ASSUME FormInit  PROVE FormInv  BY PageInits
  <2>1. Cardinality({}) = 0 /\ 0 <= MaxFiles  BY Sizes, FilesAssumption
  <2> QED
    BY <2>1 DEF FormInit, FormInv, FormTypeOK, ShrinksApart, ChosenFilesArrive, SendingFits,
       EditorInserts, RoomLeft
<1>2. Inv /\ [ScreensNext]_screenVars => Inv'
  <2> SUFFICES ASSUME FormInv, [FormNext]_formVars  PROVE FormInv'
    BY PageSteps
  <2>1. CASE UNCHANGED formVars
    BY <2>1 DEF formVars, FormInv, FormTypeOK, ShrinksApart, ChosenFilesArrive, SendingFits,
                EditorInserts, RoomLeft, Editor
  <2>2. CASE FormNext
    BY <2>2, Choosing, Shrinking, Sending DEF FormNext
  <2> QED  BY <2>1, <2>2
<1>3. Inv => FilesArrive
  <2> SUFFICES ASSUME FormInv  PROVE ChosenFilesArrive /\ FormWithinLimit
    BY DEF FilesArrive
  <2>1. Cardinality(form.tray) \in Nat  BY Sizes DEF FormInv, FormTypeOK
  <2>2. Cardinality(form.tray) > MaxFiles => formLog.crossed
    BY <2>1, FilesAssumption DEF FormInv, RoomLeft
  <2> QED  BY <2>2 DEF FormInv, SendingFits, FormWithinLimit
<1> QED  BY <1>1, <1>2, <1>3, PTL DEF ScreensSpec

-----------------------------------------------------------------------------
(* Who the tab takes the user for *)

\* A step that leaves the tab, the cookies and the checks alone; a login takes a verdict.
Beside ==
    /\ UNCHANGED <<jar, isBanned, tab>>
    /\ DOMAIN sessionLog' = DOMAIN sessionLog
    /\ sessionLog'.changed = sessionLog.changed /\ sessionLog'.failed = sessionLog.failed
    /\ sessionLog'.said = sessionLog.said /\ sessionLog'.again = sessionLog.again
    /\ sessionLog'.welcome \in {sessionLog.welcome, FALSE}
    /\ \A e \in errands' :
          e \in errands \/ (/\ DOMAIN e = {"kind", "path", "current", "got"}
                            /\ e.current \in BOOLEAN /\ ~Checks(e)
                            /\ e.got = "banned" => isBanned)
    /\ \A e \in errands : Checks(e) => e \in errands'

\* Such a step keeps the invariant.
LEMMA BesideSteps ==
    ASSUME SessionInv, Beside
    PROVE  SessionInv'
<1>1. Checking' <=> Checking  BY DEF Beside, Checking, SessionInv, SessionTypeOK
<1>2. \A e \in errands' : Checks(e) => e \in errands  BY DEF Beside
<1>3. SessionTypeOK'  BY DEF Beside, SessionInv, SessionTypeOK
<1>4. OneCheck'  BY <1>1, <1>2 DEF Beside, SessionInv, OneCheck, Checks
<1>5. AnswersRight'  BY <1>2 DEF Beside, SessionInv, AnswersRight, Checks, Verdict
<1>6. ShownRight'  BY <1>1 DEF Beside, SessionInv, ShownRight, Verdict
<1>7. OnTheWayOut'  BY <1>1 DEF Beside, SessionInv, OnTheWayOut
<1>8. OnTheWayIn'
  BY <1>1, <1>2 DEF Beside, SessionInv, SessionTypeOK, OnTheWayIn, Checks
<1> QED  BY <1>3, <1>4, <1>5, <1>6, <1>7, <1>8 DEF Beside, SessionInv

\* Clicks, logins and their answers that change neither cookies nor checks.
LEMMA BesideActions ==
    ASSUME SessionInv
    PROVE  /\ SubmitLogin => SessionInv'
           /\ Logout => SessionInv'
           /\ \A e \in errands : ServeLogin(e) => SessionInv'
           /\ \A e \in errands : ~Checks(e) /\ ServeMe(e) => SessionInv'
<1>1. ASSUME NEW kind \in {"login", "logout"},
             errands' = errands \cup {Errand(kind)}, UNCHANGED <<jar, isBanned, tab>>,
             DOMAIN sessionLog' = DOMAIN sessionLog,
             sessionLog'.changed = sessionLog.changed, sessionLog'.failed = sessionLog.failed,
             sessionLog'.said = sessionLog.said, sessionLog'.again = sessionLog.again,
             sessionLog'.welcome = FALSE
      PROVE  SessionInv'
  <2> PICK x : x = Errand(kind)  OBVIOUS
  <2>1. /\ DOMAIN x = {"kind", "path", "current", "got"} /\ x.current \in BOOLEAN
        /\ x.kind = kind /\ x.got = NoPath
    BY DEF Errand
  <2>2. x.got # "banned" /\ ~Checks(x)  BY <2>1, NoPathAssumption DEF Checks
  <2>3. Beside  BY <1>1, <2>1, <2>2 DEF Beside
  <2> QED  BY <2>3, BesideSteps
<1>2. ASSUME SubmitLogin  PROVE SessionInv'
  BY <1>2, <1>1 DEF SubmitLogin, Pay, SessionInv, SessionTypeOK
<1>3. ASSUME Logout  PROVE SessionInv'
  BY <1>3, <1>1 DEF Logout, Pay, SessionInv, SessionTypeOK
<1>4. ASSUME NEW e \in errands, NEW got, ~Checks(e),
             got = "banned" => isBanned,
             errands' = (errands \ {e}) \cup {[e EXCEPT !.got = got]},
             UNCHANGED <<jar, isBanned, tab, sessionLog>>
      PROVE  SessionInv'
  <2> PICK x : x = [e EXCEPT !.got = got]  OBVIOUS
  <2>1. /\ DOMAIN x = {"kind", "path", "current", "got"} /\ x.current \in BOOLEAN
        /\ x.kind = e.kind /\ x.got = got
    BY DEF SessionInv, SessionTypeOK
  <2>2. ~Checks(x) /\ ~Checks(e)  BY <1>4, <2>1 DEF Checks
  <2>3. Beside  BY <1>4, <2>1, <2>2 DEF Beside, SessionInv, SessionTypeOK
  <2> QED  BY <2>3, BesideSteps
<1>5. ASSUME NEW e \in errands, ServeLogin(e)  PROVE SessionInv'
  <2> PICK got \in IF isBanned THEN {"banned"} ELSE {"user", "nobody"} :
         errands' = (errands \ {e}) \cup {[e EXCEPT !.got = got]}
    BY <1>5 DEF ServeLogin
  <2>1. ~Checks(e)  BY <1>5 DEF ServeLogin, Checks
  <2> QED  BY <1>4, <1>5, <2>1 DEF ServeLogin
<1>6. ASSUME NEW e \in errands, ~Checks(e), ServeMe(e)  PROVE SessionInv'
  BY <1>6, <1>4 DEF ServeMe, Verdict, Checks
<1> QED  BY <1>2, <1>3, <1>5, <1>6

\* The server answers the check that counts: with what is right now.
LEMMA ServingCheck ==
    ASSUME SessionInv, NEW e \in errands, Checks(e), ServeMe(e)
    PROVE  SessionInv'
<1> PICK x : x = [e EXCEPT !.got = Verdict]  OBVIOUS
<1>1. /\ DOMAIN x = {"kind", "path", "current", "got"} /\ x.current \in BOOLEAN
      /\ x.path = e.path /\ x.got = Verdict /\ Checks(x)
  BY DEF SessionInv, SessionTypeOK, Checks
<1>2. errands' = (errands \ {e}) \cup {x} /\ UNCHANGED <<jar, isBanned, tab>>
  BY DEF ServeMe, Verdict
<1>3. /\ DOMAIN sessionLog' = DOMAIN sessionLog /\ ~sessionLog'.changed
      /\ sessionLog'.failed = sessionLog.failed /\ sessionLog'.said = sessionLog.said
      /\ sessionLog'.again = sessionLog.again /\ sessionLog'.welcome = sessionLog.welcome
      /\ sessionLog'.changed \in BOOLEAN
  BY DEF ServeMe, Checks, SessionInv, SessionTypeOK
<1>4. \A f \in errands' : f = x \/ (f \in errands /\ ~Checks(f))
  BY <1>2 DEF SessionInv, OneCheck
<1>5. Checking /\ Checking'  BY <1>1, <1>2 DEF Checking, Checks
<1>6. SessionTypeOK'  BY <1>1, <1>2, <1>3 DEF SessionInv, SessionTypeOK
<1>7. OneCheck'
  BY <1>1, <1>2, <1>4, <1>5 DEF SessionInv, OneCheck, Checks
<1>8. AnswersRight'  BY <1>1, <1>2, <1>4 DEF AnswersRight, Checks, Verdict
<1>9. ShownRight'  BY <1>5 DEF ShownRight
<1>10. OnTheWayOut'  BY <1>2, <1>3, <1>5 DEF SessionInv, OnTheWayOut
<1>11. OnTheWayIn'
  <2> SUFFICES ASSUME sessionLog.welcome  PROVE OnTheWayIn'
    BY <1>3 DEF OnTheWayIn
  <2>1. Verdict = "user"  BY DEF Verdict, SessionInv, OnTheWayIn
  <2> QED
    BY <1>1, <1>2, <1>4, <1>5, <2>1 DEF SessionInv, OnTheWayIn, Checks
<1> QED  BY <1>2, <1>6, <1>7, <1>8, <1>9, <1>10, <1>11 DEF SessionInv

\* The answer of the check that counts arrives, or does not.
LEMMA ArrivingCheck ==
    ASSUME SessionInv, NEW e \in errands, ArriveMe(e) \/ FailMe(e), Checks(e)
    PROVE  SessionInv'
<1>1. /\ errands' = errands \ {e} /\ UNCHANGED isBanned
      /\ DOMAIN jar' = {"token", "flag"} /\ jar'.token = jar.token /\ jar'.flag \in BOOLEAN
  BY DEF ArriveMe, FailMe, Checks, SessionInv, SessionTypeOK
<1>2. /\ DOMAIN tab' = DOMAIN tab /\ tab'.path = tab.path /\ tab'.due = tab.due
      /\ tab'.user \in BOOLEAN /\ tab'.asking = FALSE /\ tab'.checked = e.path
      /\ tab'.going \in {tab.going, "banned"}
      /\ tab'.user => tab'.authed = "yes"
  <2>1. CASE FailMe(e)  BY <2>1 DEF FailMe, SessionInv, SessionTypeOK
  <2>2. CASE ArriveMe(e)
    <3>1. Answer(e, e.got) /\ e.current  BY <2>2 DEF ArriveMe, Checks
    <3>2. /\ DOMAIN tab' = DOMAIN tab /\ tab'.path = tab.path /\ tab'.due = tab.due
          /\ tab'.asking = FALSE /\ tab'.checked = e.path
          /\ tab'.going \in {tab.going, "banned"}
      BY <3>1 DEF Answer, SessionInv, SessionTypeOK
    <3>3. tab'.user = (e.got = "user")
      BY <3>1 DEF Answer, SessionInv, SessionTypeOK
    <3>4. e.got = "user" => tab'.authed = "yes"
      BY <3>1 DEF Answer, SessionInv, SessionTypeOK
    <3> QED  BY <3>2, <3>3, <3>4
  <2> QED  BY <2>1, <2>2
<1>3. /\ DOMAIN sessionLog' = DOMAIN sessionLog /\ sessionLog'.changed = sessionLog.changed
      /\ sessionLog'.failed \in BOOLEAN /\ sessionLog'.welcome \in {sessionLog.welcome, FALSE}
  BY DEF ArriveMe, FailMe, Checks, SessionInv, SessionTypeOK
<1>4. \A f \in errands' : f \in errands /\ ~Checks(f)
  BY <1>1 DEF SessionInv, OneCheck
<1>5. ~Checking'  BY <1>4 DEF Checking, Checks
<1>6. SessionTypeOK'  BY <1>1, <1>2, <1>3 DEF SessionInv, SessionTypeOK
<1>7. OneCheck'
  BY <1>2, <1>4, <1>5 DEF SessionInv, OneCheck, Checks
<1>8. AnswersRight'  BY <1>4 DEF AnswersRight, Checks
<1>9. ShownRight'
  <2>1. CASE FailMe(e)
    BY <2>1 DEF FailMe, SessionInv, SessionTypeOK, ShownRight
  <2>2. CASE ArriveMe(e)
    <3> SUFFICES ASSUME ~sessionLog.changed  PROVE ShownRight'
      BY <1>3 DEF ShownRight
    <3>1. e.got = Verdict
      BY <2>2 DEF ArriveMe, SessionInv, AnswersRight
    <3>2. tab'.user <=> e.got = "user"
      BY <2>2 DEF ArriveMe, Answer, Checks, SessionInv, SessionTypeOK
    <3>3. jar'.flag <=> e.got = "banned"
      BY <2>2 DEF ArriveMe, Checks, SessionInv, SessionTypeOK
    <3> QED  BY <1>1, <3>1, <3>2, <3>3 DEF ShownRight, Verdict
  <2> QED  BY <2>1, <2>2
<1>10. OnTheWayOut'
  <2>1. CASE FailMe(e)
    BY <2>1 DEF FailMe, SessionInv, SessionTypeOK, OnTheWayOut
  <2>2. CASE ArriveMe(e)
    <3>1. /\ sessionLog'.said = e.got /\ (jar'.flag <=> e.got = "banned")
          /\ sessionLog'.again <=> e.got = "banned" /\ tab.sentOut
      BY <2>2 DEF ArriveMe, Checks, SessionInv, SessionTypeOK
    <3>2. e.got = "banned" => e.path \in OpenToBanned \/ tab.sentOut \/ tab'.going = "banned"
      BY <2>2 DEF ArriveMe, Checks, Answer, SessionInv, SessionTypeOK
    <3>3. tab.due \/ e.path = tab.path  BY DEF SessionInv, OneCheck
    <3> QED  BY <1>2, <3>1, <3>2, <3>3, NoPathAssumption DEF OnTheWayOut
  <2> QED  BY <2>1, <2>2
<1>11. OnTheWayIn'
  <2> SUFFICES ASSUME sessionLog'.welcome  PROVE OnTheWayIn'
    BY DEF OnTheWayIn
  <2>1. ~FailMe(e)  BY DEF FailMe, SessionInv, SessionTypeOK
  <2>2. ArriveMe(e)  BY <2>1
  <2>3. sessionLog.welcome  BY <1>3
  <2>4. e.got # "banned"  BY <2>3 DEF SessionInv, OnTheWayIn
  <2>5. tab'.going = tab.going
    BY <2>2, <2>4 DEF ArriveMe, Answer, Checks, SessionInv, SessionTypeOK
  <2>6. ~jar'.flag
    BY <2>2, <2>4 DEF ArriveMe, Checks, SessionInv, SessionTypeOK
  <2>7. tab'.user <=> e.got = "user"
    <3>1. Answer(e, e.got) /\ e.current  BY <2>2 DEF ArriveMe, Checks
    <3> QED  BY <3>1 DEF Answer, SessionInv, SessionTypeOK
  <2>8. e.got # NoPath  BY <2>2 DEF ArriveMe
  <2> QED
    BY <1>1, <1>2, <1>4, <2>3, <2>5, <2>6, <2>7, <2>8 DEF SessionInv, OnTheWayIn, Checks
<1> QED  BY <1>2, <1>6, <1>7, <1>8, <1>9, <1>10, <1>11 DEF SessionInv

\* An errand that is no check ends, and may leave another that is none.
Dropping(e) ==
    /\ e \in errands /\ ~Checks(e)
    /\ \A f \in errands' :
          f \in errands \/ (/\ DOMAIN f = {"kind", "path", "current", "got"}
                            /\ f.current \in BOOLEAN /\ ~Checks(f) /\ f.got = NoPath)
    /\ \A f \in errands : f # e => f \in errands'

\* The checks stay, and so does what OneCheck says of them, when the tab moves on at most.
LEMMA DroppedErrand ==
    ASSUME SessionInv, NEW e, Dropping(e),
           DOMAIN tab' = DOMAIN tab, tab'.path = tab.path, tab'.due = tab.due,
           tab'.user = tab.user, tab'.authed = tab.authed, tab'.asking = tab.asking,
           tab'.checked = tab.checked
    PROVE  /\ Checking' <=> Checking
           /\ \A f \in errands' : Checks(f) => f \in errands
           /\ \A f \in errands' : f.got = "banned" => f \in errands
           /\ \A f \in errands' : DOMAIN f = {"kind", "path", "current", "got"}
                                  /\ f.current \in BOOLEAN
           /\ tab'.due \in BOOLEAN /\ tab'.user \in BOOLEAN /\ tab'.asking \in BOOLEAN
           /\ OneCheck' /\ (tab'.user => tab'.authed = "yes")
BY NoPathAssumption DEF Dropping, Checking, Checks, SessionInv, OneCheck, SessionTypeOK

\* An answer that no longer counts, the login page's own check, and the timer of a login.
LEMMA LateAnswers ==
    ASSUME SessionInv
    PROVE  /\ \A e \in errands : ~Checks(e) /\ ArriveMe(e) => SessionInv'
           /\ \A e \in errands : ArrivePeek(e) => SessionInv'
           /\ \A e \in errands : TimerPushes(e) => SessionInv'
<1>1. ASSUME NEW e \in errands, ~Checks(e), errands' = errands \ {e},
             UNCHANGED <<jar, isBanned>>,
             DOMAIN tab' = DOMAIN tab, tab'.path = tab.path, tab'.due = tab.due,
             tab'.user = tab.user, tab'.authed = tab.authed, tab'.asking = tab.asking,
             tab'.checked = tab.checked, tab'.going \in {tab.going, "dashboard"},
             DOMAIN sessionLog' = DOMAIN sessionLog, sessionLog'.changed = sessionLog.changed,
             sessionLog'.failed = sessionLog.failed, sessionLog'.said = sessionLog.said,
             sessionLog'.again = sessionLog.again, sessionLog'.welcome \in BOOLEAN,
             sessionLog'.welcome => OnTheWayIn'
      PROVE  SessionInv'
  <2>1. Dropping(e)  BY <1>1 DEF Dropping
  <2>2. /\ Checking' <=> Checking
        /\ \A f \in errands' : Checks(f) => f \in errands
        /\ tab'.due \in BOOLEAN /\ tab'.user \in BOOLEAN /\ tab'.asking \in BOOLEAN
        /\ OneCheck' /\ (tab'.user => tab'.authed = "yes")
    BY <1>1, <2>1, DroppedErrand
  <2>3. SessionTypeOK'  BY <1>1, <2>2 DEF SessionInv, SessionTypeOK
  <2>4. AnswersRight'  BY <1>1, <2>2 DEF SessionInv, AnswersRight, Checks, Verdict
  <2>5. ShownRight'  BY <1>1, <2>2 DEF SessionInv, ShownRight, Verdict
  <2>6. OnTheWayOut'
    BY <1>1, <2>2, NoPathAssumption DEF SessionInv, OnTheWayOut
  <2>7. OnTheWayIn'  BY <1>1 DEF OnTheWayIn
  <2> QED  BY <2>2, <2>3, <2>4, <2>5, <2>6, <2>7 DEF SessionInv
<1>2. ASSUME NEW e \in errands, ~Checks(e), ArriveMe(e)  PROVE SessionInv'
  BY <1>2, <1>1 DEF ArriveMe, Answer, Checks, Checking, SessionInv, OnTheWayIn, SessionTypeOK
<1>3. ASSUME NEW e \in errands, ArrivePeek(e)  PROVE SessionInv'
  BY <1>3, <1>1 DEF ArrivePeek, Checks, SessionInv, SessionTypeOK, Checking, OnTheWayIn
<1>4. ASSUME NEW e \in errands, TimerPushes(e)  PROVE SessionInv'
  BY <1>4, <1>1 DEF TimerPushes, Checks, SessionInv, SessionTypeOK, OnTheWayIn
<1> QED  BY <1>2, <1>3, <1>4

\* The cookies and the server's row change: by a login, a logout, or elsewhere.
LEMMA CookiesChange ==
    ASSUME SessionInv
    PROVE  /\ \A e \in errands : ArriveLogin(e) => SessionInv'
           /\ \A e \in errands : EndLogout(e) => SessionInv'
           /\ ChangeElsewhere => SessionInv'
<1>1. ASSUME NEW e \in errands, ArriveLogin(e)  PROVE SessionInv'
  <2> PICK x : x = Errand("timer")  OBVIOUS
  <2>1. /\ DOMAIN x = {"kind", "path", "current", "got"} /\ x.current \in BOOLEAN
        /\ ~Checks(x) /\ x.got = NoPath
    BY DEF Errand, Checks
  <2>2. e.kind = "login" /\ ~Checks(e)  BY <1>1 DEF ArriveLogin, Checks
  <2>3. errands' = errands \ {e} \/ errands' = (errands \ {e}) \cup {x}
    BY <1>1 DEF ArriveLogin
  <2>4. Dropping(e)  BY <2>1, <2>2, <2>3 DEF Dropping
  <2>5. /\ DOMAIN tab' = DOMAIN tab /\ tab'.path = tab.path /\ tab'.due = tab.due
        /\ tab'.user = tab.user /\ tab'.authed = tab.authed /\ tab'.asking = tab.asking
        /\ tab'.checked = tab.checked
    BY <1>1 DEF ArriveLogin, SessionInv, SessionTypeOK
  <2>6. /\ Checking' <=> Checking
        /\ \A f \in errands' : Checks(f) => f \in errands
        /\ \A f \in errands' : f.got = "banned" => f \in errands
        /\ \A f \in errands' : DOMAIN f = {"kind", "path", "current", "got"}
                               /\ f.current \in BOOLEAN
        /\ tab'.due \in BOOLEAN /\ tab'.user \in BOOLEAN /\ tab'.asking \in BOOLEAN
        /\ OneCheck' /\ (tab'.user => tab'.authed = "yes")
    BY <2>4, <2>5, DroppedErrand
  <2>7. /\ DOMAIN jar' = DOMAIN jar /\ jar'.token \in BOOLEAN /\ jar'.flag \in BOOLEAN
        /\ jar.token => jar'.token
        /\ jar.flag => jar'.flag
        /\ UNCHANGED isBanned
        /\ e.got # "banned" => jar'.flag = jar.flag
        /\ tab'.going = tab.going \/ (tab'.going = "banned" /\ e.got = "banned")
    BY <1>1 DEF ArriveLogin, SessionInv, SessionTypeOK
  <2>8. /\ DOMAIN sessionLog' = DOMAIN sessionLog /\ sessionLog'.changed \in BOOLEAN
        /\ sessionLog'.failed = sessionLog.failed /\ sessionLog'.said = sessionLog.said
        /\ sessionLog'.again = sessionLog.again /\ sessionLog'.welcome = sessionLog.welcome
        /\ sessionLog'.changed \/ (UNCHANGED <<jar, tab>> /\ ~sessionLog.changed)
    BY <1>1 DEF ArriveLogin, SessionInv, SessionTypeOK
  <2>9. SessionTypeOK'  BY <2>5, <2>6, <2>7, <2>8 DEF SessionInv, SessionTypeOK
  <2>10. AnswersRight'
    BY <2>6, <2>7, <2>8 DEF SessionInv, AnswersRight, Checks, Verdict
  <2>11. ShownRight'
    BY <2>6, <2>7, <2>8 DEF SessionInv, ShownRight, Verdict
  <2>12. OnTheWayOut'
    BY <2>5, <2>6, <2>7, <2>8, NoPathAssumption DEF SessionInv, OnTheWayOut
  <2>13. OnTheWayIn'
    <3> SUFFICES ASSUME sessionLog.welcome  PROVE OnTheWayIn'
      BY <2>8 DEF OnTheWayIn
    <3>1. e.got # "banned"  BY DEF SessionInv, OnTheWayIn
    <3> QED
      BY <2>5, <2>6, <2>7, <3>1 DEF SessionInv, OnTheWayIn, Checks
  <2> QED  BY <2>6, <2>9, <2>10, <2>11, <2>12, <2>13 DEF SessionInv
<1>2. ASSUME NEW e \in errands, EndLogout(e)  PROVE SessionInv'
  <2>1. errands' = errands \ {e} /\ ~Checks(e)  BY <1>2 DEF EndLogout, Checks
  <2>2. Dropping(e)  BY <2>1 DEF Dropping
  <2>3. /\ DOMAIN tab' = DOMAIN tab /\ tab'.path = tab.path /\ tab'.due = tab.due
        /\ tab'.user = tab.user /\ tab'.authed = tab.authed /\ tab'.asking = tab.asking
        /\ tab'.checked = tab.checked /\ tab'.going = "login"
    BY <1>2 DEF EndLogout, SessionInv, SessionTypeOK
  <2>4. /\ Checking' <=> Checking
        /\ \A f \in errands' : Checks(f) => f \in errands
        /\ tab'.due \in BOOLEAN /\ tab'.user \in BOOLEAN /\ tab'.asking \in BOOLEAN
        /\ OneCheck' /\ (tab'.user => tab'.authed = "yes")
    BY <2>2, <2>3, DroppedErrand
  <2>5. /\ DOMAIN jar' = DOMAIN jar /\ jar'.token \in BOOLEAN /\ jar'.flag = jar.flag
        /\ UNCHANGED isBanned
        /\ DOMAIN sessionLog' = DOMAIN sessionLog /\ sessionLog'.changed \in BOOLEAN
        /\ sessionLog'.failed = sessionLog.failed /\ sessionLog'.said = sessionLog.said
        /\ sessionLog'.again = sessionLog.again /\ sessionLog'.welcome = FALSE
        /\ sessionLog'.changed \/ (sessionLog'.changed = sessionLog.changed /\ jar' = jar)
    BY <1>2 DEF EndLogout, Pay, SessionInv, SessionTypeOK
  <2>6. SessionTypeOK'  BY <2>1, <2>3, <2>4, <2>5 DEF SessionInv, SessionTypeOK
  <2>7. AnswersRight'  BY <2>4, <2>5 DEF SessionInv, AnswersRight, Checks, Verdict
  <2>8. ShownRight'  BY <2>3, <2>4, <2>5 DEF SessionInv, ShownRight, Verdict
  <2>9. OnTheWayOut'
    BY <2>3, <2>4, <2>5, NoPathAssumption DEF SessionInv, OnTheWayOut
  <2>10. OnTheWayIn'  BY <2>5 DEF OnTheWayIn
  <2> QED  BY <2>4, <2>6, <2>7, <2>8, <2>9, <2>10 DEF SessionInv
<1>3. ASSUME ChangeElsewhere  PROVE SessionInv'
  BY <1>3 DEF ChangeElsewhere, SessionInv, SessionTypeOK, OneCheck, Checking, Checks, AnswersRight,
     ShownRight, OnTheWayIn, OnTheWayOut
<1> QED  BY <1>1, <1>2, <1>3

\* The user follows a link, or ProtectedLayout sends him to the login page.
LEMMA Pushing ==
    ASSUME SessionInv
    PROVE  /\ \A p \in Paths : Follow(p) => SessionInv'
           /\ SendToLogin => SessionInv'
<1>1. ASSUME UNCHANGED <<jar, isBanned, errands>>,
             DOMAIN tab' = DOMAIN tab, tab'.path = tab.path, tab'.due = tab.due,
             tab'.user = tab.user, tab'.authed = tab.authed, tab'.asking = tab.asking,
             tab'.checked = tab.checked, tab'.going \in Paths,
             DOMAIN sessionLog' = DOMAIN sessionLog, sessionLog'.changed = sessionLog.changed,
             sessionLog'.failed = sessionLog.failed, sessionLog'.said = sessionLog.said,
             sessionLog'.again = sessionLog.again, sessionLog'.welcome = FALSE
      PROVE  SessionInv'
  <2>1. Checking' <=> Checking  BY <1>1 DEF Checking, Checks
  <2>2. SessionTypeOK'  BY <1>1 DEF SessionInv, SessionTypeOK
  <2>3. OneCheck'  BY <1>1, <2>1 DEF SessionInv, OneCheck, Checks
  <2>4. AnswersRight'  BY <1>1 DEF SessionInv, AnswersRight, Checks, Verdict
  <2>5. ShownRight'  BY <1>1, <2>1 DEF SessionInv, ShownRight, Verdict
  <2>6. tab'.going # NoPath
    BY <1>1, NoPathAssumption DEF Paths, Inside, OpenToBanned
  <2>7. OnTheWayOut'  BY <1>1, <2>6 DEF SessionInv, OnTheWayOut
  <2>8. OnTheWayIn'  BY <1>1 DEF OnTheWayIn
  <2> QED  BY <1>1, <2>2, <2>3, <2>4, <2>5, <2>7, <2>8 DEF SessionInv
<1>2. ASSUME NEW p \in Paths, Follow(p)  PROVE SessionInv'
  BY <1>2, <1>1 DEF Follow, SessionInv, SessionTypeOK, Pay
<1>3. ASSUME SendToLogin  PROVE SessionInv'
  <2>1. /\ UNCHANGED <<jar, isBanned, errands, sessionLog>>
        /\ DOMAIN tab' = DOMAIN tab /\ tab'.path = tab.path /\ tab'.due = tab.due
        /\ tab'.user = tab.user /\ tab'.authed = tab.authed /\ tab'.asking = tab.asking
        /\ tab'.checked = tab.checked /\ tab'.going = "login"
    BY <1>3 DEF SendToLogin, SessionInv, SessionTypeOK
  <2>2. ~sessionLog.welcome
    <3> SUFFICES ASSUME sessionLog.welcome  PROVE FALSE
      OBVIOUS
    <3>1. GuardSends  BY <1>3 DEF SendToLogin
    <3>2. tab.path \in Inside /\ ~Loading /\ tab.authed = "no"  BY <3>1 DEF GuardSends
    <3>3. ~tab.user  BY <3>2 DEF SessionInv
    <3>4. ~tab.asking /\ tab.checked = tab.path  BY <3>2, <3>3 DEF Loading
    <3>5. ~Checking  BY <3>4 DEF Checking, SessionInv, OneCheck
    <3>6. tab.path = "dashboard"  BY <3>2 DEF Inside, SessionInv, OnTheWayIn
    <3> QED
      BY <3>3, <3>4, <3>5, <3>6 DEF SessionInv, SessionTypeOK, OnTheWayIn
  <2>3. sessionLog'.welcome = FALSE  BY <2>1, <2>2 DEF SessionInv, SessionTypeOK
  <2> QED  BY <1>1, <2>1, <2>3 DEF Paths, Inside, OpenToBanned
<1> QED  BY <1>2, <1>3

\* The tab reaches the path pushed last.
LEMMA Arrival ==
    ASSUME SessionInv, Arrive
    PROVE  SessionInv'
<1> PICK p : p = IF jar.flag /\ tab.going \notin OpenToBanned THEN "banned" ELSE tab.going
  OBVIOUS
<1>1. /\ UNCHANGED <<jar, isBanned, errands, sessionLog>>
      /\ DOMAIN tab' = DOMAIN tab /\ tab'.path = p /\ tab'.going = NoPath
      /\ tab'.due \in BOOLEAN /\ (tab'.due <=> p # tab.path)
      /\ tab'.user = tab.user /\ tab'.authed = tab.authed /\ tab'.asking = tab.asking
      /\ tab'.checked = tab.checked
  BY DEF Arrive, SessionInv, SessionTypeOK
<1>2. ~tab.due /\ tab.going # NoPath  BY DEF Arrive
<1>3. Checking' <=> Checking  BY <1>1 DEF Checking, Checks
<1>4. SessionTypeOK'  BY <1>1 DEF SessionInv, SessionTypeOK
<1>5. OneCheck'
  BY <1>1, <1>2, <1>3 DEF SessionInv, OneCheck, Checks
<1>6. AnswersRight'  BY <1>1 DEF SessionInv, AnswersRight, Checks, Verdict
<1>7. ShownRight'  BY <1>1, <1>2, <1>3 DEF SessionInv, ShownRight, Verdict
<1>8. OnTheWayOut'
  BY <1>1, <1>2, <1>3 DEF SessionInv, OnTheWayOut, OpenToBanned
<1>9. OnTheWayIn'
  <2> SUFFICES ASSUME sessionLog.welcome  PROVE OnTheWayIn'
    BY <1>1 DEF OnTheWayIn
  <2>1. /\ jar.token /\ ~isBanned /\ ~jar.flag
        /\ \A e \in errands : e.got # "banned"
        /\ tab.going = "dashboard" /\ p = "dashboard"
    BY <1>2 DEF SessionInv, OnTheWayIn
  <2>2. CASE tab.path = "login"
    BY <1>1, <2>1, <2>2, <1>2 DEF SessionInv, OneCheck, Checking, OnTheWayIn, Checks
  <2>3. CASE tab.path = "dashboard"
    BY <1>1, <2>1, <2>3, <1>2, <1>3 DEF SessionInv, OnTheWayIn, Checks
  <2> QED  BY <2>2, <2>3 DEF SessionInv, OnTheWayIn
<1> QED  BY <1>1, <1>4, <1>5, <1>6, <1>7, <1>8, <1>9 DEF SessionInv

\* The check of the new path begins, and those before it no longer count.
LEMMA Starting ==
    ASSUME SessionInv, StartCheck
    PROVE  SessionInv'
<1> PICK x, y : x = Errand("me") /\ y = Errand("peek")  OBVIOUS
<1> DEFINE Stale(e) == [e EXCEPT !.current = @ /\ e.kind # "me"]
<1>1. /\ DOMAIN x = {"kind", "path", "current", "got"} /\ x.current \in BOOLEAN
      /\ Checks(x) /\ x.path = tab.path /\ x.got = NoPath
      /\ DOMAIN y = {"kind", "path", "current", "got"} /\ y.current \in BOOLEAN
      /\ ~Checks(y) /\ y.got = NoPath
  BY DEF Errand, Checks
<1>2. \A e \in errands :
         /\ DOMAIN Stale(e) = {"kind", "path", "current", "got"} /\ Stale(e).current \in BOOLEAN
         /\ ~Checks(Stale(e)) /\ Stale(e).got = e.got
  BY DEF Checks, SessionInv, SessionTypeOK
<1>3. /\ x \in errands'
      /\ \A f \in errands' : f = x \/ f = y \/ \E e \in errands : f = Stale(e)
  BY DEF StartCheck
<1> HIDE DEF Stale
<1>4. \A f \in errands' :
         /\ DOMAIN f = {"kind", "path", "current", "got"} /\ f.current \in BOOLEAN
         /\ Checks(f) => f = x
         /\ f.got = "banned" => \E e \in errands : e.got = "banned"
  BY <1>1, <1>2, <1>3, NoPathAssumption
<1>5. /\ UNCHANGED <<jar, isBanned, sessionLog>>
      /\ DOMAIN tab' = DOMAIN tab /\ tab'.path = tab.path /\ tab'.going = tab.going
      /\ tab'.due = FALSE /\ tab'.user = tab.user /\ tab'.authed = tab.authed
      /\ tab'.asking = TRUE /\ tab'.checked = tab.checked
  BY DEF StartCheck, SessionInv, SessionTypeOK
<1>6. Checking'  BY <1>1, <1>3 DEF Checking, Checks
<1>7. SessionTypeOK'  BY <1>4, <1>5 DEF SessionInv, SessionTypeOK
<1>8. OneCheck'  BY <1>1, <1>4, <1>5, <1>6 DEF OneCheck, Checks
<1>9. AnswersRight'  BY <1>1, <1>4 DEF AnswersRight, Checks
<1>10. ShownRight'  BY <1>6 DEF ShownRight
<1>11. OnTheWayOut'  BY <1>5, <1>6 DEF SessionInv, OnTheWayOut
<1>12. OnTheWayIn'
  BY <1>1, <1>4, <1>5, <1>6 DEF SessionInv, OnTheWayIn, Checks
<1> QED  BY <1>5, <1>7, <1>8, <1>9, <1>10, <1>11, <1>12 DEF SessionInv

\* Everything but the cookies begins anew.
LEMMA Reloading ==
    ASSUME SessionInv, LoadAgain
    PROVE  SessionInv'
<1>1. /\ UNCHANGED <<jar, isBanned>> /\ errands' = {} /\ DOMAIN tab' = DOMAIN tab
      /\ tab'.due = TRUE /\ tab'.user = FALSE /\ tab'.asking = TRUE
  BY DEF LoadAgain, SessionInv, SessionTypeOK
<1>2. /\ DOMAIN sessionLog' = DOMAIN sessionLog /\ sessionLog'.changed = sessionLog.changed
      /\ sessionLog'.failed = sessionLog.failed /\ sessionLog'.said = sessionLog.said
      /\ sessionLog'.again = sessionLog.again /\ sessionLog'.welcome = FALSE
  BY DEF LoadAgain, Pay, SessionInv, SessionTypeOK
<1>3. SessionTypeOK'  BY <1>1, <1>2 DEF SessionInv, SessionTypeOK
<1>4. OneCheck' /\ AnswersRight' /\ ShownRight' /\ OnTheWayIn'
  BY <1>1, <1>2 DEF OneCheck, AnswersRight, ShownRight, OnTheWayIn
<1>5. OnTheWayOut'  BY <1>1, <1>2 DEF SessionInv, OnTheWayOut
<1> QED  BY <1>1, <1>3, <1>4, <1>5 DEF SessionInv

\* What the client makes of the cookies is right once nothing is under way, for any number
\* of clicks, logins, bans and troubles (AuthProvider, ProtectedLayout, middleware).
THEOREM UserIsKnown == ScreensSpec => []TabKnowsItsUser
<1> DEFINE Inv == screen = "session" => SessionInv
<1>1. ScreensInit => Inv
  <2> SUFFICES ASSUME SessionInit  PROVE SessionInv  BY PageInits
  <2> PICK b : sessionLog = [left |-> b, changed |-> FALSE, failed |-> FALSE,
                             said |-> "nobody", again |-> FALSE, welcome |-> FALSE]
    BY DEF SessionInit
  <2>1. SessionTypeOK
    BY DEF SessionInit, SessionTypeOK
  <2>2. /\ errands = {} /\ tab.due /\ ~tab.user /\ sessionLog.said = "nobody"
        /\ ~sessionLog.welcome
    BY DEF SessionInit
  <2> QED
    BY <2>1, <2>2 DEF SessionInv, OneCheck, AnswersRight, ShownRight, OnTheWayOut, OnTheWayIn
<1>2. Inv /\ [ScreensNext]_screenVars => Inv'
  <2> SUFFICES ASSUME SessionInv, [SessionNext]_sessionVars  PROVE SessionInv'
    BY PageSteps
  <2>1. CASE UNCHANGED sessionVars
    BY <2>1 DEF sessionVars, SessionInv, SessionTypeOK, OneCheck, AnswersRight, ShownRight,
                OnTheWayOut, OnTheWayIn, Checking, Checks, Verdict
  <2>2. CASE SessionNext
    BY <2>2, BesideActions, ServingCheck, ArrivingCheck, LateAnswers, CookiesChange, Pushing,
       Arrival, Starting, Reloading DEF FailMe, Checks, SessionNext
  <2> QED  BY <2>1, <2>2
<1>3. Inv => TabKnowsItsUser
  <2> SUFFICES ASSUME SessionInv, Quiet  PROVE SessionHolds
    BY DEF TabKnowsItsUser, SessionHolds, SessionIsShown, BannedIsKeptOut, LoginEndsInside
  <2>1. ~Checking /\ ~tab.due /\ tab.going = NoPath  BY DEF Quiet, Checking
  <2>2. SessionIsShown
    BY <2>1 DEF SessionIsShown, SessionInv, SessionTypeOK, ShownRight, Verdict
  <2>3. BannedIsKeptOut
    BY <2>1 DEF BannedIsKeptOut, SessionInv, OnTheWayOut
  <2>4. LoginEndsInside
    BY <2>1, NoPathAssumption DEF LoginEndsInside, SessionInv, OnTheWayIn
  <2> QED  BY <2>2, <2>3, <2>4 DEF SessionHolds
<1> QED  BY <1>1, <1>2, <1>3, PTL DEF ScreensSpec

-----------------------------------------------------------------------------
(* The trading page *)

\* Holdings are an answer.
LEMMA HoldingsOf ==
    ASSUME DeskTypeOK, NEW a \in Accounts
    PROVE  Holdings(a) \in AnsweredHoldings /\ Holdings(a).of = a /\ Holdings(a) # Nil
BY TradingPageAssumption DEF DeskTypeOK, Holdings, AnsweredHoldings

\* An order on its way is no null value.
LEMMA OrderIsThere == \A o : OrderSent(o) => o # Nil
BY TradingPageAssumption DEF OrderSent, AnsweredHoldings

\* Loads of accounts: only what is shown, and what is loading, changes.
LEMMA AccountLoads ==
    ASSUME DeskInv,
           \/ \E a \in Accounts : SelectAccount(a)
           \/ \E l \in deskLine.accounts : ServeAccount(l) \/ ArriveAccount(l) \/ FailAccount(l)
    PROVE  DeskInv'
<1> USE DEF DeskInv
<1>1. ASSUME NEW a \in Accounts, SelectAccount(a) PROVE DeskInv'
  <2> DEFINE old == {[l EXCEPT !.active = FALSE] : l \in deskLine.accounts}
             new == [of |-> a, got |-> Nil, active |-> TRUE]
  <2>1. /\ desk' = [desk EXCEPT !.account = a] /\ deskLog' = [deskLog EXCEPT !.left["clicks"] = @ - 1]
        /\ deskLine' = [deskLine EXCEPT !.accounts = old \cup {new}] /\ UNCHANGED book
    BY <1>1 DEF SelectAccount, Spent
  <2>2. \A l \in old : /\ AccountLoad(l) /\ l.active = FALSE /\ l.of \in Accounts
                       /\ l.got # Nil => l.got \in AnsweredHoldings /\ l.got.of = l.of
    BY DEF DeskTypeOK, AccountLoad, LoadsFit
  <2>3. AccountLoad(new) /\ new.got = Nil /\ new.of = a /\ new.active
    BY DEF AccountLoad
  <2> HIDE DEF old, new
  <2>4. deskLine' = [accounts |-> old \cup {new}, histories |-> deskLine.histories, order |-> deskLine.order]
    BY <2>1 DEF DeskTypeOK
  <2>5. /\ desk'.account = a /\ desk'.symbol = desk.symbol /\ desk'.shown = desk.shown /\ desk'.chart = desk.chart
        /\ desk' = [account |-> a, symbol |-> desk.symbol, shown |-> desk.shown,
               chart |-> desk.chart, quantity |-> desk.quantity, said |-> desk.said]
    BY <2>1 DEF DeskTypeOK
  <2>6. deskLog' = [left |-> deskLog'.left, reported |-> deskLog.reported,
                  unsaid |-> deskLog.unsaid, strayed |-> deskLog.strayed,
                  unloaded |-> deskLog.unloaded, chartless |-> deskLog.chartless]
    BY <2>1 DEF DeskTypeOK
  <2>7. DeskTypeOK'
    BY <2>2, <2>3, <2>4, <2>6, <2>1, <2>5 DEF DeskTypeOK
  <2>8. LoadsFit' /\ AccountComes' /\ ChartComes'
    BY <2>2, <2>3, <2>4, <2>5, <2>6 DEF LoadsFit, AccountComes, ChartComes
  <2>9. OrdersAreTold'
    BY <2>1, <2>4, <2>6 DEF OrdersAreTold, ExecutedHere, UnderWay
  <2> QED  BY <2>7, <2>8, <2>9
<1>2. ASSUME NEW l \in deskLine.accounts, ServeAccount(l) PROVE DeskInv'
  <2> DEFINE served == [of |-> l.of, got |-> Holdings(l.of), active |-> l.active]
             others == deskLine.accounts \ {l}
  <2>1. AccountLoad(l) /\ l.of \in Accounts /\ (l.active => l.of = desk.account)
    BY DEF DeskTypeOK, LoadsFit
  <2>2. [l EXCEPT !.got = Holdings(l.of)] = served
    BY <2>1 DEF AccountLoad
  <2>3. UNCHANGED <<book, desk, deskLog>>
    BY <1>2 DEF ServeAccount
  <2>4. deskLine' = [accounts |-> others \cup {served}, histories |-> deskLine.histories,
                     order |-> deskLine.order]
    BY <1>2, <2>2 DEF ServeAccount, DeskTypeOK
  <2>5. /\ AccountLoad(served) /\ served.of = l.of /\ served.active = l.active
        /\ served.got \in AnsweredHoldings /\ served.got.of = l.of
    BY <2>1, HoldingsOf DEF AccountLoad
  <2> HIDE DEF served
  <2>6. DeskTypeOK'
    BY <2>3, <2>4, <2>5 DEF DeskTypeOK
  <2>7. LoadsFit'
    BY <2>1, <2>3, <2>4, <2>5 DEF LoadsFit
  <2>8. AccountComes'
    BY <2>3, <2>4, <2>5 DEF AccountComes
  <2>9. ChartComes' /\ OrdersAreTold'
    BY <2>3, <2>4 DEF ChartComes, OrdersAreTold, ExecutedHere, UnderWay
  <2> QED  BY <2>6, <2>7, <2>8, <2>9
<1>3. ASSUME NEW l \in deskLine.accounts, ArriveAccount(l) PROVE DeskInv'
  <2>1. AccountLoad(l) /\ l.of \in Accounts /\ (l.active => l.of = desk.account)
        /\ l.got \in AnsweredHoldings /\ l.got.of = l.of /\ l.got # Nil
    BY <1>3 DEF ArriveAccount, DeskTypeOK, LoadsFit
  <2>2. deskLine' = [accounts |-> deskLine.accounts \ {l}, histories |-> deskLine.histories,
                     order |-> deskLine.order] /\ UNCHANGED book
    BY <1>3 DEF ArriveAccount, DeskTypeOK
  <2>3. desk' = [account |-> desk.account, symbol |-> desk.symbol,
                 shown |-> IF l.active THEN l.got ELSE desk.shown,
                 chart |-> desk.chart, quantity |-> desk.quantity, said |-> desk.said]
    BY <1>3 DEF ArriveAccount, DeskTypeOK
  <2>4. deskLog' = [left |-> deskLog.left, reported |-> deskLog.reported, unsaid |-> deskLog.unsaid,
                    strayed |-> IF l.active THEN FALSE ELSE deskLog.strayed,
                    unloaded |-> IF l.active THEN FALSE ELSE deskLog.unloaded,
                    chartless |-> deskLog.chartless]
    BY <1>3 DEF ArriveAccount, DeskTypeOK
  <2>5. DeskTypeOK'
    BY <2>2, <2>3, <2>4 DEF DeskTypeOK
  <2>6. LoadsFit' /\ ChartComes' /\ OrdersAreTold'
    BY <2>2, <2>3, <2>4 DEF LoadsFit, ChartComes, OrdersAreTold, ExecutedHere, UnderWay
  <2>7. AccountComes'
    BY <2>1, <2>2, <2>3, <2>4 DEF AccountComes
  <2> QED  BY <2>5, <2>6, <2>7
<1>4. ASSUME NEW l \in deskLine.accounts, FailAccount(l) PROVE DeskInv'
  <2> DEFINE left == [deskLog.left EXCEPT !["troubles"] = @ - 1]
  <2> DEFINE un == deskLog.unloaded \/ l.active
  <2>1. AccountLoad(l)
    BY DEF DeskTypeOK
  <2>2. deskLine' = [accounts |-> deskLine.accounts \ {l}, histories |-> deskLine.histories,
                     order |-> deskLine.order] /\ UNCHANGED book
    BY <1>4 DEF FailAccount, DeskTypeOK
  <2>3. desk' = [account |-> desk.account, symbol |-> desk.symbol, shown |-> desk.shown,
                 chart |-> desk.chart, quantity |-> desk.quantity, said |-> desk'.said]
    BY <1>4 DEF FailAccount, DeskTypeOK
  <2>4. deskLog' = [left |-> left, reported |-> deskLog.reported, unsaid |-> deskLog.unsaid,
                    strayed |-> deskLog.strayed, unloaded |-> un,
                    chartless |-> deskLog.chartless]
    BY <1>4 DEF FailAccount, DeskTypeOK
  <2> HIDE DEF left
  <2>5. un \in BOOLEAN /\ (deskLog.unloaded => un) /\ (l.active => un)
    OBVIOUS
  <2> HIDE DEF un
  <2>6. DeskTypeOK'
    BY <2>2, <2>3, <2>4, <2>5 DEF DeskTypeOK
  <2>7. LoadsFit' /\ ChartComes' /\ OrdersAreTold'
    BY <2>2, <2>3, <2>4 DEF LoadsFit, ChartComes, OrdersAreTold, ExecutedHere, UnderWay
  <2>8. AccountComes'
    BY <2>2, <2>3, <2>4, <2>5 DEF AccountComes
  <2> QED  BY <2>6, <2>7, <2>8
<1> QED  BY <1>1, <1>2, <1>3, <1>4

\* Loads of histories, and of the selection of an asset.
LEMMA HistoryLoads ==
    ASSUME DeskInv,
           \/ \E s \in Symbols : SelectSymbol(s)
           \/ \E h \in deskLine.histories : ServeHistory(h) \/ ArriveHistory(h) \/ FailHistory(h)
           \/ ReloadHistory
    PROVE  DeskInv'
<1> USE DEF DeskInv
<1>1. ASSUME NEW s \in Symbols, SelectSymbol(s) PROVE DeskInv'
  <2> DEFINE left == [deskLog.left EXCEPT !["clicks"] = @ - 1]
  <2> DEFINE old == {[h EXCEPT !.active = FALSE] : h \in deskLine.histories}
             new == [of |-> s, got |-> Nil, active |-> TRUE, timer |-> FALSE]
  <2>1. \A h \in old : /\ HistoryLoad(h) /\ h.active = FALSE /\ (h.got # Nil => h.got = h.of)
    BY DEF DeskTypeOK, HistoryLoad, LoadsFit
  <2>2. HistoryLoad(new) /\ new.got = Nil /\ new.of = s /\ new.active /\ ~new.timer
    BY DEF HistoryLoad
  <2>3. deskLine' = [accounts |-> deskLine.accounts, histories |-> old \cup {new},
                     order |-> deskLine.order] /\ UNCHANGED book
    BY <1>1 DEF SelectSymbol, DeskTypeOK
  <2> HIDE DEF old, new
  <2>4. desk' = [account |-> desk.account, symbol |-> s, shown |-> desk.shown,
                 chart |-> desk.chart, quantity |-> Nil, said |-> ""]
    BY <1>1 DEF SelectSymbol, DeskTypeOK
  <2>5. deskLog' = [left |-> left, reported |-> deskLog.reported, unsaid |-> deskLog.unsaid,
                    strayed |-> deskLog.strayed, unloaded |-> deskLog.unloaded,
                    chartless |-> deskLog.chartless]
    BY <1>1 DEF SelectSymbol, Spent, DeskTypeOK
  <2> HIDE DEF left
  <2>6. DeskTypeOK'
    BY <2>1, <2>2, <2>3, <2>4, <2>5 DEF DeskTypeOK
  <2>7. LoadsFit'
    BY <2>1, <2>2, <2>3, <2>4 DEF LoadsFit
  <2>8. AccountComes' /\ ChartComes' /\ OrdersAreTold'
    BY <2>2, <2>3, <2>4, <2>5 DEF AccountComes, ChartComes, OrdersAreTold, ExecutedHere, UnderWay
  <2> QED  BY <2>6, <2>7, <2>8
<1>2. ASSUME NEW h \in deskLine.histories, ServeHistory(h) PROVE DeskInv'
  <2> DEFINE served == [of |-> h.of, got |-> h.of, active |-> h.active, timer |-> h.timer]
  <2>1. HistoryLoad(h) /\ (h.active => h.of = desk.symbol)
    BY DEF DeskTypeOK, LoadsFit
  <2>2. [h EXCEPT !.got = h.of] = served
    BY <2>1 DEF HistoryLoad
  <2>3. UNCHANGED <<book, desk, deskLog>>
    BY <1>2 DEF ServeHistory
  <2>4. deskLine' = [accounts |-> deskLine.accounts, histories |-> (deskLine.histories \ {h}) \cup {served},
                     order |-> deskLine.order]
    BY <1>2, <2>2 DEF ServeHistory, DeskTypeOK
  <2>5. HistoryLoad(served) /\ served.of = h.of /\ served.active = h.active
        /\ served.timer = h.timer /\ served.got = served.of
    BY DEF HistoryLoad
  <2> HIDE DEF served
  <2>6. DeskTypeOK'
    BY <2>3, <2>4, <2>5 DEF DeskTypeOK
  <2>7. LoadsFit'
    BY <2>1, <2>3, <2>4, <2>5 DEF LoadsFit
  <2>8. AccountComes' /\ ChartComes'
    BY <2>3, <2>4, <2>5 DEF AccountComes, ChartComes
  <2>9. OrdersAreTold'
    BY <2>3, <2>4 DEF OrdersAreTold, ExecutedHere, UnderWay
  <2> QED  BY <2>6, <2>7, <2>8, <2>9
<1>3. ASSUME NEW h \in deskLine.histories, ArriveHistory(h) PROVE DeskInv'
  BY <1>3 DEF ArriveHistory, DeskTypeOK, LoadsFit, AccountComes, OrdersAreTold, ExecutedHere,
     UnderWay, ChartComes
<1>4. ASSUME NEW h \in deskLine.histories, FailHistory(h) PROVE DeskInv'
  <2> DEFINE left == [deskLog.left EXCEPT !["troubles"] = @ - 1]
  <2> DEFINE none == deskLog.chartless \/ ~h.timer
  <2>1. HistoryLoad(h)
    BY DEF DeskTypeOK
  <2>2. deskLine' = [accounts |-> deskLine.accounts, histories |-> deskLine.histories \ {h},
                     order |-> deskLine.order] /\ UNCHANGED book
    BY <1>4 DEF FailHistory, DeskTypeOK
  <2>3. desk' = [account |-> desk.account, symbol |-> desk.symbol, shown |-> desk.shown,
                 chart |-> desk.chart, quantity |-> desk.quantity, said |-> desk'.said]
    BY <1>4 DEF FailHistory, DeskTypeOK
  <2>4. deskLog' = [left |-> left, reported |-> deskLog.reported, unsaid |-> deskLog.unsaid,
                    strayed |-> deskLog.strayed, unloaded |-> deskLog.unloaded,
                    chartless |-> none]
    BY <1>4 DEF FailHistory, DeskTypeOK
  <2> HIDE DEF left
  <2>5. none \in BOOLEAN /\ (deskLog.chartless => none) /\ (~h.timer => none)
    OBVIOUS
  <2> HIDE DEF none
  <2>6. DeskTypeOK'
    BY <2>2, <2>3, <2>4, <2>5 DEF DeskTypeOK
  <2>7. LoadsFit' /\ AccountComes' /\ OrdersAreTold'
    BY <2>2, <2>3, <2>4 DEF LoadsFit, AccountComes, OrdersAreTold, ExecutedHere, UnderWay
  <2>8. ChartComes'
    BY <2>2, <2>3, <2>4, <2>5 DEF ChartComes
  <2> QED  BY <2>6, <2>7, <2>8
<1>5. ASSUME ReloadHistory PROVE DeskInv'
  <2> DEFINE left == [deskLog.left EXCEPT !["reloads"] = @ - 1]
  <2> DEFINE new == [of |-> desk.symbol, got |-> Nil, active |-> TRUE, timer |-> TRUE]
  <2>1. HistoryLoad(new) /\ new.got = Nil /\ new.of = desk.symbol
    BY DEF HistoryLoad
  <2>2. deskLine' = [accounts |-> deskLine.accounts, histories |-> deskLine.histories \cup {new},
                     order |-> deskLine.order] /\ UNCHANGED <<book, desk>>
    BY <1>5 DEF ReloadHistory, DeskTypeOK
  <2> HIDE DEF new
  <2>3. deskLog' = [left |-> left, reported |-> deskLog.reported, unsaid |-> deskLog.unsaid,
                    strayed |-> deskLog.strayed, unloaded |-> deskLog.unloaded,
                    chartless |-> deskLog.chartless]
    BY <1>5 DEF ReloadHistory, Spent, DeskTypeOK
  <2> HIDE DEF left
  <2>4. DeskTypeOK'
    BY <2>1, <2>2, <2>3 DEF DeskTypeOK
  <2>5. LoadsFit' /\ AccountComes' /\ ChartComes' /\ OrdersAreTold'
    BY <2>1, <2>2, <2>3 DEF LoadsFit, AccountComes, ChartComes, OrdersAreTold, ExecutedHere, UnderWay
  <2> QED  BY <2>4, <2>5
<1> QED  BY <1>1, <1>2, <1>3, <1>4, <1>5

\* The order form: an execution is one more, and is told or counted as unsaid when it ends.
LEMMA OrderForm ==
    ASSUME DeskInv,
           TypeQuantity \/ SubmitOrder \/ ExecuteOrder \/ ServeRefresh \/ EndOrder \/ FailOrder
    PROVE  DeskInv'
<1> USE DEF DeskInv
<1> DEFINE o == deskLine.order
<1>1. CASE TypeQuantity
  BY <1>1 DEF TypeQuantity, DeskTypeOK, LoadsFit, AccountComes, ChartComes, OrdersAreTold,
     ExecutedHere, UnderWay
<1>2. CASE SubmitOrder
  <2> DEFINE left == [deskLog.left EXCEPT !["orders"] = @ - 1]
  <2> DEFINE new == [account |-> desk.account, symbol |-> desk.symbol, stage |-> "sent", got |-> Nil]
  <2>1. OrderSent(new) /\ new.stage = "sent"
    BY DEF OrderSent, DeskTypeOK
  <2>2. deskLine' = [accounts |-> deskLine.accounts, histories |-> deskLine.histories, order |-> new]
        /\ UNCHANGED book /\ o = Nil
    BY <1>2 DEF SubmitOrder, DeskTypeOK
  <2> HIDE DEF new
  <2>3. desk' = [account |-> desk.account, symbol |-> desk.symbol, shown |-> desk.shown,
                 chart |-> desk.chart, quantity |-> desk.quantity, said |-> ""]
    BY <1>2 DEF SubmitOrder, DeskTypeOK
  <2>4. deskLog' = [left |-> left, reported |-> deskLog.reported, unsaid |-> deskLog.unsaid,
                    strayed |-> deskLog.strayed, unloaded |-> deskLog.unloaded,
                    chartless |-> deskLog.chartless]
    BY <1>2 DEF SubmitOrder, Spent, DeskTypeOK
  <2> HIDE DEF left
  <2>5. DeskTypeOK'
    BY <2>1, <2>2, <2>3, <2>4 DEF DeskTypeOK
  <2>6. LoadsFit' /\ AccountComes' /\ ChartComes'
    BY <2>2, <2>3, <2>4 DEF LoadsFit, AccountComes, ChartComes
  <2>7. UnderWay = 0 /\ UnderWay' = 0
    BY <2>1, <2>2 DEF UnderWay
  <2>8. OrdersAreTold'
    BY <2>2, <2>4, <2>7 DEF OrdersAreTold, ExecutedHere
  <2> QED  BY <2>5, <2>6, <2>8
<1>3. CASE ExecuteOrder
  <2> DEFINE new == [o EXCEPT !.stage = "executed"]
  <2>1. o # Nil /\ o.stage = "sent" /\ OrderSent(o)
    BY <1>3 DEF ExecuteOrder, DeskTypeOK
  <2>2. OrderSent(new) /\ new.stage = "executed" /\ new # Nil /\ o.account \in Accounts
    BY <2>1, OrderIsThere DEF OrderSent
  <2>3. deskLine' = [accounts |-> deskLine.accounts, histories |-> deskLine.histories, order |-> new]
        /\ UNCHANGED <<desk, deskLog>> /\ book' = [book EXCEPT ![o.account] = @ + 1]
    BY <1>3 DEF ExecuteOrder, DeskTypeOK
  <2> HIDE DEF new
  <2>4. book' \in [Accounts -> Nat] /\ book'[o.account] = book[o.account] + 1
        /\ \A a \in Accounts : a # o.account => book'[a] = book[a]
    BY <2>2, <2>3 DEF DeskTypeOK
  <2>5. DeskTypeOK'
    BY <2>2, <2>3, <2>4 DEF DeskTypeOK
  <2>6. LoadsFit' /\ AccountComes' /\ ChartComes'
    BY <2>3 DEF LoadsFit, AccountComes, ChartComes
  <2>7. UnderWay = 0 /\ UnderWay' = 1
    BY <2>1, <2>2, <2>3 DEF UnderWay
  <2>8. ExecutedHere' = ExecutedHere + 1
    BY <2>4, <2>2, TradingPageAssumption, SumAfterChange DEF DeskTypeOK, ExecutedHere
  <2>9. OrdersAreTold'
    BY <2>3, <2>7, <2>8 DEF OrdersAreTold, DeskTypeOK
  <2> QED  BY <2>5, <2>6, <2>9
<1>4. CASE ServeRefresh
  <2> DEFINE new == [o EXCEPT !.stage = "refreshing", !.got = Holdings(o.account)]
  <2>1. o # Nil /\ o.stage = "executed" /\ OrderSent(o)
    BY <1>4 DEF ServeRefresh, DeskTypeOK
  <2>2. o.account \in Accounts
    BY <2>1 DEF OrderSent
  <2>3. OrderSent(new) /\ new.stage = "refreshing" /\ new # Nil
    BY <2>2, HoldingsOf, <2>1, OrderIsThere DEF OrderSent
  <2>4. deskLine' = [accounts |-> deskLine.accounts, histories |-> deskLine.histories, order |-> new]
        /\ UNCHANGED <<book, desk, deskLog>>
    BY <1>4 DEF ServeRefresh, DeskTypeOK
  <2> HIDE DEF new
  <2>5. DeskTypeOK'
    BY <2>3, <2>4 DEF DeskTypeOK
  <2>6. LoadsFit' /\ AccountComes' /\ ChartComes'
    BY <2>4 DEF LoadsFit, AccountComes, ChartComes
  <2>7. UnderWay = 1 /\ UnderWay' = 1
    BY <2>1, <2>3, <2>4 DEF UnderWay
  <2>8. OrdersAreTold'
    BY <2>4, <2>7 DEF OrdersAreTold, ExecutedHere
  <2> QED  BY <2>5, <2>6, <2>8
<1>5. CASE EndOrder
  <2>1. o # Nil /\ o.stage = "refreshing" /\ OrderSent(o)
    BY <1>5 DEF EndOrder, DeskTypeOK
  <2>2. o.got \in AnsweredHoldings /\ o.got.of = o.account /\ o.got # Nil
    BY <2>1, TradingPageAssumption DEF OrderSent, AnsweredHoldings
  <2>3. deskLine' = [accounts |-> deskLine.accounts, histories |-> deskLine.histories, order |-> Nil]
        /\ UNCHANGED book
    BY <1>5 DEF EndOrder, DeskTypeOK
  <2>4. desk' = [account |-> desk.account, symbol |-> desk.symbol, shown |-> o.got,
                 chart |-> desk.chart, quantity |-> Nil, said |-> "success"]
    BY <1>5 DEF EndOrder, DeskTypeOK
  <2>5. deskLog' = [left |-> deskLog.left, reported |-> deskLog.reported + 1, unsaid |-> deskLog.unsaid,
                    strayed |-> o.account # desk.account, unloaded |-> deskLog.unloaded,
                    chartless |-> deskLog.chartless]
    BY <1>5 DEF EndOrder, DeskTypeOK
  <2>6. DeskTypeOK'
    BY <2>3, <2>4, <2>5 DEF DeskTypeOK
  <2>7. LoadsFit' /\ ChartComes'
    BY <2>3, <2>4, <2>5 DEF LoadsFit, ChartComes
  <2>8. AccountComes'
    BY <2>2, <2>4, <2>5 DEF AccountComes
  <2>9. UnderWay = 1 /\ UnderWay' = 0
    BY <2>1, <2>3 DEF UnderWay
  <2>10. OrdersAreTold'
    BY <2>3, <2>5, <2>9 DEF OrdersAreTold, ExecutedHere, DeskTypeOK
  <2> QED  BY <2>6, <2>7, <2>8, <2>10
<1>6. CASE FailOrder
  <2> DEFINE left == [deskLog.left EXCEPT !["troubles"] = @ - 1]
  <2> DEFINE more == IF o.stage = "sent" THEN deskLog.unsaid ELSE deskLog.unsaid + 1
  <2>1. o # Nil
    BY <1>6 DEF FailOrder
  <2>2. deskLine' = [accounts |-> deskLine.accounts, histories |-> deskLine.histories, order |-> Nil]
        /\ UNCHANGED book
    BY <1>6 DEF FailOrder, DeskTypeOK
  <2>3. desk' = [account |-> desk.account, symbol |-> desk.symbol, shown |-> desk.shown,
                 chart |-> desk.chart, quantity |-> desk.quantity, said |-> "error"]
    BY <1>6 DEF FailOrder, DeskTypeOK
  <2>4. deskLog' = [left |-> left, reported |-> deskLog.reported, unsaid |-> more,
                    strayed |-> deskLog.strayed, unloaded |-> deskLog.unloaded,
                    chartless |-> deskLog.chartless]
    BY <1>6 DEF FailOrder, DeskTypeOK
  <2> HIDE DEF left
  <2>5. more \in Nat /\ more = deskLog.unsaid + UnderWay
    BY <2>1 DEF DeskTypeOK, UnderWay
  <2> HIDE DEF more
  <2>6. DeskTypeOK'
    BY <2>2, <2>3, <2>4, <2>5 DEF DeskTypeOK
  <2>7. LoadsFit' /\ AccountComes' /\ ChartComes'
    BY <2>2, <2>3, <2>4 DEF LoadsFit, AccountComes, ChartComes
  <2>8. UnderWay' = 0 /\ UnderWay \in {0, 1}
    BY <2>2 DEF UnderWay
  <2>9. OrdersAreTold'
    BY <2>2, <2>4, <2>5, <2>8 DEF OrdersAreTold, ExecutedHere, DeskTypeOK
  <2> QED  BY <2>6, <2>7, <2>9
<1> QED  BY <1>1, <1>2, <1>3, <1>4, <1>5, <1>6

\* The page as it opens.
LEMMA DeskOpens == DeskInit => DeskInv
<1> SUFFICES ASSUME DeskInit PROVE DeskInv
    OBVIOUS
<1> DEFINE a == CHOOSE x \in Accounts : TRUE
           s == CHOOSE x \in Symbols : TRUE
<1>1. a \in Accounts /\ s \in Symbols
    BY TradingPageAssumption
<1> HIDE DEF a, s
<1>2. PICK b \in DeskBounds :
         /\ book = [x \in Accounts |-> 0]
         /\ desk = [account |-> a, symbol |-> s, shown |-> Nil, chart |-> Nil,
                    quantity |-> Nil, said |-> ""]
         /\ deskLine = [accounts |-> {[of |-> a, got |-> Nil, active |-> TRUE]},
                        histories |-> {[of |-> s, got |-> Nil, active |-> TRUE, timer |-> FALSE]},
                        order |-> Nil]
         /\ deskLog = [left |-> b, reported |-> 0, unsaid |-> 0, strayed |-> FALSE,
                       unloaded |-> FALSE, chartless |-> FALSE]
    BY DEF DeskInit, a, s
<1> DEFINE la == [of |-> a, got |-> Nil, active |-> TRUE]
           lh == [of |-> s, got |-> Nil, active |-> TRUE, timer |-> FALSE]
<1>3. /\ AccountLoad(la) /\ la.of = a /\ la.got = Nil /\ la.active
      /\ HistoryLoad(lh) /\ lh.of = s /\ lh.got = Nil /\ lh.active /\ ~lh.timer
    BY DEF AccountLoad, HistoryLoad
<1>4. deskLine = [accounts |-> {la}, histories |-> {lh}, order |-> Nil]
    BY <1>2
<1> HIDE DEF la, lh
<1>5. /\ deskLog = [left |-> deskLog.left, reported |-> deskLog.reported,
                     unsaid |-> deskLog.unsaid, strayed |-> deskLog.strayed,
                     unloaded |-> deskLog.unloaded, chartless |-> deskLog.chartless]
      /\ deskLog.reported = 0 /\ deskLog.unsaid = 0
      /\ deskLog.strayed = FALSE /\ deskLog.unloaded = FALSE /\ deskLog.chartless = FALSE
    BY <1>2
<1>6. /\ desk = [account |-> a, symbol |-> s, shown |-> Nil, chart |-> Nil,
                 quantity |-> Nil, said |-> ""]
      /\ book \in [Accounts -> Nat] /\ \A x \in Accounts : book[x] = 0
    BY <1>2
<1>7. DeskTypeOK
    BY <1>1, <1>3, <1>4, <1>5, <1>6 DEF DeskTypeOK
<1>8. LoadsFit /\ AccountComes /\ ChartComes
    BY <1>1, <1>3, <1>4, <1>6 DEF LoadsFit, AccountComes, ChartComes
<1>9. OrdersAreTold
  <2>1. ExecutedHere = 0
    BY <1>6, TradingPageAssumption, SumOfZeros DEF ExecutedHere
  <2> QED  BY <1>4, <1>5, <2>1 DEF OrdersAreTold, UnderWay
<1> QED  BY <1>7, <1>8, <1>9 DEF DeskInv

\* Every step of the trading page, of its requests and of the server keeps the invariant.
LEMMA DeskSteps ==
    ASSUME DeskInv, [DeskNext]_deskVars
    PROVE  DeskInv'
BY AccountLoads, HistoryLoads, OrderForm DEF DeskNext, deskVars, DeskInv, DeskTypeOK, LoadsFit,
   AccountComes, ChartComes, OrdersAreTold, ExecutedHere, UnderWay

\* What the invariant says once nothing is under way.
LEMMA DeskPromises == DeskInv => OrdersAreTold /\ DeskShowsSelection
BY DEF DeskInv, AccountComes, ChartComes, DeskShowsSelection

-----------------------------------------------------------------------------
(* The transfer page *)

\* Calls that change in their marks only.
SameCall(c, d) ==
    /\ CallRecord(d)
    /\ d.kind = c.kind /\ d.iban = c.iban /\ d.label = c.label /\ d.stage = c.stage /\ d.got = c.got
    /\ c.old => d.old
Reflects(S, T) ==
    /\ \A d \in T : \E c \in S : SameCall(c, d)
    /\ \A c \in S : \E d \in T : SameCall(c, d)
    /\ OneTransfer(S) => OneTransfer(T)

Shutting(cs) == {[c EXCEPT !.shut = @ \/ c.kind \in {"add", "edit", "delete"}] : c \in cs}

\* What was served before a change becomes old, what a closing box asked for is shut.
LEMMA MarksOnly ==
    ASSUME NEW S, \A c \in S : CallRecord(c)
    PROVE  /\ Reflects(S, S) /\ Reflects(S, Overtaken(S)) /\ Reflects(S, Shutting(S))
           /\ \A d \in Overtaken(S) : d.stage = "served" => d.old
           /\ \A d \in Shutting(S) : \E c \in S : SameCall(c, d) /\ d.old = c.old
<1> DEFINE O(c) == [c EXCEPT !.old = @ \/ c.stage = "served"]
           H(c) == [c EXCEPT !.shut = @ \/ c.kind \in {"add", "edit", "delete"}]
<1>1. Reflects(S, S)
  BY DEF Reflects, SameCall
<1>2. ASSUME NEW c \in S
      PROVE  SameCall(c, O(c)) /\ (O(c).stage = "served" => O(c).old)
  <2> DEFINE o == c.old \/ c.stage = "served"
  <2>1. CallRecord(c) /\ o \in BOOLEAN /\ (c.old => o) /\ (c.stage = "served" => o)
    OBVIOUS
  <2>2. [c EXCEPT !.old = @ \/ c.stage = "served"]
            = [kind |-> c.kind, iban |-> c.iban, label |-> c.label, stage |-> c.stage,
               got |-> c.got, shut |-> c.shut, old |-> o]
    BY <2>1 DEF CallRecord
  <2> HIDE DEF o
  <2> QED  BY <2>1, <2>2 DEF CallRecord, SameCall
<1>3. Reflects(S, Overtaken(S)) /\ \A d \in Overtaken(S) : d.stage = "served" => d.old
  <2>1. Overtaken(S) = {O(c) : c \in S}
    BY DEF Overtaken
  <2> HIDE DEF O
  <2> QED  BY <1>2, <2>1 DEF Reflects, OneTransfer, SameCall
<1>4. ASSUME NEW c \in S
      PROVE  SameCall(c, H(c)) /\ H(c).old = c.old
  <2> DEFINE o == c.shut \/ c.kind \in {"add", "edit", "delete"}
  <2>1. CallRecord(c) /\ o \in BOOLEAN /\ (c.kind = "transfer" => ~o)
    BY DEF CallRecord
  <2>2. [c EXCEPT !.shut = @ \/ c.kind \in {"add", "edit", "delete"}]
            = [kind |-> c.kind, iban |-> c.iban, label |-> c.label, stage |-> c.stage,
               got |-> c.got, shut |-> o, old |-> c.old]
    BY <2>1 DEF CallRecord
  <2> HIDE DEF o
  <2> QED  BY <2>1, <2>2 DEF CallRecord, SameCall
<1>5. Reflects(S, Shutting(S)) /\ \A d \in Shutting(S) : \E c \in S : SameCall(c, d) /\ d.old = c.old
  <2>1. Shutting(S) = {H(c) : c \in S}
    BY DEF Shutting
  <2> HIDE DEF H
  <2> QED  BY <1>4, <2>1 DEF Reflects, OneTransfer, SameCall
<1> QED  BY <1>1, <1>3, <1>5

\* The number of transfers that wait for their answer to be told.
LEMMA TransfersCounted ==
    ASSUME OneTransfer(calls)
    PROVE  Cardinality({c \in calls : c.kind = "transfer" /\ c.stage = "served"})
              = IF ServedTransfer(calls) THEN 1 ELSE 0
<1> DEFINE S == {c \in calls : c.kind = "transfer" /\ c.stage = "served"}
<1>1. CASE ServedTransfer(calls)
  <2>1. PICK c \in calls : c.kind = "transfer" /\ c.stage = "served"
    BY <1>1 DEF ServedTransfer
  <2>2. S = {c}
    BY <2>1 DEF OneTransfer
  <2> QED  BY <1>1, <2>2, FS_Singleton
<1>2. CASE ~ServedTransfer(calls)
  BY <1>2, FS_EmptySet DEF ServedTransfer
<1> QED  BY <1>1, <1>2

\* What calls with other marks have in common with the ones they were.
LEMMA ReflectedFacts ==
    ASSUME NEW S, NEW T, Reflects(S, T)
    PROVE  /\ \A d \in T : CallRecord(d)
           /\ ServedTransfer(T) <=> ServedTransfer(S)
           /\ ListComes(T) <=> ListComes(S)
           /\ \A i, list : (\E c \in S : Mends(c, i, list)) => \E d \in T : Mends(d, i, list)
<1>1. \A d \in T : CallRecord(d)
  BY DEF Reflects, SameCall
<1>2. ServedTransfer(T) <=> ServedTransfer(S)
  BY DEF Reflects, SameCall, ServedTransfer
<1>3. ListComes(T) <=> ListComes(S)
  BY DEF Reflects, SameCall, ListComes
<1>4. ASSUME NEW i, NEW list, NEW c \in S, Mends(c, i, list) PROVE \E d \in T : Mends(d, i, list)
  <2>1. PICK d \in T : SameCall(c, d)
    BY DEF Reflects
  <2> QED  BY <1>4, <2>1 DEF SameCall, Mends
<1> QED  BY <1>1, <1>2, <1>3, <1>4

\* The server answers a call, or finds the row for it; what was served before a change is old.
LEMMA Serving2 ==
    ASSUME TransferPageInv, NEW c \in calls, c.stage \in {"sent", "found"},
           NEW T, Reflects(calls \ {c}, T),
           beneficiaries' = beneficiaries \/ \A d \in T : d.stage = "served" => d.old,
           NEW d, CallRecord(d), calls' = T \cup {d},
           d.kind = c.kind, d.iban = c.iban, d.label = c.label,
           d.stage = "served" =>
               /\ d.kind = "list" => d.got = beneficiaries'
               /\ d.kind \in {"add", "edit", "delete"} => beneficiaries'[d.iban] = d.label,
           beneficiaries' \in [Ibans -> RowLabels],
           NEW again \in BOOLEAN,
           \A i \in Ibans : beneficiaries'[i] # beneficiaries[i] =>
               /\ i = c.iban /\ d.stage = "served" /\ c.kind \in {"add", "edit", "delete"}
               /\ again \/ c.kind = "add" \/ beneficiaries[i] # NoIban,
           transferred' = transferred + (IF c.kind = "transfer" /\ d.stage = "served" THEN 1 ELSE 0),
           pageLog' = [pageLog EXCEPT !.revived = @ \/ again],
           UNCHANGED <<panel, transferForm>>
    PROVE  TransferPageInv'
<1> USE DEF TransferPageInv
<1> DEFINE S == calls \ {c}
           revived == pageLog.revived \/ again
<1>1. CallRecord(d) /\ calls' = T \cup {d} /\ CallRecord(c)
  BY DEF TransferTypeOK
<1>2. /\ revived \in BOOLEAN /\ (pageLog.revived => revived) /\ (again => revived)
      /\ pageLog' = [left |-> pageLog.left, chosen |-> pageLog.chosen, surprised |-> pageLog.surprised,
                  crossed |-> pageLog.crossed, unheard |-> pageLog.unheard,
                  revived |-> revived, told |-> pageLog.told, untold |-> pageLog.untold]
  BY DEF TransferTypeOK
<1>3. Reflects(S, T)
  OBVIOUS
<1> HIDE DEF S, revived
<1>4. TransferTypeOK'
  BY <1>1, <1>3, ReflectedFacts, <1>2 DEF TransferTypeOK
<1>5. OneTransfer(calls')
  <2>1. OneTransfer(S) /\ OneTransfer(T)
    BY <1>3 DEF OneTransfer, Reflects, S
  <2>2. c.kind = "transfer" => \A e \in T : e.kind # "transfer"
    <3> SUFFICES ASSUME c.kind = "transfer", NEW e \in T, e.kind = "transfer" PROVE FALSE
      OBVIOUS
    <3>1. PICK f \in S : SameCall(f, e)
      BY <1>3 DEF Reflects
    <3> QED  BY <3>1 DEF SameCall, S, OneTransfer
  <2> QED  BY <1>1, <2>1, <2>2 DEF OneTransfer
<1>6. TransferCount'
  BY <1>3, ReflectedFacts, <1>1, <1>2 DEF ServedTransfer, S, OneTransfer, TransferCount,
     TransferTypeOK
<1>7. NewsIsCurrent(calls', beneficiaries')
  <2>1. ASSUME NEW e \in T, e.stage = "served", ~e.old
        PROVE  /\ e.kind = "list" => e.got = beneficiaries'
               /\ e.kind \in {"add", "edit", "delete"} => beneficiaries'[e.iban] = e.label
    <3>1. beneficiaries' = beneficiaries
      BY <2>1
    <3>2. PICK f \in S : SameCall(f, e)
      BY <1>3 DEF Reflects
    <3>3. f \in calls /\ f.stage = "served" /\ ~f.old /\ f.kind = e.kind /\ f.got = e.got
          /\ f.iban = e.iban /\ f.label = e.label
      BY <2>1, <3>2 DEF SameCall, S
    <3> QED  BY <3>1, <3>3 DEF NewsIsCurrent
  <2> QED  BY <1>1, <2>1 DEF NewsIsCurrent
<1>8. PanelComes'
  <2> SUFFICES ASSUME ~pageLog.crossed, ~pageLog.unheard, ~revived, ~ListComes(calls'),
                      NEW i \in Ibans, panel.list[i] # beneficiaries'[i]
               PROVE  \E e \in calls' : Mends(e, i, panel.list)
    BY <1>2 DEF PanelComes
  <2>1. ~ListComes(calls)
    BY <1>1, <1>3, ReflectedFacts DEF ListComes, S
  <2>2. panel.list[i] = beneficiaries[i] \/ \E e \in calls : Mends(e, i, panel.list)
    BY <1>2, <2>1 DEF PanelComes
  <2>3. CASE \E e \in calls : Mends(e, i, panel.list)
    BY <2>3, <1>3, ReflectedFacts, <1>1 DEF Mends, S
  <2>4. CASE panel.list[i] = beneficiaries[i]
    BY <2>4, <1>1, <1>2 DEF Mends
  <2> QED  BY <2>2, <2>3, <2>4
<1>9. DestinationIsChosen'
  BY <1>2 DEF DestinationIsChosen, TransferTypeOK
<1> QED  BY <1>4, <1>5, <1>6, <1>7, <1>8, <1>9

\* A call with the answer it got.
LEMMA CallAnswered ==
    ASSUME NEW c, CallRecord(c), NEW stage, NEW got
    PROVE  [c EXCEPT !.stage = stage, !.got = got]
              = [kind |-> c.kind, iban |-> c.iban, label |-> c.label,
                 stage |-> stage, got |-> got, shut |-> c.shut, old |-> c.old]
<1> DEFINE r == [kind |-> c.kind, iban |-> c.iban, label |-> c.label, stage |-> c.stage,
                 got |-> c.got, shut |-> c.shut, old |-> c.old]
<1>1. c = r
  BY DEF CallRecord
<1>2. [r EXCEPT !.stage = stage, !.got = got]
         = [kind |-> c.kind, iban |-> c.iban, label |-> c.label,
            stage |-> stage, got |-> got, shut |-> c.shut, old |-> c.old]
  <2> DEFINE q == [r EXCEPT !.stage = stage]
             p == [kind |-> c.kind, iban |-> c.iban, label |-> c.label, stage |-> stage,
                   got |-> c.got, shut |-> c.shut, old |-> c.old]
  <2>1. q = p
    OBVIOUS
  <2>2. [r EXCEPT !.stage = stage, !.got = got] = [q EXCEPT !.got = got]
    OBVIOUS
  <2>3. [p EXCEPT !.got = got] = [kind |-> c.kind, iban |-> c.iban, label |-> c.label,
            stage |-> stage, got |-> got, shut |-> c.shut, old |-> c.old]
    OBVIOUS
  <2> HIDE DEF q, p, r
  <2> QED  BY <2>1, <2>2, <2>3
<1> HIDE DEF r
<1> QED  BY <1>1, <1>2

\* The calls left when one is answered, as they are then.
LEMMA ServeForm ==
    ASSUME TransferPageInv, NEW c \in calls, NEW stage, NEW got, Serve(c, stage, got)
    PROVE  /\ c.stage = "sent" /\ CallRecord(c) /\ UNCHANGED <<panel, transferForm>>
           /\ pageLog' = [pageLog EXCEPT !.revived = @ \/ FALSE]
           /\ \E T : /\ Reflects(calls \ {c}, T)
                     /\ beneficiaries' = beneficiaries \/ \A d \in T : d.stage = "served" => d.old
                     /\ calls' = T \cup {[kind |-> c.kind, iban |-> c.iban, label |-> c.label,
                           stage |-> stage, got |-> got, shut |-> c.shut, old |-> c.old]}
<1>1. CallRecord(c) /\ \A d \in calls \ {c} : CallRecord(d)
  BY DEF TransferPageInv, TransferTypeOK
<1>2. [c EXCEPT !.stage = stage, !.got = got]
         = [kind |-> c.kind, iban |-> c.iban, label |-> c.label,
            stage |-> stage, got |-> got, shut |-> c.shut, old |-> c.old]
  BY <1>1, CallAnswered
<1>3. /\ c.stage = "sent" /\ UNCHANGED <<panel, transferForm, pageLog>>
      /\ calls' = (IF beneficiaries' = beneficiaries THEN calls \ {c} ELSE Overtaken(calls \ {c}))
                  \cup {[c EXCEPT !.stage = stage, !.got = got]}
  BY DEF Serve
<1>4. pageLog' = [pageLog EXCEPT !.revived = @ \/ FALSE]
  BY <1>3 DEF TransferPageInv, TransferTypeOK
<1> DEFINE T == IF beneficiaries' = beneficiaries THEN calls \ {c} ELSE Overtaken(calls \ {c})
<1>5. Reflects(calls \ {c}, T)
      /\ (beneficiaries' = beneficiaries \/ \A d \in T : d.stage = "served" => d.old)
  BY <1>1, MarksOnly
<1>6. calls' = T \cup {[kind |-> c.kind, iban |-> c.iban, label |-> c.label,
                       stage |-> stage, got |-> got, shut |-> c.shut, old |-> c.old]}
  BY <1>2, <1>3
<1> QED  BY <1>1, <1>3, <1>4, <1>5, <1>6

\* Every answer of the server keeps the invariant.
LEMMA ServedCalls ==
    ASSUME TransferPageInv, NEW c \in calls, ServeCall(c)
    PROVE  TransferPageInv'
<1> USE DEF TransferPageInv
<1>1. CallRecord(c) /\ beneficiaries \in [Ibans -> RowLabels] /\ transferred \in Nat
  BY DEF TransferTypeOK
<1>2. NoIban \in RowLabels /\ Labels \subseteq RowLabels /\ NoIban \notin Labels
  BY TransferPageAssumption DEF RowLabels
<1> DEFINE ReplyTo(stage, got) ==
              [kind |-> c.kind, iban |-> c.iban, label |-> c.label, stage |-> stage,
               got |-> got, shut |-> c.shut, old |-> c.old]
<1>3. \A stage, got : /\ ReplyTo(stage, got).kind = c.kind /\ ReplyTo(stage, got).iban = c.iban
                      /\ ReplyTo(stage, got).label = c.label /\ ReplyTo(stage, got).stage = stage
                      /\ ReplyTo(stage, got).got = got
  OBVIOUS
<1>4. \A got : \A stage \in {"found", "served", "refused"} :
          /\ stage = "found" => c.kind = "edit"
          /\ stage = "refused" => c.kind # "list"
          /\ stage = "served" /\ c.kind = "list" => got \in [Ibans -> RowLabels]
          => CallRecord(ReplyTo(stage, got))
  BY <1>1 DEF CallRecord
<1> HIDE DEF ReplyTo
<1>5. ASSUME NEW stage \in {"found", "served", "refused"}, NEW got, Serve(c, stage, got),
             stage = "found" => c.kind = "edit", stage = "refused" => c.kind # "list",
             stage = "served" =>
                /\ c.kind = "list" => got = beneficiaries'
                /\ c.kind \in {"add", "edit", "delete"} => beneficiaries'[c.iban] = c.label,
             beneficiaries' \in [Ibans -> RowLabels],
             \A i \in Ibans : beneficiaries'[i] # beneficiaries[i] =>
                /\ i = c.iban /\ stage = "served" /\ c.kind \in {"add", "edit", "delete"}
                /\ c.kind = "add" \/ beneficiaries[i] # NoIban,
             transferred' = transferred + (IF c.kind = "transfer" /\ stage = "served" THEN 1 ELSE 0)
      PROVE  TransferPageInv'
  <2>1. PICK T : /\ Reflects(calls \ {c}, T)
                 /\ beneficiaries' = beneficiaries \/ \A d \in T : d.stage = "served" => d.old
                 /\ calls' = T \cup {ReplyTo(stage, got)}
    BY <1>5, ServeForm DEF ReplyTo
  <2>2. c.stage = "sent" /\ UNCHANGED <<panel, transferForm>>
        /\ pageLog' = [pageLog EXCEPT !.revived = @ \/ FALSE]
    BY <1>5, ServeForm
  <2>3. CallRecord(ReplyTo(stage, got))
    BY <1>4, <1>5
  <2> DEFINE d == ReplyTo(stage, got)
  <2>4. /\ CallRecord(d) /\ calls' = T \cup {d}
        /\ d.kind = c.kind /\ d.iban = c.iban /\ d.label = c.label
        /\ d.stage = "served" =>
               /\ d.kind = "list" => d.got = beneficiaries'
               /\ d.kind \in {"add", "edit", "delete"} => beneficiaries'[d.iban] = d.label
        /\ \A i \in Ibans : beneficiaries'[i] # beneficiaries[i] =>
               /\ i = c.iban /\ d.stage = "served" /\ c.kind \in {"add", "edit", "delete"}
               /\ FALSE \/ c.kind = "add" \/ beneficiaries[i] # NoIban
        /\ transferred' = transferred + (IF c.kind = "transfer" /\ d.stage = "served" THEN 1 ELSE 0)
    BY <1>3, <1>5, <2>1, <2>3
  <2> HIDE DEF d
  <2> QED  BY <1>5, <2>1, <2>2, <2>4, Serving2
<1>6. CASE ServeBeneficiaries(c)
  BY <1>1, <1>5, <1>6 DEF ServeBeneficiaries
<1>7. CASE ServeCreate(c)
  <2>1. c.kind = "add" /\ c.iban \in Ibans /\ c.label \in Labels
    BY <1>1, <1>7 DEF ServeCreate, CallRecord
  <2>2. /\ beneficiaries' \in [Ibans -> RowLabels] /\ beneficiaries'[c.iban] = c.label
        /\ \A i \in Ibans : i # c.iban => beneficiaries'[i] = beneficiaries[i]
    BY <1>1, <1>2, <1>7, <2>1 DEF ServeCreate
  <2>3. Serve(c, "served", NoIban) /\ transferred' = transferred + 0
        /\ (c.kind = "add" \/ beneficiaries[c.iban] # NoIban)
    BY <1>1, <1>7 DEF ServeCreate
  <2>4. \A i \in Ibans : beneficiaries'[i] # beneficiaries[i] =>
                /\ i = c.iban /\ "served" = "served" /\ c.kind \in {"add", "edit", "delete"}
                /\ c.kind = "add" \/ beneficiaries[i] # NoIban
    BY <2>1, <2>2, <2>3
  <2> QED  BY <1>5, <2>1, <2>2, <2>3, <2>4
<1>8. CASE FindBeneficiary(c)
  BY <1>1, <1>5, <1>8 DEF FindBeneficiary
<1>9. CASE SaveLabel(c)
  <2> DEFINE T == Overtaken(calls \ {c})
             again == beneficiaries[c.iban] = NoIban
  <2>1. c.kind = "edit" /\ c.stage = "found" /\ c.iban \in Ibans /\ c.label \in Labels
    BY <1>1, <1>9 DEF SaveLabel, CallRecord
  <2>2. \A d \in calls \ {c} : CallRecord(d)
    BY DEF TransferTypeOK
  <2>3. Reflects(calls \ {c}, T) /\ \A d \in T : d.stage = "served" => d.old
    BY <2>2, MarksOnly
  <2>4. [c EXCEPT !.stage = "served"] = ReplyTo("served", c.got)
    BY <1>1 DEF CallRecord, ReplyTo
  <2>5. calls' = T \cup {ReplyTo("served", c.got)} /\ UNCHANGED <<transferred, panel, transferForm>>
        /\ pageLog' = [pageLog EXCEPT !.revived = @ \/ again]
    BY <1>9, <2>4 DEF SaveLabel
  <2>6. /\ beneficiaries' \in [Ibans -> RowLabels] /\ beneficiaries'[c.iban] = c.label
        /\ \A i \in Ibans : i # c.iban => beneficiaries'[i] = beneficiaries[i]
    BY <1>1, <1>2, <1>9, <2>1 DEF SaveLabel
  <2>7. CallRecord(ReplyTo("served", c.got))
    BY <1>4, <2>1
  <2>8. transferred' = transferred + 0 /\ again \in BOOLEAN
    BY <1>1, <2>5
  <2> HIDE DEF T
  <2>9. \A i \in Ibans : beneficiaries'[i] # beneficiaries[i] =>
               /\ i = c.iban /\ ReplyTo("served", c.got).stage = "served" /\ c.kind \in {"add", "edit", "delete"}
               /\ again \/ c.kind = "add" \/ beneficiaries[i] # NoIban
    BY <1>3, <2>1, <2>6
  <2> HIDE DEF again
  <2> DEFINE d == ReplyTo("served", c.got)
  <2>10. /\ d.kind = c.kind /\ d.iban = c.iban /\ d.label = c.label /\ d.stage = "served"
         /\ transferred' = transferred + (IF c.kind = "transfer" /\ d.stage = "served" THEN 1 ELSE 0)
    BY <1>3, <2>1, <2>8
  <2>11. /\ CallRecord(d) /\ calls' = T \cup {d} /\ (again \/ ~again)
         /\ \A i \in Ibans : beneficiaries'[i] # beneficiaries[i] =>
               /\ i = c.iban /\ d.stage = "served" /\ c.kind \in {"add", "edit", "delete"}
               /\ again \/ c.kind = "add" \/ beneficiaries[i] # NoIban
    BY <2>5, <2>7, <2>9
  <2>12. UNCHANGED <<panel, transferForm>> /\ pageLog' = [pageLog EXCEPT !.revived = @ \/ again]
    BY <2>5
  <2> HIDE DEF d
  <2> QED  BY <2>1, <2>3, <2>6, <2>8, <2>10, <2>11, <2>12, Serving2
<1>10. CASE ServeDelete(c)
  <2>1. c.kind = "delete" /\ c.iban \in Ibans /\ c.label = NoIban
    BY <1>1, <1>10 DEF ServeDelete, CallRecord
  <2>2. /\ beneficiaries' \in [Ibans -> RowLabels] /\ beneficiaries'[c.iban] = c.label
        /\ \A i \in Ibans : i # c.iban => beneficiaries'[i] = beneficiaries[i]
    BY <1>1, <1>2, <1>10, <2>1 DEF ServeDelete
  <2>3. Serve(c, "served", NoIban) /\ transferred' = transferred + 0
        /\ (c.kind = "add" \/ beneficiaries[c.iban] # NoIban)
    BY <1>1, <1>10 DEF ServeDelete
  <2>4. \A i \in Ibans : beneficiaries'[i] # beneficiaries[i] =>
                /\ i = c.iban /\ "served" = "served" /\ c.kind \in {"add", "edit", "delete"}
                /\ c.kind = "add" \/ beneficiaries[i] # NoIban
    BY <2>1, <2>2, <2>3
  <2> QED  BY <1>5, <2>1, <2>2, <2>3, <2>4
<1>11. CASE ServeRefusal(c)
  BY <1>1, <1>5, <1>11 DEF ServeRefusal
<1>12. CASE ServeTransfer(c)
  BY <1>1, <1>5, <1>12 DEF ServeTransfer
<1> QED  BY <1>6, <1>7, <1>8, <1>9, <1>10, <1>11, <1>12 DEF ServeCall

\* The calls left when the page takes an answer.
LEMMA OneFewer ==
    ASSUME TransferPageInv, NEW c \in calls, NEW T, Reflects(calls \ {c}, T),
           \A d \in T : \E e \in calls \ {c} : SameCall(e, d) /\ d.old = e.old
    PROVE  /\ \A d \in T : CallRecord(d)
           /\ OneTransfer(T) /\ NewsIsCurrent(T, beneficiaries)
           /\ ServedTransfer(T) <=> ServedTransfer(calls) /\ ~(c.kind = "transfer" /\ c.stage = "served")
           /\ ~ListComes(T) => (c.kind = "list" \/ ~ListComes(calls))
           /\ \A i, list : (\E e \in calls \ {c} : Mends(e, i, list)) => \E d \in T : Mends(d, i, list)
<1> DEFINE S == calls \ {c}
<1>1. Reflects(S, T)
  OBVIOUS
<1>2. OneTransfer(S) /\ NewsIsCurrent(S, beneficiaries)
      /\ (ServedTransfer(S) <=> ServedTransfer(calls) /\ ~(c.kind = "transfer" /\ c.stage = "served"))
      /\ (~ListComes(S) => (c.kind = "list" \/ ~ListComes(calls)))
  BY DEF TransferPageInv, OneTransfer, NewsIsCurrent, ServedTransfer, ListComes
<1>3. \A d \in T : \E e \in S : SameCall(e, d) /\ d.old = e.old
  OBVIOUS
<1> HIDE DEF S
<1>4. NewsIsCurrent(T, beneficiaries)
  BY <1>2, <1>3 DEF NewsIsCurrent, SameCall
<1>5. OneTransfer(T)
  BY <1>1, <1>2 DEF Reflects
<1>6. /\ \A d \in T : CallRecord(d)
      /\ (ServedTransfer(T) <=> ServedTransfer(S)) /\ (ListComes(T) <=> ListComes(S))
      /\ \A i, list : (\E e \in S : Mends(e, i, list)) => \E d \in T : Mends(d, i, list)
  BY <1>1, ReflectedFacts
<1> QED  BY <1>2, <1>4, <1>5, <1>6 DEF S

\* The calls left as they are, or shut by the box that closes.
LEMMA LeftCalls ==
    ASSUME TransferPageInv, NEW c \in calls, NEW T \in {calls \ {c}, Shutting(calls \ {c})}
    PROVE  /\ Reflects(calls \ {c}, T)
           /\ \A d \in T : \E e \in calls \ {c} : SameCall(e, d) /\ d.old = e.old
<1>1. \A d \in calls \ {c} : CallRecord(d)
  BY DEF TransferPageInv, TransferTypeOK
<1>2. \A d \in calls \ {c} : SameCall(d, d)
  BY <1>1 DEF SameCall
<1>3. CASE T = calls \ {c}
  BY <1>1, <1>2, <1>3, MarksOnly
<1>4. CASE T = Shutting(calls \ {c})
  BY <1>1, <1>4, MarksOnly
<1> QED  BY <1>3, <1>4

\* What the page shows and remembers when an answer comes, with the calls left.
Arrived(c, T, p, f, l) ==
    /\ calls' \in {T, T \cup {Call("list", NoIban, NoIban)}}
    /\ UNCHANGED <<beneficiaries, transferred>>
    /\ panel' = p /\ transferForm' = f /\ pageLog' = l
    /\ p = [list |-> p.list, modal |-> p.modal] /\ p.list \in [Ibans -> RowLabels]
    /\ f = [source |-> f.source, destination |-> f.destination]
    /\ l = [left |-> l.left, chosen |-> l.chosen, surprised |-> l.surprised, crossed |-> l.crossed,
            unheard |-> l.unheard, revived |-> pageLog.revived, told |-> l.told, untold |-> l.untold]
    /\ l.surprised \in BOOLEAN /\ l.crossed \in BOOLEAN /\ l.unheard \in BOOLEAN
    /\ l.told \in Nat /\ l.untold \in Nat
    /\ l.told + l.untold = pageLog.told + pageLog.untold
                           + (IF c.kind = "transfer" /\ c.stage = "served" THEN 1 ELSE 0)
    /\ f.destination = l.chosen \/ l.surprised

\* An answer is shown, and the list is asked for again when it changed something.
LEMMA AnswerShown ==
    ASSUME TransferPageInv, NEW c \in calls, NEW T \in {calls \ {c}, Shutting(calls \ {c})},
           NEW p, NEW f, NEW l, Arrived(c, T, p, f, l), PanelComes'
    PROVE  TransferPageInv'
<1> DEFINE n == Call("list", NoIban, NoIban)
<1>1. CallRecord(n) /\ n.kind = "list" /\ n.stage = "sent" /\ n.old = FALSE
  BY DEF Call, CallRecord
<1> USE DEF TransferPageInv, Arrived
<1> HIDE DEF n
<1>2. calls' = T \/ calls' = T \cup {n}
  BY DEF n
<1>3. /\ \A d \in T : CallRecord(d)
      /\ OneTransfer(T) /\ NewsIsCurrent(T, beneficiaries)
      /\ ServedTransfer(T) <=> ServedTransfer(calls) /\ ~(c.kind = "transfer" /\ c.stage = "served")
  BY LeftCalls, OneFewer
<1>4. \A d \in calls' : CallRecord(d)
  BY <1>1, <1>2, <1>3
<1>5. TransferTypeOK'
  BY <1>4 DEF TransferTypeOK
<1>6. OneTransfer(calls') /\ NewsIsCurrent(calls', beneficiaries)
      /\ (ServedTransfer(calls') <=> ServedTransfer(T))
  BY <1>1, <1>2, <1>3 DEF OneTransfer, NewsIsCurrent, ServedTransfer
<1>7. TransferCount'
  BY <1>3, <1>6 DEF TransferCount, ServedTransfer, TransferTypeOK
<1>8. DestinationIsChosen'
  BY DEF DestinationIsChosen
<1> QED  BY <1>5, <1>6, <1>7, <1>8

\* The added beneficiary is shown, becomes the destination, and the list is read again.
LEMMA ArrivesCreated ==
    ASSUME TransferPageInv, NEW c \in calls, ArriveCreated(c)
    PROVE  TransferPageInv'
<1> USE DEF TransferPageInv
<1> DEFINE T == Shutting(calls \ {c})
           list == [panel.list EXCEPT ![c.iban] = c.label]
           chosen == IF c.shut THEN pageLog.chosen ELSE c.iban
           crossed == pageLog.crossed \/ c.old
<1>1. c.kind = "add" /\ c.iban \in Ibans /\ c.label \in Labels /\ c.shut \in BOOLEAN /\ c.old \in BOOLEAN
  BY DEF ArriveCreated, TransferTypeOK, CallRecord
<1>2. list \in [Ibans -> RowLabels]
  BY <1>1 DEF TransferTypeOK, RowLabels
<1>3. calls' = T \cup {Call("list", NoIban, NoIban)} /\ UNCHANGED <<beneficiaries, transferred>>
      /\ panel' = [list |-> list, modal |-> "none"]
  BY DEF ArriveCreated, Shutting
<1>4. transferForm' = [source |-> transferForm.source, destination |-> c.iban]
  BY DEF ArriveCreated, TransferTypeOK
<1>5. /\ pageLog' = [left |-> pageLog.left, chosen |-> chosen, surprised |-> c.shut,
                     crossed |-> crossed, unheard |-> pageLog.unheard,
                     revived |-> pageLog.revived, told |-> pageLog.told, untold |-> pageLog.untold]
      /\ crossed \in BOOLEAN
  BY <1>1 DEF ArriveCreated, TransferTypeOK
<1>6. PanelComes'
  <2>1. Call("list", NoIban, NoIban).kind = "list"
    BY DEF Call
  <2>2. ListComes(calls')
    BY <1>3, <2>1 DEF ListComes
  <2> QED  BY <2>2 DEF PanelComes
<1>7. c.iban = chosen \/ c.shut
  OBVIOUS
<1>8. pageLog.told \in Nat /\ pageLog.untold \in Nat /\ pageLog.unheard \in BOOLEAN
      /\ pageLog.told + pageLog.untold = pageLog.told + pageLog.untold
            + (IF c.kind = "transfer" /\ c.stage = "served" THEN 1 ELSE 0)
  BY <1>1 DEF TransferTypeOK
<1>9. T \in {calls \ {c}, Shutting(calls \ {c})}
  OBVIOUS
<1>10. calls' \in {T, T \cup {Call("list", NoIban, NoIban)}}
  BY <1>3
<1> HIDE DEF T, list, chosen, crossed
<1> DEFINE p == [list |-> list, modal |-> "none"]
           f == [source |-> transferForm.source, destination |-> c.iban]
           l == [left |-> pageLog.left, chosen |-> chosen, surprised |-> c.shut,
                 crossed |-> crossed, unheard |-> pageLog.unheard,
                 revived |-> pageLog.revived, told |-> pageLog.told, untold |-> pageLog.untold]
<1>11. Arrived(c, T, p, f, l)
  BY <1>1, <1>2, <1>3, <1>4, <1>5, <1>7, <1>8, <1>10 DEF Arrived
<1> HIDE DEF p, f, l, TransferPageInv
<1> QED  BY <1>6, <1>9, <1>11, AnswerShown

\* The changed beneficiary is shown with his label, if he is shown at all.
LEMMA ArrivesChanged ==
    ASSUME TransferPageInv, NEW c \in calls, ArriveChanged(c)
    PROVE  TransferPageInv'
<1> USE DEF TransferPageInv
<1> DEFINE T == Shutting(calls \ {c})
           list == [i \in Ibans |-> IF i = c.iban /\ panel.list[i] # NoIban
                                    THEN c.label ELSE panel.list[i]]
           crossed == pageLog.crossed \/ c.old
<1>1. c.kind \in {"edit", "delete"} /\ c.stage = "served" /\ c.iban \in Ibans /\ c.label \in RowLabels
      /\ c.old \in BOOLEAN
  BY DEF ArriveChanged, TransferTypeOK, CallRecord, RowLabels
<1>2. list \in [Ibans -> RowLabels] /\ \A i \in Ibans :
          list[i] = IF i = c.iban /\ panel.list[i] # NoIban THEN c.label ELSE panel.list[i]
  BY <1>1 DEF TransferTypeOK, RowLabels
<1>3. calls' = T /\ UNCHANGED <<beneficiaries, transferred, transferForm>>
      /\ panel' = [list |-> list, modal |-> "none"]
  BY DEF ArriveChanged, Shutting
<1>4. transferForm' = [source |-> transferForm.source, destination |-> transferForm.destination]
  BY <1>3 DEF TransferTypeOK
<1>5. /\ pageLog' = [left |-> pageLog.left, chosen |-> pageLog.chosen, surprised |-> pageLog.surprised,
                     crossed |-> crossed, unheard |-> pageLog.unheard,
                     revived |-> pageLog.revived, told |-> pageLog.told, untold |-> pageLog.untold]
      /\ crossed \in BOOLEAN
  BY <1>1 DEF ArriveChanged, TransferTypeOK
<1>7. transferForm.destination = pageLog.chosen \/ pageLog.surprised
  BY DEF DestinationIsChosen
<1>8. pageLog.told \in Nat /\ pageLog.untold \in Nat /\ pageLog.unheard \in BOOLEAN
      /\ pageLog.surprised \in BOOLEAN
      /\ pageLog.told + pageLog.untold = pageLog.told + pageLog.untold
            + (IF c.kind = "transfer" /\ c.stage = "served" THEN 1 ELSE 0)
  BY <1>1 DEF TransferTypeOK
<1>9. T \in {calls \ {c}, Shutting(calls \ {c})}
  OBVIOUS
<1>10. /\ ~ListComes(T) => (c.kind = "list" \/ ~ListComes(calls))
       /\ \A i, l : (\E e \in calls \ {c} : Mends(e, i, l)) => \E d \in T : Mends(d, i, l)
  BY <1>9, LeftCalls, OneFewer
<1>11. crossed = (pageLog.crossed \/ c.old)
  OBVIOUS
<1> HIDE DEF T, list, crossed
<1>6. PanelComes'
  <2> SUFFICES ASSUME ~crossed, ~pageLog.unheard, ~pageLog.revived, ~ListComes(T),
                      NEW i \in Ibans, list[i] # beneficiaries[i]
               PROVE  \E e \in T : Mends(e, i, list)
    BY <1>3, <1>5 DEF PanelComes
  <2>1. ~c.old /\ beneficiaries[c.iban] = c.label
    BY <1>1, <1>11 DEF NewsIsCurrent
  <2>2. list[i] = panel.list[i] /\ ~Mends(c, i, panel.list)
    BY <1>1, <1>2, <2>1 DEF Mends
  <2>3. ~ListComes(calls)
    BY <1>1, <1>10
  <2>4. \E e \in calls : Mends(e, i, panel.list)
    BY <1>11, <2>2, <2>3 DEF PanelComes
  <2>5. \E e \in T : Mends(e, i, panel.list)
    BY <1>10, <2>2, <2>4
  <2> QED  BY <2>2, <2>5 DEF Mends
<1> DEFINE p == [list |-> list, modal |-> "none"]
           f == [source |-> transferForm.source, destination |-> transferForm.destination]
           l == [left |-> pageLog.left, chosen |-> pageLog.chosen, surprised |-> pageLog.surprised,
                 crossed |-> crossed, unheard |-> pageLog.unheard,
                 revived |-> pageLog.revived, told |-> pageLog.told, untold |-> pageLog.untold]
<1>12. Arrived(c, T, p, f, l)
  BY <1>1, <1>2, <1>3, <1>4, <1>5, <1>7, <1>8 DEF Arrived
<1> HIDE DEF p, f, l, TransferPageInv
<1> QED  BY <1>6, <1>9, <1>12, AnswerShown

\* The answer of a reading replaces the list: what it says is current, or it is old.
LEMMA ArrivesBeneficiaries ==
    ASSUME TransferPageInv, NEW c \in calls, ArriveBeneficiaries(c)
    PROVE  TransferPageInv'
<1> USE DEF TransferPageInv
<1> DEFINE T == calls \ {c}
<1>1. c.kind = "list" /\ c.stage = "served" /\ c.old \in BOOLEAN /\ c.got \in [Ibans -> RowLabels]
  BY DEF ArriveBeneficiaries, TransferTypeOK, CallRecord
<1>3. calls' = T /\ UNCHANGED <<beneficiaries, transferred, transferForm>>
      /\ panel' = [list |-> c.got, modal |-> panel.modal]
  BY DEF ArriveBeneficiaries, TransferTypeOK
<1>4. transferForm' = [source |-> transferForm.source, destination |-> transferForm.destination]
  BY <1>3 DEF TransferTypeOK
<1>5. pageLog' = [left |-> pageLog.left, chosen |-> pageLog.chosen, surprised |-> pageLog.surprised,
                  crossed |-> c.old, unheard |-> pageLog.unheard,
                  revived |-> pageLog.revived, told |-> pageLog.told, untold |-> pageLog.untold]
  BY <1>1 DEF ArriveBeneficiaries, TransferTypeOK
<1>6. PanelComes'
  BY <1>1, <1>3, <1>5 DEF NewsIsCurrent, PanelComes
<1>7. transferForm.destination = pageLog.chosen \/ pageLog.surprised
  BY DEF DestinationIsChosen
<1>8. pageLog.told \in Nat /\ pageLog.untold \in Nat /\ pageLog.unheard \in BOOLEAN
      /\ pageLog.surprised \in BOOLEAN
      /\ pageLog.told + pageLog.untold = pageLog.told + pageLog.untold
            + (IF c.kind = "transfer" /\ c.stage = "served" THEN 1 ELSE 0)
  BY <1>1 DEF TransferTypeOK
<1>9. T \in {calls \ {c}, Shutting(calls \ {c})}
  OBVIOUS
<1> HIDE DEF T
<1> DEFINE p == [list |-> c.got, modal |-> panel.modal]
           f == [source |-> transferForm.source, destination |-> transferForm.destination]
           l == [left |-> pageLog.left, chosen |-> pageLog.chosen, surprised |-> pageLog.surprised,
                 crossed |-> c.old, unheard |-> pageLog.unheard,
                 revived |-> pageLog.revived, told |-> pageLog.told, untold |-> pageLog.untold]
<1>10. Arrived(c, T, p, f, l)
  BY <1>1, <1>3, <1>4, <1>5, <1>7, <1>8 DEF Arrived
<1> HIDE DEF p, f, l, TransferPageInv
<1> QED  BY <1>6, <1>9, <1>10, AnswerShown

\* A call that can put nothing right may leave: the panel still comes to what the rows say.
LEMMA PanelStillComes ==
    ASSUME TransferPageInv, NEW c \in calls, calls' = calls \ {c}, UNCHANGED <<beneficiaries, panel>>,
           \/ pageLog'.unheard
           \/ /\ c.kind # "list"
              /\ c.kind = "transfer" \/ c.stage # "served"
              /\ pageLog.crossed => pageLog'.crossed
              /\ pageLog.unheard => pageLog'.unheard
              /\ pageLog.revived => pageLog'.revived
    PROVE  PanelComes'
BY DEF PanelComes, ListComes, Mends, TransferPageInv

\* An error is shown; a transfer that was executed is then untold.
LEMMA ArrivesError ==
    ASSUME TransferPageInv, NEW c \in calls, ArriveError(c)
    PROVE  TransferPageInv'
<1> USE DEF TransferPageInv
<1>1. CallRecord(c)
  BY DEF TransferTypeOK
<1> DEFINE T == calls \ {c}
           heard == pageLog.unheard \/ c.kind # "transfer"
           untold == IF c.kind = "transfer" /\ c.stage = "served" THEN pageLog.untold + 1 ELSE pageLog.untold
           p == [list |-> panel.list, modal |-> panel.modal]
           f == [source |-> transferForm.source, destination |-> transferForm.destination]
<1>2. calls' = T /\ UNCHANGED <<beneficiaries, transferred, panel, transferForm>>
      /\ panel' = p /\ transferForm' = f /\ p.list \in [Ibans -> RowLabels]
      /\ T \in {calls \ {c}, Shutting(calls \ {c})}
  BY DEF ArriveError, TransferTypeOK
<1>3. f.destination = pageLog.chosen \/ pageLog.surprised
  BY DEF DestinationIsChosen
<1>4. pageLog.told \in Nat /\ pageLog.untold \in Nat /\ pageLog.unheard \in BOOLEAN
      /\ pageLog.surprised \in BOOLEAN /\ pageLog.crossed \in BOOLEAN /\ pageLog.revived \in BOOLEAN
      /\ pageLog = [left |-> pageLog.left, chosen |-> pageLog.chosen, surprised |-> pageLog.surprised,
                    crossed |-> pageLog.crossed, unheard |-> pageLog.unheard,
                    revived |-> pageLog.revived, told |-> pageLog.told, untold |-> pageLog.untold]
  BY DEF TransferTypeOK
<1>5. CASE c.stage = "refused" /\ UNCHANGED pageLog
  <2>1. PanelComes'
    BY <1>1, <1>2, <1>5, PanelStillComes DEF CallRecord
  <2>2. p = [list |-> p.list, modal |-> p.modal] /\ f = [source |-> f.source, destination |-> f.destination]
    OBVIOUS
  <2> HIDE DEF T, p, f
  <2>3. Arrived(c, T, p, f, pageLog)
    BY <1>2, <1>3, <1>4, <1>5, <2>2 DEF Arrived
  <2> HIDE DEF TransferPageInv
  <2> QED  BY <1>2, <2>1, <2>3, AnswerShown
<1>6. CASE /\ pageLog.left["troubles"] > 0
           /\ pageLog' = [pageLog EXCEPT !.left["troubles"] = @ - 1,
                            !.unheard = @ \/ c.kind # "transfer",
                            !.untold = IF c.kind = "transfer" /\ c.stage = "served" THEN @ + 1 ELSE @]
  <2>1. heard \in BOOLEAN /\ untold \in Nat /\ (c.kind # "transfer" => heard) /\ (pageLog.unheard => heard)
        /\ pageLog.told + untold = pageLog.told + pageLog.untold
             + (IF c.kind = "transfer" /\ c.stage = "served" THEN 1 ELSE 0)
    BY <1>4
  <2>2. PICK left : pageLog' = [pageLog EXCEPT !.left = left, !.unheard = heard, !.untold = untold]
    BY <1>6
  <2> HIDE DEF heard, untold
  <2> DEFINE l == [left |-> left, chosen |-> pageLog.chosen, surprised |-> pageLog.surprised,
                   crossed |-> pageLog.crossed, unheard |-> heard,
                   revived |-> pageLog.revived, told |-> pageLog.told, untold |-> untold]
  <2>3. pageLog' = l
    BY <1>4, <2>2
  <2>4. PanelComes'
    <3>1. pageLog'.unheard = heard /\ pageLog'.crossed = pageLog.crossed /\ pageLog'.revived = pageLog.revived
      BY <2>3
    <3>2. c.kind = "transfer" => c.kind # "list"
      OBVIOUS
    <3> HIDE DEF l
    <3> QED  BY <1>2, <2>1, <3>1, <3>2, PanelStillComes
  <2>5. p = [list |-> p.list, modal |-> p.modal] /\ f = [source |-> f.source, destination |-> f.destination]
    OBVIOUS
  <2> HIDE DEF T, p, f
  <2>6. Arrived(c, T, p, f, l)
    BY <1>2, <1>3, <1>4, <2>1, <2>3, <2>5 DEF Arrived
  <2> HIDE DEF l, TransferPageInv
  <2> QED  BY <1>2, <2>4, <2>6, AnswerShown
<1> QED  BY <1>5, <1>6 DEF ArriveError

\* The client is told of the transfer.
LEMMA ArrivesTransferred ==
    ASSUME TransferPageInv, NEW c \in calls, ArriveTransferred(c)
    PROVE  TransferPageInv'
<1> USE DEF TransferPageInv
<1> DEFINE T == calls \ {c}
           p == [list |-> panel.list, modal |-> panel.modal]
           f == [source |-> transferForm.source, destination |-> transferForm.destination]
           l == [left |-> pageLog.left, chosen |-> pageLog.chosen, surprised |-> pageLog.surprised,
                 crossed |-> pageLog.crossed, unheard |-> pageLog.unheard,
                 revived |-> pageLog.revived, told |-> pageLog.told + 1, untold |-> pageLog.untold]
<1>1. c.kind = "transfer" /\ c.stage = "served"
  BY DEF ArriveTransferred
<1>2. calls' = T /\ UNCHANGED <<beneficiaries, transferred, panel, transferForm>>
      /\ panel' = p /\ transferForm' = f /\ p.list \in [Ibans -> RowLabels]
      /\ T \in {calls \ {c}, Shutting(calls \ {c})}
  BY DEF ArriveTransferred, TransferTypeOK
<1>3. f.destination = pageLog.chosen \/ pageLog.surprised
  BY DEF DestinationIsChosen
<1>4. pageLog.told \in Nat /\ pageLog.untold \in Nat /\ pageLog.unheard \in BOOLEAN
      /\ pageLog.surprised \in BOOLEAN /\ pageLog.crossed \in BOOLEAN
      /\ pageLog' = l
  BY DEF ArriveTransferred, TransferTypeOK
<1>5. PanelComes'
  BY <1>1, <1>2, <1>4, PanelStillComes
<1>6. Arrived(c, T, p, f, l)
  BY <1>1, <1>2, <1>3, <1>4 DEF Arrived
<1> HIDE DEF T, p, f, l, TransferPageInv
<1> QED  BY <1>2, <1>5, <1>6, AnswerShown

\* Nothing but the bounds, the form and the box changes, and a call may be sent.
SentWith(cs, f, box, left, chosen, surprised) ==
    /\ UNCHANGED <<beneficiaries, transferred>>
    /\ calls' = cs
    /\ panel' = [list |-> panel.list, modal |-> box]
    /\ transferForm' = [source |-> f.source, destination |-> f.destination]
    /\ f.destination = chosen \/ surprised
    /\ pageLog' = [left |-> left, chosen |-> chosen, surprised |-> surprised,
                   crossed |-> pageLog.crossed, unheard |-> pageLog.unheard,
                   revived |-> pageLog.revived, told |-> pageLog.told, untold |-> pageLog.untold]
    /\ surprised \in BOOLEAN

\* The client asks for something, or only looks.
LEMMA ClientSends ==
    ASSUME TransferPageInv, NEW cs, NEW f, NEW box, NEW left, NEW chosen, NEW surprised,
           SentWith(cs, f, box, left, chosen, surprised),
           \/ cs = calls
           \/ cs = Shutting(calls)
           \/ \E n : /\ cs = calls \cup {n} /\ CallRecord(n) /\ n.stage = "sent"
                     /\ n.kind = "transfer" => \A c \in calls : c.kind # "transfer"
    PROVE  TransferPageInv'
<1> USE DEF TransferPageInv, SentWith
<1>1. \A c \in calls : CallRecord(c)
  BY DEF TransferTypeOK
<1>2. /\ \A c \in cs : CallRecord(c)
      /\ OneTransfer(cs) /\ NewsIsCurrent(cs, beneficiaries)
      /\ ServedTransfer(cs) <=> ServedTransfer(calls)
      /\ ListComes(calls) => ListComes(cs)
      /\ \A i : (\E c \in calls : Mends(c, i, panel.list)) => \E c \in cs : Mends(c, i, panel.list)
  <2>1. CASE cs = calls
    BY <1>1, <2>1
  <2>2. CASE cs = Shutting(calls)
    <3>1. Reflects(calls, cs) /\ \A d \in cs : \E c \in calls : SameCall(c, d) /\ d.old = c.old
      BY <1>1, <2>2, MarksOnly
    <3>2. /\ \A d \in cs : CallRecord(d)
          /\ ServedTransfer(cs) <=> ServedTransfer(calls)
          /\ ListComes(cs) <=> ListComes(calls)
          /\ \A i, list : (\E c \in calls : Mends(c, i, list)) => \E d \in cs : Mends(d, i, list)
      BY <3>1, ReflectedFacts
    <3>3. OneTransfer(cs)
      BY <3>1 DEF Reflects
    <3>4. NewsIsCurrent(cs, beneficiaries)
      BY <3>1 DEF NewsIsCurrent, SameCall
    <3> QED  BY <3>2, <3>3, <3>4
  <2>3. CASE \E n : /\ cs = calls \cup {n} /\ CallRecord(n) /\ n.stage = "sent"
                    /\ n.kind = "transfer" => \A c \in calls : c.kind # "transfer"
    <3>1. PICK n : /\ cs = calls \cup {n} /\ CallRecord(n) /\ n.stage = "sent"
                   /\ n.kind = "transfer" => \A c \in calls : c.kind # "transfer"
      BY <2>3
    <3>2. OneTransfer(cs) /\ NewsIsCurrent(cs, beneficiaries)
      BY <3>1 DEF OneTransfer, NewsIsCurrent
    <3>3. (ServedTransfer(cs) <=> ServedTransfer(calls)) /\ (ListComes(calls) => ListComes(cs))
      BY <3>1 DEF ServedTransfer, ListComes
    <3> QED  BY <1>1, <3>1, <3>2, <3>3
  <2> QED  BY <2>1, <2>2, <2>3
<1>3. TransferTypeOK'
  BY <1>2 DEF TransferTypeOK
<1>4. TransferCount'
  BY <1>2 DEF TransferCount, TransferTypeOK
<1>5. PanelComes'
  BY <1>2 DEF PanelComes
<1>6. DestinationIsChosen'
  BY DEF DestinationIsChosen
<1> QED  BY <1>2, <1>3, <1>4, <1>5, <1>6

\* A gesture takes one from its bound.
LEMMA OneGesture ==
    ASSUME TransferTypeOK, NEW what, Gestures(what)
    PROVE  \E left : pageLog' = [left |-> left, chosen |-> pageLog.chosen, surprised |-> pageLog.surprised,
                      crossed |-> pageLog.crossed, unheard |-> pageLog.unheard,
                      revived |-> pageLog.revived, told |-> pageLog.told, untold |-> pageLog.untold]
<1>1. PICK left : pageLog' = [pageLog EXCEPT !.left = left]
  BY DEF Gestures
<1> QED  BY <1>1 DEF TransferTypeOK

\* What the client does on the page keeps the invariant.
LEMMA ClientSteps ==
    ASSUME TransferPageInv,
           \/ \E what \in {"add", "edit"} : OpenModal(what)
           \/ CloseModal
           \/ \E i \in Ibans, l \in Labels :
                 \/ AddBeneficiary(i, l)
                 \/ \E kind \in {"edit", "delete"} : ChangeBeneficiary(kind, i, l)
           \/ \E a \in OwnAccounts : SelectSource(a)
           \/ \E d \in Destinations : ChooseDestination(d)
           \/ SubmitTransfer
    PROVE  TransferPageInv'
<1>1. /\ TransferTypeOK /\ pageLog.surprised \in BOOLEAN
      /\ panel = [list |-> panel.list, modal |-> panel.modal]
      /\ transferForm = [source |-> transferForm.source, destination |-> transferForm.destination]
      /\ pageLog = [left |-> pageLog.left, chosen |-> pageLog.chosen, surprised |-> pageLog.surprised,
                    crossed |-> pageLog.crossed, unheard |-> pageLog.unheard,
                    revived |-> pageLog.revived, told |-> pageLog.told, untold |-> pageLog.untold]
  BY DEF TransferPageInv, TransferTypeOK
<1>2. transferForm.destination = pageLog.chosen \/ pageLog.surprised
  BY DEF TransferPageInv, DestinationIsChosen
<1>3. ASSUME NEW what \in {"add", "edit"}, OpenModal(what) PROVE TransferPageInv'
  <2>1. PICK left : pageLog' = [left |-> left, chosen |-> pageLog.chosen, surprised |-> pageLog.surprised,
                      crossed |-> pageLog.crossed, unheard |-> pageLog.unheard,
                      revived |-> pageLog.revived, told |-> pageLog.told, untold |-> pageLog.untold]
    BY <1>1, <1>3, OneGesture DEF OpenModal
  <2>2. panel' = [list |-> panel.list, modal |-> what]
        /\ UNCHANGED <<beneficiaries, transferred, transferForm, calls>>
    BY <1>1, <1>3 DEF OpenModal
  <2>3. SentWith(calls, transferForm, what, left, pageLog.chosen, pageLog.surprised)
    BY <1>1, <1>2, <2>1, <2>2 DEF SentWith
  <2> QED  BY <2>3, ClientSends
<1>4. ASSUME CloseModal PROVE TransferPageInv'
  BY <1>1, <1>4, <1>2, ClientSends DEF CloseModal, Shutting, SentWith
<1>5. ASSUME NEW n, CallRecord(n), n.stage = "sent", n.kind = "transfer" => \A c \in calls : c.kind # "transfer",
             NEW what, Gestures(what), calls' = calls \cup {n},
             UNCHANGED <<beneficiaries, transferred, panel, transferForm>>
      PROVE  TransferPageInv'
  <2>1. PICK left : pageLog' = [left |-> left, chosen |-> pageLog.chosen, surprised |-> pageLog.surprised,
                      crossed |-> pageLog.crossed, unheard |-> pageLog.unheard,
                      revived |-> pageLog.revived, told |-> pageLog.told, untold |-> pageLog.untold]
    BY <1>1, <1>5, OneGesture
  <2>2. SentWith(calls \cup {n}, transferForm, panel.modal, left, pageLog.chosen, pageLog.surprised)
    BY <1>1, <1>2, <1>5, <2>1 DEF SentWith
  <2> QED  BY <1>5, <2>2, ClientSends
<1>6. ASSUME NEW i \in Ibans, NEW l \in Labels, AddBeneficiary(i, l) PROVE TransferPageInv'
  <2> DEFINE n == Call("add", i, l)
  <2>1. CallRecord(n) /\ n.stage = "sent" /\ n.kind # "transfer"
    BY DEF Call, CallRecord
  <2>2. Gestures("panel") /\ calls' = calls \cup {n}
        /\ UNCHANGED <<beneficiaries, transferred, panel, transferForm>>
    BY <1>6 DEF AddBeneficiary
  <2> HIDE DEF n
  <2> QED  BY <1>5, <2>1, <2>2
<1>7. ASSUME NEW i \in Ibans, NEW l \in Labels, NEW kind \in {"edit", "delete"},
             ChangeBeneficiary(kind, i, l)
      PROVE  TransferPageInv'
  <2> DEFINE n == Call(kind, i, IF kind = "delete" THEN NoIban ELSE l)
  <2>1. CallRecord(n) /\ n.stage = "sent" /\ n.kind # "transfer"
    BY DEF Call, CallRecord
  <2>2. Gestures("panel") /\ calls' = calls \cup {n}
        /\ UNCHANGED <<beneficiaries, transferred, panel, transferForm>>
    BY <1>7 DEF ChangeBeneficiary
  <2> HIDE DEF n
  <2> QED  BY <1>5, <2>1, <2>2
<1>8. ASSUME NEW a, SelectSource(a) PROVE TransferPageInv'
  <2> DEFINE f == [source |-> a, destination |-> transferForm.destination]
  <2>1. PICK left : pageLog' = [left |-> left, chosen |-> pageLog.chosen, surprised |-> pageLog.surprised,
                      crossed |-> pageLog.crossed, unheard |-> pageLog.unheard,
                      revived |-> pageLog.revived, told |-> pageLog.told, untold |-> pageLog.untold]
    BY <1>1, <1>8, OneGesture DEF SelectSource
  <2>2. transferForm' = f /\ UNCHANGED <<beneficiaries, transferred, panel, calls>>
    BY <1>1, <1>8 DEF SelectSource
  <2>3. SentWith(calls, f, panel.modal, left, pageLog.chosen, pageLog.surprised)
    BY <1>1, <1>2, <2>1, <2>2 DEF SentWith
  <2> HIDE DEF f
  <2> QED  BY <2>3, ClientSends
<1>9. ASSUME NEW d, ChooseDestination(d) PROVE TransferPageInv'
  <2> DEFINE f == [source |-> transferForm.source, destination |-> d]
  <2>1. PICK left : pageLog' = [left |-> left, chosen |-> d, surprised |-> FALSE,
                      crossed |-> pageLog.crossed, unheard |-> pageLog.unheard,
                      revived |-> pageLog.revived, told |-> pageLog.told, untold |-> pageLog.untold]
    <3>1. PICK left : pageLog' = [pageLog EXCEPT !.left = left, !.chosen = d, !.surprised = FALSE]
      BY <1>9 DEF ChooseDestination
    <3> QED  BY <1>1, <3>1
  <2>2. transferForm' = f /\ UNCHANGED <<beneficiaries, transferred, panel, calls>>
    BY <1>1, <1>9 DEF ChooseDestination
  <2>3. SentWith(calls, f, panel.modal, left, d, FALSE)
    BY <1>1, <2>1, <2>2 DEF SentWith
  <2> HIDE DEF f
  <2> QED  BY <2>3, ClientSends
<1>10. ASSUME SubmitTransfer PROVE TransferPageInv'
  <2> DEFINE n == Call("transfer", transferForm.destination, transferForm.source)
  <2>1. CallRecord(n) /\ n.stage = "sent"
    BY DEF Call, CallRecord
  <2>2. \A c \in calls : c.kind # "transfer"
    BY <1>1, <1>10 DEF SubmitTransfer, OpenCall, TransferTypeOK, CallRecord
  <2>3. Gestures("transfers") /\ calls' = calls \cup {n}
        /\ UNCHANGED <<beneficiaries, transferred, panel, transferForm>>
    BY <1>10 DEF SubmitTransfer
  <2> HIDE DEF n
  <2> QED  BY <1>5, <2>1, <2>2, <2>3
<1> QED  BY <1>3, <1>4, <1>6, <1>7, <1>8, <1>9, <1>10

\* Every step of the page keeps the invariant, and it holds when the page opens.
LEMMA TransferPageSteps ==
    ASSUME TransferPageInv, [TransferPageNext]_transferVars
    PROVE  TransferPageInv'
BY ServedCalls, ArrivesCreated, ArrivesChanged, ArrivesBeneficiaries, ArrivesError,
   ArrivesTransferred, ClientSteps DEF transferVars, TransferPageInv, TransferTypeOK, TransferCount,
   PanelComes, DestinationIsChosen, ArriveCall, TransferPageNext

\* The page opens with the list asked for and nothing chosen.
LEMMA TransferPageOpens ==
    ASSUME TransferPageInit
    PROVE  TransferPageInv
<1> DEFINE n == Call("list", NoIban, NoIban)
<1>1. CallRecord(n) /\ n.kind = "list" /\ n.stage = "sent"
  BY DEF Call, CallRecord
<1>2. calls = {n}
  BY DEF TransferPageInit
<1>3. /\ (CHOOSE i \in Ibans : TRUE) \in Ibans /\ (CHOOSE l \in Labels : TRUE) \in Labels
  BY TransferPageAssumption
<1>4. beneficiaries \in [Ibans -> RowLabels]
  BY <1>3 DEF TransferPageInit, RowLabels
<1>5. /\ panel = [list |-> panel.list, modal |-> panel.modal] /\ panel.list \in [Ibans -> RowLabels]
      /\ transferForm = [source |-> transferForm.source, destination |-> transferForm.destination]
      /\ transferForm.destination = NoIban /\ transferred = 0
  BY DEF TransferPageInit, RowLabels
<1>6. PICK b : pageLog = [left |-> b, chosen |-> NoIban, surprised |-> FALSE, crossed |-> FALSE,
                          unheard |-> FALSE, revived |-> FALSE, told |-> 0, untold |-> 0]
  BY DEF TransferPageInit
<1> HIDE DEF n
<1>7. TransferTypeOK
  BY <1>1, <1>2, <1>4, <1>5, <1>6 DEF TransferTypeOK
<1>8. OneTransfer(calls) /\ NewsIsCurrent(calls, beneficiaries) /\ ~ServedTransfer(calls) /\ ListComes(calls)
  BY <1>1, <1>2 DEF OneTransfer, NewsIsCurrent, ServedTransfer, ListComes
<1> QED  BY <1>5, <1>6, <1>7, <1>8 DEF TransferPageInv, TransferCount, PanelComes, DestinationIsChosen

\* What the page promises follows.
LEMMA TransferPagePromises ==
    ASSUME TransferPageInv
    PROVE  TransfersAreTold /\ PanelCatchesUp /\ DestinationIsChosen
<1>1. TransfersAreTold
  BY TransfersCounted DEF TransferPageInv, TransfersAreTold, TransferCount
<1>2. PanelCatchesUp
  <2> SUFFICES ASSUME calls = {}, ~pageLog.crossed, ~pageLog.unheard, ~pageLog.revived
               PROVE  panel.list = beneficiaries
    BY DEF PanelCatchesUp
  <2>1. \A i \in Ibans : panel.list[i] = beneficiaries[i]
    BY DEF TransferPageInv, PanelComes, ListComes
  <2>2. panel.list \in [Ibans -> RowLabels] /\ beneficiaries \in [Ibans -> RowLabels]
    BY DEF TransferPageInv, TransferTypeOK
  <2> QED  BY <2>1, <2>2
<1> QED  BY <1>1, <1>2 DEF TransferPageInv

-----------------------------------------------------------------------------
(* The security page *)

\* A request that has just been sent, and a page that has just been opened.
LEMMA NewRequest ==
    ASSUME NEW t \in Tabs, NEW kind \in {"status", "setup", "enable", "disable"}, NEW code,
           kind # "enable" \/ code \in app
    PROVE  RequestRecord(Request(t, kind, code))
<1> DEFINE n == Request(t, kind, code)
<1>1. /\ n.tab = t /\ n.kind = kind /\ n.stage = "asked" /\ n.heard = TRUE /\ n.code = code
      /\ n = [tab |-> n.tab, kind |-> n.kind, code |-> n.code, stage |-> n.stage, copy |-> n.copy,
              columns |-> n.columns, heard |-> n.heard]
  BY DEF Request
<1> HIDE DEF n
<1>2. RequestRecord(n)
  BY <1>1 DEF RequestRecord, Saving
<1> QED  BY <1>2 DEF n

\* What a page shows before it hears anything.
LEMMA NewPage == PageRecord(Page0) /\ Page0.enabled = Unknown /\ Page0.setup = 0 /\ Page0.loading = FALSE
BY DEF PageRecord, Page0

\* The page opens, with one request for the status in each tab.
LEMMA SecurityOpens ==
    ASSUME FactorInit
    PROVE  FactorInv
<1>1. /\ \A c \in requests : /\ c.tab \in Tabs /\ c.kind = "status" /\ c.stage = "asked" /\ c.heard = TRUE
                             /\ c = Request(c.tab, "status", 0)
      /\ \A t \in Tabs : tabs[t] = Page0
      /\ tabs = [t \in Tabs |-> tabs[t]]
  BY DEF FactorInit, Request
<1>2. PICK b : factorLog = [left |-> b, stale |-> {}, overlap |-> FALSE]
  BY DEF FactorInit
<1>3. PICK set \in BOOLEAN : /\ factor = [secret |-> IF set THEN 9 ELSE 0, enabled |-> set]
                             /\ app = IF set THEN {9} ELSE {}
  BY DEF FactorInit
<1>4. DOMAIN factor = Columns /\ factor = [k \in Columns |-> factor[k]]
      /\ factor.enabled \in BOOLEAN /\ (factor.enabled => factor.secret \in app)
  BY <1>3 DEF Columns
<1>5. \A c \in requests : RequestRecord(c)
  <2> TAKE c \in requests
  <2>1. c.tab \in Tabs /\ c = Request(c.tab, "status", 0)
    BY <1>1
  <2>2. RequestRecord(Request(c.tab, "status", 0))
    BY <2>1, NewRequest
  <2> QED  BY <2>1, <2>2
<1>6. \A t \in Tabs : PageRecord(tabs[t]) /\ tabs[t].enabled = Unknown /\ tabs[t].setup = 0
  BY <1>1, NewPage
<1>7. FactorTypeOK
  BY <1>1, <1>2, <1>4, <1>5, <1>6 DEF FactorTypeOK
<1>8. OneHolds
  BY <1>1 DEF OneHolds, Saving
<1>9. OneHeard
  BY <1>1, <1>6 DEF OneHeard
<1>10. \A t \in Tabs : TabKnows(t)
  BY <1>1, <1>6 DEF TabKnows, Saving
<1> QED  BY <1>4, <1>7, <1>8, <1>9, <1>10 DEF FactorInv, NotLockedOut

\* Requests that are heard by nobody, if not by the same tab, and are the same otherwise.
SameRequest(c, d) ==
    /\ d.tab = c.tab /\ d.kind = c.kind /\ d.code = c.code /\ d.stage = c.stage
    /\ d.copy = c.copy /\ d.columns = c.columns /\ d.heard \in {c.heard, FALSE}
    /\ RequestRecord(d)

\* A request whose tab no longer listens is otherwise the same.
LEMMA Unheard ==
    ASSUME NEW c, RequestRecord(c), NEW h \in {c.heard, FALSE}
    PROVE  SameRequest(c, [c EXCEPT !.heard = h]) /\ SameRequest(c, c) /\ [c EXCEPT !.heard = h].heard = h
<1> DEFINE r == [tab |-> c.tab, kind |-> c.kind, code |-> c.code, stage |-> c.stage, copy |-> c.copy,
                 columns |-> c.columns, heard |-> c.heard]
           d == [c EXCEPT !.heard = h]
<1>1. c = r
  BY DEF RequestRecord
<1>2. [r EXCEPT !.heard = h] = [tab |-> c.tab, kind |-> c.kind, code |-> c.code, stage |-> c.stage,
                                copy |-> c.copy, columns |-> c.columns, heard |-> h]
  OBVIOUS
<1> HIDE DEF r
<1>3. d = [tab |-> c.tab, kind |-> c.kind, code |-> c.code, stage |-> c.stage, copy |-> c.copy,
           columns |-> c.columns, heard |-> h]
  BY <1>1, <1>2
<1> HIDE DEF d
<1>4. /\ d.tab = c.tab /\ d.kind = c.kind /\ d.code = c.code /\ d.stage = c.stage
      /\ d.copy = c.copy /\ d.columns = c.columns /\ d.heard = h
      /\ d = [tab |-> d.tab, kind |-> d.kind, code |-> d.code, stage |-> d.stage, copy |-> d.copy,
              columns |-> d.columns, heard |-> d.heard]
  BY <1>3
<1>5. RequestRecord(d)
  BY <1>4 DEF RequestRecord, Saving
<1> QED  BY <1>4, <1>5 DEF d, SameRequest

\* A page that waits, or does no more.
LEMMA PageWaits ==
    ASSUME NEW p, PageRecord(p), NEW h \in BOOLEAN
    PROVE  LET q == [p EXCEPT !.loading = h]
           IN  PageRecord(q) /\ q.enabled = p.enabled /\ q.setup = p.setup /\ q.loading = h
<1> DEFINE r == [enabled |-> p.enabled, setup |-> p.setup, loading |-> p.loading]
           q == [p EXCEPT !.loading = h]
<1>1. p = r
  BY DEF PageRecord
<1>2. [r EXCEPT !.loading = h] = [enabled |-> p.enabled, setup |-> p.setup, loading |-> h]
  OBVIOUS
<1> HIDE DEF r
<1>3. q = [enabled |-> p.enabled, setup |-> p.setup, loading |-> h]
  BY <1>1, <1>2
<1> HIDE DEF q
<1>4. q.enabled = p.enabled /\ q.setup = p.setup /\ q.loading = h
      /\ q = [enabled |-> q.enabled, setup |-> q.setup, loading |-> q.loading]
  BY <1>3
<1> QED  BY <1>4 DEF q, PageRecord

\* A tab that begins or ends to wait is otherwise the same.
LEMMA TabWaits ==
    ASSUME FactorTypeOK, NEW t \in Tabs, NEW h \in BOOLEAN, tabs' = [tabs EXCEPT ![t].loading = h]
    PROVE  /\ tabs' = [s \in Tabs |-> tabs'[s]]
           /\ \A s \in Tabs : /\ PageRecord(tabs'[s])
                              /\ tabs'[s].enabled = tabs[s].enabled /\ tabs'[s].setup = tabs[s].setup
                              /\ s # t => tabs'[s].loading = tabs[s].loading
           /\ tabs'[t].loading = h
<1> DEFINE q == [tabs[t] EXCEPT !.loading = h]
<1>1. tabs' = [tabs EXCEPT ![t] = q]
  OBVIOUS
<1>2. PageRecord(q) /\ q.enabled = tabs[t].enabled /\ q.setup = tabs[t].setup /\ q.loading = h
  BY PageWaits DEF FactorTypeOK
<1> HIDE DEF q
<1>3. tabs' = [s \in Tabs |-> IF s = t THEN q ELSE tabs[s]]
  BY <1>1 DEF FactorTypeOK
<1> QED  BY <1>2, <1>3 DEF FactorTypeOK

\* What it does to the row depends on nothing else.
LEMMA SameRows ==
    ASSUME NEW c, NEW d, SameRequest(c, d)
    PROVE  /\ Saving(d) <=> Saving(c)
           /\ RowAsRead(c) <=> RowAsRead(d)
           /\ Tells(d) = Tells(c)
BY DEF SameRequest, Saving, RowAsRead, Rejected, AsChanged, Tells

\* A request is sent.
LEMMA FactorAsks ==
    ASSUME FactorInv, NEW t \in Tabs, NEW kind \in {"setup", "enable", "disable"}, NEW code, NEW what,
           kind # "enable" \/ code \in app,
           kind = "setup" => tabs[t].enabled = FALSE,
           kind = "disable" => tabs[t].enabled = TRUE,
           kind = "enable" => tabs[t].setup # 0,
           Use(what), Request2FA(t, kind, code)
    PROVE  FactorInv'
<1> DEFINE n == Request(t, kind, code)
<1>1. /\ RequestRecord(n) /\ n.tab = t /\ n.kind = kind /\ n.stage = "asked" /\ n.heard = TRUE
      /\ ~Saving(n)
  <2>1. kind \in {"status", "setup", "enable", "disable"}
    OBVIOUS
  <2>2. RequestRecord(n)
    BY <2>1, NewRequest
  <2>3. n.tab = t /\ n.kind = kind /\ n.stage = "asked" /\ n.heard = TRUE
    BY DEF Request
  <2> HIDE DEF n
  <2> QED  BY <2>2, <2>3 DEF Saving
<1>2. requests' = requests \cup {n} /\ UNCHANGED <<factor, app>> /\ ~tabs[t].loading
      /\ tabs' = [tabs EXCEPT ![t].loading = TRUE]
  BY DEF Request2FA
<1> HIDE DEF n
<1> USE DEF FactorInv
<1>3. PICK left : factorLog' = [left |-> left, stale |-> factorLog.stale, overlap |-> factorLog.overlap]
  <2>1. PICK left : factorLog' = [factorLog EXCEPT !.left = left]
    BY DEF Use
  <2> QED  BY <2>1 DEF FactorTypeOK
<1>4. /\ tabs' = [s \in Tabs |-> tabs'[s]]
      /\ \A s \in Tabs : /\ PageRecord(tabs'[s])
                         /\ tabs'[s].enabled = tabs[s].enabled /\ tabs'[s].setup = tabs[s].setup
                         /\ s # t => tabs'[s].loading = tabs[s].loading
      /\ tabs'[t].loading = TRUE
  BY <1>2, TabWaits
<1>5. \A c \in requests : ~(c.heard /\ c.tab = t)
  <2> SUFFICES ASSUME NEW c \in requests, c.heard, c.tab = t PROVE FALSE
    OBVIOUS
  <2>1. RequestRecord(c) /\ PageRecord(tabs[t])
    BY DEF FactorTypeOK
  <2>2. c.kind = "status"
    BY <1>2, <2>1 DEF OneHeard
  <2>3. tabs[t].enabled = Unknown /\ tabs[t].setup = 0
    BY <2>2 DEF OneHeard
  <2> QED  BY <2>3, UnknownAssumption
<1>6. FactorTypeOK'
  <2>1. \A c : RequestRecord(c)' <=> RequestRecord(c)
    BY <1>2 DEF RequestRecord, Saving
  <2>2. \A c \in requests' : RequestRecord(c)'
    BY <1>1, <1>2, <2>1 DEF FactorTypeOK
  <2>3. \A s \in Tabs : PageRecord(tabs[s])'
    BY <1>4 DEF PageRecord
  <2> QED  BY <1>2, <1>3, <1>4, <2>2, <2>3 DEF FactorTypeOK
<1>7. \A c : RowAsRead(c)' <=> RowAsRead(c)
  BY <1>2 DEF RowAsRead, Rejected, AsChanged
<1>8. OneHolds'
  BY <1>1, <1>2, <1>3, <1>7 DEF OneHolds, Saving
<1>9. OneHeard'
  BY <1>1, <1>2, <1>5, <1>4 DEF OneHeard, FactorTypeOK, RequestRecord
<1>10. ASSUME NEW s \in Tabs \ factorLog'.stale PROVE TabKnows(s)'
  <2>1. TabKnows(s)
    BY <1>3, <1>10
  <2> QED  BY <1>1, <1>2, <1>4, <1>7, <2>1 DEF TabKnows, Saving, Tells
<1> QED  BY <1>2, <1>3, <1>6, <1>8, <1>9, <1>10 DEF NotLockedOut

\* A request goes on, the page as it is.
LEMMA FactorGoesOn ==
    ASSUME FactorInv, NEW c \in requests, NEW d, RequestRecord(d), Pass2FA(c, d),
           d.tab = c.tab, d.kind = c.kind, d.heard = c.heard,
           UNCHANGED <<tabs, app>>
    PROVE  /\ \A e \in requests' : RequestRecord(e)'
           /\ OneHeard'
BY DEF Pass2FA, RequestRecord, Saving, FactorInv, OneHeard, FactorTypeOK

\* A request that is refused, read, compared or saved.
LEMMA RequestEnds ==
    ASSUME NEW c, RequestRecord(c), NEW stage
    PROVE  [c EXCEPT !.stage = stage]
              = [tab |-> c.tab, kind |-> c.kind, code |-> c.code, stage |-> stage, copy |-> c.copy,
                 columns |-> c.columns, heard |-> c.heard]
<1> DEFINE r == [tab |-> c.tab, kind |-> c.kind, code |-> c.code, stage |-> c.stage, copy |-> c.copy,
                 columns |-> c.columns, heard |-> c.heard]
<1>1. c = r
  BY DEF RequestRecord
<1>2. [r EXCEPT !.stage = stage]
              = [tab |-> c.tab, kind |-> c.kind, code |-> c.code, stage |-> stage, copy |-> c.copy,
                 columns |-> c.columns, heard |-> c.heard]
  OBVIOUS
<1> HIDE DEF r
<1> QED  BY <1>1, <1>2

\* What a request is once it has read the row ...
LEMMA RequestReads ==
    ASSUME NEW c, RequestRecord(c), NEW copy, NEW stage
    PROVE  [c EXCEPT !.copy = copy, !.stage = stage]
              = [tab |-> c.tab, kind |-> c.kind, code |-> c.code, stage |-> stage, copy |-> copy,
                 columns |-> c.columns, heard |-> c.heard]
<1> DEFINE r == [tab |-> c.tab, kind |-> c.kind, code |-> c.code, stage |-> c.stage, copy |-> c.copy,
                 columns |-> c.columns, heard |-> c.heard]
           q == [tab |-> c.tab, kind |-> c.kind, code |-> c.code, stage |-> c.stage, copy |-> copy,
                 columns |-> c.columns, heard |-> c.heard]
<1>1. c = r
  BY DEF RequestRecord
<1>2. [r EXCEPT !.copy = copy] = q
  OBVIOUS
<1>3. [q EXCEPT !.stage = stage]
              = [tab |-> c.tab, kind |-> c.kind, code |-> c.code, stage |-> stage, copy |-> copy,
                 columns |-> c.columns, heard |-> c.heard]
  OBVIOUS
<1>4. [c EXCEPT !.copy = copy, !.stage = stage] = [[c EXCEPT !.copy = copy] EXCEPT !.stage = stage]
  OBVIOUS
<1> HIDE DEF r, q
<1> QED  BY <1>1, <1>2, <1>3, <1>4

\* ... and once it has saved it.
LEMMA RequestSaves ==
    ASSUME NEW c, RequestRecord(c), NEW stage, NEW columns
    PROVE  [c EXCEPT !.stage = stage, !.columns = columns]
              = [tab |-> c.tab, kind |-> c.kind, code |-> c.code, stage |-> stage, copy |-> c.copy,
                 columns |-> columns, heard |-> c.heard]
<1> DEFINE r == [tab |-> c.tab, kind |-> c.kind, code |-> c.code, stage |-> c.stage, copy |-> c.copy,
                 columns |-> c.columns, heard |-> c.heard]
           q == [tab |-> c.tab, kind |-> c.kind, code |-> c.code, stage |-> stage, copy |-> c.copy,
                 columns |-> c.columns, heard |-> c.heard]
<1>1. c = r
  BY DEF RequestRecord
<1>2. [r EXCEPT !.stage = stage] = q
  OBVIOUS
<1>3. [q EXCEPT !.columns = columns]
              = [tab |-> c.tab, kind |-> c.kind, code |-> c.code, stage |-> stage, copy |-> c.copy,
                 columns |-> columns, heard |-> c.heard]
  OBVIOUS
<1>4. [c EXCEPT !.stage = stage, !.columns = columns] = [[c EXCEPT !.stage = stage] EXCEPT !.columns = columns]
  OBVIOUS
<1> HIDE DEF r, q
<1> QED  BY <1>1, <1>2, <1>3, <1>4

\* The server reads the user, and refuses, tells, or changes what it read.
LEMMA FactorRead ==
    ASSUME FactorInv, NEW c \in requests, ReadUser(c)
    PROVE  FactorInv'
<1>1. /\ RequestRecord(c) /\ c.stage = "asked" /\ UNCHANGED <<factor, tabs, app>> /\ FactorTypeOK
      /\ ~Saving(c)
  BY DEF ReadUser, FactorInv, FactorTypeOK, Saving
<1>2. \A e : RowAsRead(e)' <=> RowAsRead(e)
  BY <1>1 DEF RowAsRead, Rejected, AsChanged
<1>3. OneHolds /\ OneHeard /\ NotLockedOut /\ \A t \in Tabs \ factorLog.stale : TabKnows(t)
  BY DEF FactorInv
<1>4. CASE Rejected(c)
  <2> DEFINE d == [c EXCEPT !.stage = "refused"]
  <2>1. /\ d = [tab |-> c.tab, kind |-> c.kind, code |-> c.code, stage |-> "refused", copy |-> c.copy,
                columns |-> c.columns, heard |-> c.heard]
        /\ requests' = (requests \ {c}) \cup {d} /\ Pass2FA(c, d) /\ UNCHANGED factorLog
    BY <1>1, <1>4, RequestEnds DEF ReadUser, Pass2FA
  <2> HIDE DEF d
  <2>2. /\ d.tab = c.tab /\ d.kind = c.kind /\ d.code = c.code /\ d.heard = c.heard
        /\ d.stage = "refused" /\ ~Saving(d)
        /\ d = [tab |-> d.tab, kind |-> d.kind, code |-> d.code, stage |-> d.stage, copy |-> d.copy,
                columns |-> d.columns, heard |-> d.heard]
    BY <2>1 DEF Saving
  <2>3. RequestRecord(d)
    BY <1>1, <2>2 DEF RequestRecord
  <2>4. (\A e \in requests' : RequestRecord(e)') /\ OneHeard'
    BY <1>1, <2>1, <2>2, <2>3, FactorGoesOn
  <2>5. FactorTypeOK'
    BY <1>1, <2>1, <2>4 DEF FactorTypeOK, PageRecord
  <2>6. OneHolds'
    BY <1>2, <1>3, <2>1, <2>2 DEF OneHolds, Saving
  <2>7. ASSUME NEW t \in Tabs \ factorLog'.stale PROVE TabKnows(t)'
    <3>1. TabKnows(t)
      BY <1>3, <2>1, <2>7
    <3> QED  BY <1>1, <1>2, <2>1, <2>2, <3>1 DEF TabKnows, Saving, Tells
  <2> QED  BY <1>1, <1>3, <2>1, <2>4, <2>5, <2>6, <2>7 DEF FactorInv, NotLockedOut
<1>5. CASE ~Rejected(c)
  <2> DEFINE stage == IF c.kind = "status" THEN "saved" ELSE "read"
             d == [c EXCEPT !.copy = AsChanged(c), !.stage = stage]
             overlap == factorLog.overlap \/ (c.kind # "status" /\ \E e \in requests : Saving(e))
             stale == IF c.kind = "status" /\ c.heard THEN factorLog.stale \ {c.tab} ELSE factorLog.stale
  <2>1. /\ requests' = (requests \ {c}) \cup {d} /\ Pass2FA(c, d)
        /\ factorLog' = [factorLog EXCEPT !.overlap = overlap, !.stale = stale]
    BY <1>5 DEF ReadUser, Pass2FA
  <2>2. d = [tab |-> c.tab, kind |-> c.kind, code |-> c.code, stage |-> stage, copy |-> AsChanged(c),
             columns |-> c.columns, heard |-> c.heard]
    BY <1>1, RequestReads
  <2>3. overlap \in BOOLEAN /\ stale \subseteq Tabs /\ (factorLog.overlap => overlap)
        /\ (~overlap /\ c.kind # "status" => \A e \in requests : ~Saving(e))
        /\ (c.kind = "status" => (overlap => factorLog.overlap))
        /\ (~(c.kind = "status" /\ c.heard) => stale = factorLog.stale)
        /\ \A t : t \notin stale => t \notin factorLog.stale \/ (t = c.tab /\ c.kind = "status" /\ c.heard)
    BY <1>1 DEF FactorTypeOK
  <2>4. /\ d.tab = c.tab /\ d.kind = c.kind /\ d.code = c.code /\ d.heard = c.heard
        /\ d.stage = stage /\ d.copy = AsChanged(c)
        /\ d = [tab |-> d.tab, kind |-> d.kind, code |-> d.code, stage |-> d.stage, copy |-> d.copy,
                columns |-> d.columns, heard |-> d.heard]
    <3> HIDE DEF d
    <3> QED  BY <2>2
  <2> HIDE DEF d, overlap, stale
  <2>5. factorLog' = [left |-> factorLog.left, stale |-> stale, overlap |-> overlap]
    <3> DEFINE r == [left |-> factorLog.left, stale |-> factorLog.stale, overlap |-> factorLog.overlap]
               q == [left |-> factorLog.left, stale |-> factorLog.stale, overlap |-> overlap]
    <3>1. factorLog = r
      BY <1>1 DEF FactorTypeOK
    <3>2. [r EXCEPT !.overlap = overlap] = q
      OBVIOUS
    <3>3. [q EXCEPT !.stale = stale] = [left |-> factorLog.left, stale |-> stale, overlap |-> overlap]
      OBVIOUS
    <3>4. factorLog' = [[factorLog EXCEPT !.overlap = overlap] EXCEPT !.stale = stale]
      BY <2>1
    <3> HIDE DEF r, q
    <3> QED  BY <3>1, <3>2, <3>3, <3>4
  <2>6. /\ c.kind # "status" => d.stage = "read" /\ RowAsRead(d)
        /\ c.kind = "status" => d.stage = "saved" /\ d.copy = factor /\ ~Saving(d)
    BY <1>5, <2>4 DEF RowAsRead, Rejected, AsChanged, Saving
  <2>7. RequestRecord(d)
    <3>1. AsChanged(c).enabled \in BOOLEAN
      BY <1>1 DEF AsChanged, RequestRecord, FactorTypeOK, Columns
    <3> QED  BY <1>1, <2>4, <2>6, <3>1 DEF RequestRecord, Saving
  <2>8. (\A e \in requests' : RequestRecord(e)') /\ OneHeard'
    BY <1>1, <2>1, <2>4, <2>7, FactorGoesOn
  <2>9. FactorTypeOK'
    BY <1>1, <2>3, <2>5, <2>8 DEF FactorTypeOK, PageRecord
  <2>10. OneHolds'
    <3> SUFFICES ASSUME ~overlap PROVE /\ \A e, f \in requests' : Saving(e) /\ Saving(f) => e = f
                                       /\ \A e \in requests' : Saving(e) => RowAsRead(e)
      BY <1>2, <2>5 DEF OneHolds, Saving
    <3>1. /\ \A e, f \in requests : Saving(e) /\ Saving(f) => e = f
          /\ \A e \in requests : Saving(e) => RowAsRead(e)
      BY <1>3, <2>3 DEF OneHolds
    <3>2. CASE c.kind = "status"
      BY <2>1, <2>6, <3>1, <3>2
    <3>3. CASE c.kind # "status"
      BY <2>1, <2>3, <2>6, <3>3
    <3> QED  BY <3>2, <3>3
  <2>11. ASSUME NEW t \in Tabs \ stale PROVE TabKnows(t)'
    <3>1. CASE t \notin factorLog.stale
      <4>1. TabKnows(t)
        BY <1>3, <3>1
      <4>2. d.stage = "saved" => factor.enabled = Tells(d)
        BY <2>4, <2>6 DEF Tells
      <4>3. \A e \in requests' : e.tab = t /\ e.heard /\ Saving(e) => RowAsRead(e)
        BY <2>1, <2>6, <4>1 DEF TabKnows
      <4>4. \A e \in requests' : e.tab = t /\ e.heard /\ e.stage = "saved" => factor.enabled = Tells(e)
        BY <2>1, <4>1, <4>2 DEF TabKnows
      <4>5. \/ tabs[t].enabled \in {Unknown, factor.enabled}
            \/ \E e \in requests' : e.tab = t /\ e.heard /\ e.stage = "saved" /\ e.kind # "setup"
        BY <1>1, <2>1, <4>1 DEF TabKnows
      <4> QED  BY <1>1, <1>2, <4>3, <4>4, <4>5 DEF TabKnows, Saving, Tells
    <3>2. CASE t = c.tab /\ c.kind = "status" /\ c.heard
      BY <1>3, <2>1, <3>2, <2>4, <2>6, <1>1, <1>2 DEF OneHeard, Tells, TabKnows, Saving
    <3> QED  BY <2>3, <3>1, <3>2
  <2>12. NotLockedOut'
    BY <1>1, <1>3, <2>3, <2>5 DEF NotLockedOut
  <2> QED  BY <2>5, <2>8, <2>9, <2>10, <2>11, <2>12 DEF FactorInv
<1> QED  BY <1>4, <1>5

\* The row is read again, to save the columns that differ.
LEMMA FactorCompared ==
    ASSUME FactorInv, NEW c \in requests, CompareColumns(c)
    PROVE  FactorInv'
<1>1. /\ RequestRecord(c) /\ c.stage = "read" /\ UNCHANGED <<factor, tabs, app, factorLog>> /\ FactorTypeOK
      /\ Saving(c)
  BY DEF CompareColumns, FactorInv, FactorTypeOK, Saving
<1>2. \A e : RowAsRead(e)' <=> RowAsRead(e)
  BY <1>1 DEF RowAsRead, Rejected, AsChanged
<1>3. OneHolds /\ OneHeard /\ NotLockedOut /\ \A t \in Tabs \ factorLog.stale : TabKnows(t)
  BY DEF FactorInv
<1> DEFINE columns == {k \in Columns : factor[k] # c.copy[k]}
           d == [c EXCEPT !.stage = "compared", !.columns = columns]
<1>4. requests' = (requests \ {c}) \cup {d} /\ Pass2FA(c, d)
  BY <1>1 DEF CompareColumns, Pass2FA, FactorTypeOK
<1>5. d = [tab |-> c.tab, kind |-> c.kind, code |-> c.code, stage |-> "compared", copy |-> c.copy,
           columns |-> columns, heard |-> c.heard]
  <2> HIDE DEF columns
  <2> QED  BY <1>1, RequestSaves
<1>6. /\ d.tab = c.tab /\ d.kind = c.kind /\ d.code = c.code /\ d.heard = c.heard
      /\ d.stage = "compared" /\ d.copy = c.copy /\ d.columns = columns
      /\ d = [tab |-> d.tab, kind |-> d.kind, code |-> d.code, stage |-> d.stage, copy |-> d.copy,
              columns |-> d.columns, heard |-> d.heard]
  <2> HIDE DEF d, columns
  <2> QED  BY <1>5
<1> HIDE DEF d
<1>7. (RowAsRead(c) => RowAsRead(d)) /\ Saving(d)
  BY <1>6 DEF RowAsRead, Rejected, AsChanged, Saving
<1> HIDE DEF columns
<1>8. RequestRecord(d)
  BY <1>1, <1>6 DEF RequestRecord, Saving
<1>9. (\A e \in requests' : RequestRecord(e)') /\ OneHeard'
  BY <1>1, <1>4, <1>6, <1>8, FactorGoesOn
<1>10. FactorTypeOK'
  BY <1>1, <1>9 DEF FactorTypeOK, PageRecord
<1>11. OneHolds'
  BY <1>1, <1>3, <1>4, <1>7, <1>2 DEF OneHolds, Saving
<1>12. ASSUME NEW t \in Tabs \ factorLog.stale PROVE TabKnows(t)'
  <2>1. TabKnows(t)
    BY <1>3
  <2>2. \A e \in requests' : e.tab = t /\ e.heard /\ Saving(e) => RowAsRead(e)
    BY <1>1, <1>4, <1>6, <1>7, <2>1 DEF TabKnows
  <2>3. \A e \in requests' : e.tab = t /\ e.heard /\ e.stage = "saved" => factor.enabled = Tells(e)
    BY <1>4, <1>6, <2>1 DEF TabKnows
  <2>4. \/ tabs[t].enabled \in {Unknown, factor.enabled}
        \/ \E e \in requests' : e.tab = t /\ e.heard /\ e.stage = "saved" /\ e.kind # "setup"
    BY <1>1, <1>4, <2>1 DEF TabKnows
  <2> QED  BY <1>1, <1>2, <2>2, <2>3, <2>4 DEF TabKnows, Saving, Tells
<1> QED  BY <1>1, <1>3, <1>9, <1>10, <1>11, <1>12 DEF FactorInv, NotLockedOut

\* The UPDATE of the columns: other tabs, and one that does not wait, show what was before.
LEMMA FactorWritten ==
    ASSUME FactorInv, NEW c \in requests, WriteColumns(c)
    PROVE  FactorInv'
<1>1. /\ RequestRecord(c) /\ c.stage = "compared" /\ UNCHANGED <<tabs, app>> /\ FactorTypeOK
      /\ Saving(c) /\ c.kind \in {"setup", "enable", "disable"} /\ c.tab \in Tabs
  BY DEF WriteColumns, FactorInv, FactorTypeOK, Saving, RequestRecord
<1>3. OneHolds /\ OneHeard /\ NotLockedOut /\ \A t \in Tabs \ factorLog.stale : TabKnows(t)
  BY DEF FactorInv
<1> DEFINE d == [c EXCEPT !.stage = "saved", !.columns = {}]
           stale == factorLog.stale \cup {t \in Tabs : t # c.tab \/ ~c.heard}
<1>4. requests' = (requests \ {c}) \cup {d} /\ Pass2FA(c, d)
  BY <1>1 DEF WriteColumns, Pass2FA
<1>5. d = [tab |-> c.tab, kind |-> c.kind, code |-> c.code, stage |-> "saved", copy |-> c.copy,
           columns |-> {}, heard |-> c.heard]
  BY <1>1, RequestSaves
<1>6. /\ d.tab = c.tab /\ d.kind = c.kind /\ d.code = c.code /\ d.heard = c.heard
      /\ d.stage = "saved" /\ d.copy = c.copy /\ ~Saving(d)
      /\ d = [tab |-> d.tab, kind |-> d.kind, code |-> d.code, stage |-> d.stage, copy |-> d.copy,
              columns |-> d.columns, heard |-> d.heard]
  <2> HIDE DEF d
  <2> QED  BY <1>5 DEF Saving
<1> HIDE DEF d
<1>7. factorLog' = [left |-> factorLog.left, stale |-> stale, overlap |-> factorLog.overlap]
  BY <1>1 DEF WriteColumns, FactorTypeOK
<1>8. /\ stale \subseteq Tabs /\ factorLog.stale \subseteq stale
      /\ \A t \in Tabs : t \notin stale => t = c.tab /\ c.heard
  BY <1>1 DEF FactorTypeOK
<1> HIDE DEF stale
<1>9. RequestRecord(d)
  BY <1>1, <1>6 DEF RequestRecord, Saving
<1>10. (\A e \in requests' : RequestRecord(e)') /\ OneHeard'
  BY <1>1, <1>4, <1>6, <1>9, FactorGoesOn
<1>11. /\ DOMAIN factor' = Columns /\ factor' = [k \in Columns |-> factor'[k]]
       /\ \A k \in Columns : factor'[k] = IF k \in c.columns THEN c.copy[k] ELSE factor[k]
  BY <1>1 DEF WriteColumns, FactorTypeOK
<1>12. RowAsRead(c) => /\ factor'.enabled = c.copy.enabled /\ factor'.secret = c.copy.secret
                       /\ factor'.enabled = Tells(c)
                       /\ c.kind = "enable" => factor'.secret \in app
  <2> SUFFICES ASSUME RowAsRead(c) PROVE /\ factor'.enabled = c.copy.enabled /\ factor'.secret = c.copy.secret
                                         /\ factor'.enabled = Tells(c)
                                         /\ c.kind = "enable" => factor'.secret \in app
    OBVIOUS
  <2>1. /\ factor'.enabled = c.copy.enabled /\ factor'.secret = c.copy.secret
    BY <1>1, <1>11 DEF RowAsRead, Columns
  <2>2. CASE c.kind = "setup"
    <3>1. c.copy = [secret |-> c.code, enabled |-> FALSE]
      BY <2>2 DEF RowAsRead, AsChanged
    <3>2. c.copy.enabled = FALSE
      BY <3>1
    <3>3. Tells(c) = FALSE
      BY <2>2 DEF Tells
    <3> QED  BY <2>1, <2>2, <3>2, <3>3
  <2>3. CASE c.kind = "disable"
    <3>1. c.copy = [secret |-> 0, enabled |-> FALSE]
      BY <2>3 DEF RowAsRead, AsChanged
    <3>2. c.copy.enabled = FALSE
      BY <3>1
    <3>3. Tells(c) = FALSE
      BY <2>3 DEF Tells
    <3> QED  BY <2>1, <2>3, <3>2, <3>3
  <2>4. CASE c.kind = "enable"
    <3>1. c.copy = [factor EXCEPT !.enabled = TRUE] /\ c.code = factor.secret /\ c.code \in app
      BY <1>1, <2>4 DEF RowAsRead, AsChanged, Rejected, RequestRecord
    <3>2. c.copy.enabled = TRUE /\ c.copy.secret = factor.secret
      BY <1>1, <3>1 DEF FactorTypeOK, Columns
    <3>3. Tells(c) = TRUE
      BY <2>4 DEF Tells
    <3> QED  BY <2>1, <3>1, <3>2, <3>3
  <2> QED  BY <1>1, <2>2, <2>3, <2>4
<1>13. factor'.enabled \in BOOLEAN
  BY <1>1, <1>11 DEF FactorTypeOK, RequestRecord, Columns
<1>14. FactorTypeOK'
  BY <1>1, <1>7, <1>8, <1>10, <1>11, <1>13 DEF FactorTypeOK, PageRecord
<1>15. OneHolds'
  BY <1>1, <1>3, <1>4, <1>6, <1>7 DEF OneHolds, Saving
<1>16. ASSUME NEW t \in Tabs \ stale PROVE TabKnows(t)'
  <2>1. t = c.tab /\ c.heard /\ TabKnows(t)
    BY <1>3, <1>8, <1>16
  <2>2. \A e \in requests' : e.tab = t /\ e.heard => e = d
    BY <1>3, <1>4, <2>1 DEF OneHeard
  <2>3. RowAsRead(c)
    BY <1>1, <2>1 DEF TabKnows
  <2>4. factor'.enabled = Tells(d) /\ (c.kind = "setup" => Tells(d) = FALSE)
    BY <1>1, <1>6, <1>12, <2>3 DEF Tells
  <2>5. \/ tabs[t].enabled \in {Unknown, factor'.enabled}
        \/ \E e \in requests' : e.tab = t /\ e.heard /\ e.stage = "saved" /\ e.kind # "setup"
    BY <1>3, <2>1, <2>4, <1>4, <1>6 DEF OneHeard
  <2>6. \A e \in requests' : e.tab = t /\ e.heard => ~Saving(e) /\ factor'.enabled = Tells(e)
    BY <1>6, <2>2, <2>4
  <2> QED  BY <1>1, <2>5, <2>6 DEF TabKnows, Saving, Tells
<1>17. NotLockedOut'
  <2> SUFFICES ASSUME factor'.enabled, ~factorLog.overlap PROVE factor'.secret \in app
    BY <1>1, <1>7 DEF NotLockedOut
  <2>1. RowAsRead(c)
    BY <1>1, <1>3 DEF OneHolds
  <2>2. c.kind = "enable"
    BY <1>1, <1>12, <2>1 DEF Tells
  <2> QED  BY <1>12, <2>1, <2>2
<1> QED  BY <1>7, <1>10, <1>14, <1>15, <1>16, <1>17 DEF FactorInv

\* The tab waits no more: its request leaves, or goes on unheard.
LEMMA TabEnds ==
    ASSUME FactorInv, NEW c \in requests, c.heard,
           NEW d, SameRequest(c, d), d.heard = FALSE, NEW D \in SUBSET {d},
           requests' = (requests \ {c}) \cup D,
           UNCHANGED factor, app \subseteq app',
           tabs' = [s \in Tabs |-> tabs'[s]],
           \A s \in Tabs : s # c.tab => tabs'[s] = tabs[s],
           PageRecord(tabs'[c.tab]),
           NEW left, NEW stale \in SUBSET Tabs, factorLog.stale \subseteq stale,
           factorLog' = [left |-> left, stale |-> stale, overlap |-> factorLog.overlap],
           c.tab \notin stale => tabs'[c.tab].enabled \in {Unknown, factor.enabled}
    PROVE  FactorInv'
<1>1. FactorTypeOK /\ OneHolds /\ OneHeard /\ NotLockedOut /\ \A s \in Tabs \ factorLog.stale : TabKnows(s)
  BY DEF FactorInv
<1>2. \A e : RowAsRead(e)' <=> RowAsRead(e)
  BY DEF RowAsRead, Rejected, AsChanged
<1>3. /\ d.tab = c.tab /\ RequestRecord(d) /\ (Saving(d) <=> Saving(c)) /\ (RowAsRead(c) <=> RowAsRead(d))
  BY SameRows DEF SameRequest
<1>4. \A e \in requests' : RequestRecord(e)'
  BY <1>1, <1>3 DEF FactorTypeOK, RequestRecord, Saving
<1>5. FactorTypeOK'
  BY <1>1, <1>4 DEF FactorTypeOK, PageRecord
<1>6. OneHolds'
  <2> SUFFICES ASSUME ~factorLog.overlap
               PROVE  /\ \A e, f \in requests' : Saving(e) /\ Saving(f) => e = f
                      /\ \A e \in requests' : Saving(e) => RowAsRead(e)
    BY <1>2 DEF OneHolds, Saving
  <2>1. /\ \A e, f \in requests : Saving(e) /\ Saving(f) => e = f
        /\ \A e \in requests : Saving(e) => RowAsRead(e)
    BY <1>1 DEF OneHolds
  <2> QED  BY <1>3, <2>1
<1>7. \A e \in requests' : e.heard => e \in requests /\ e # c /\ e.tab # c.tab
  BY <1>1 DEF OneHeard
<1>8. OneHeard'
  BY <1>4, <1>1, <1>7 DEF RequestRecord, OneHeard
<1>9. ASSUME NEW s \in Tabs \ stale PROVE TabKnows(s)'
  <2>1. TabKnows(s)
    BY <1>1, <1>9
  <2>2. CASE s = c.tab
    BY <1>7, <2>2 DEF TabKnows
  <2>3. CASE s # c.tab
    BY <2>3, <1>7, <1>2, <2>1 DEF TabKnows, Saving, Tells
  <2> QED  BY <2>2, <2>3
<1>10. NotLockedOut'
  BY <1>1 DEF NotLockedOut
<1> QED  BY <1>5, <1>6, <1>8, <1>9, <1>10 DEF FactorInv

\* A page with what an answer tells.
LEMMA PageShows ==
    ASSUME NEW p, PageRecord(p), NEW e \in BOOLEAN \cup {Unknown}, NEW s, NEW h \in BOOLEAN
    PROVE  LET q == [p EXCEPT !.enabled = e, !.setup = s, !.loading = h]
           IN  PageRecord(q) /\ q.enabled = e
<1> DEFINE r == [enabled |-> p.enabled, setup |-> p.setup, loading |-> p.loading]
           r1 == [enabled |-> e, setup |-> p.setup, loading |-> p.loading]
           r2 == [enabled |-> e, setup |-> s, loading |-> p.loading]
           r3 == [enabled |-> e, setup |-> s, loading |-> h]
           q == [p EXCEPT !.enabled = e, !.setup = s, !.loading = h]
<1>1. p = r
  BY DEF PageRecord
<1>2. [r EXCEPT !.enabled = e] = r1
  OBVIOUS
<1>3. [r1 EXCEPT !.setup = s] = r2
  OBVIOUS
<1>4. [r2 EXCEPT !.loading = h] = r3
  OBVIOUS
<1>5. q = [[[p EXCEPT !.enabled = e] EXCEPT !.setup = s] EXCEPT !.loading = h]
  OBVIOUS
<1>6. PageRecord(r3) /\ r3.enabled = e
  BY DEF PageRecord
<1> HIDE DEF q, r, r1, r2, r3
<1>7. q = r3
  BY <1>1, <1>2, <1>3, <1>4, <1>5
<1> QED  BY <1>6, <1>7 DEF q

\* What a page shows once an answer arrived.
LEMMA PageTold ==
    ASSUME NEW c, RequestRecord(c), c.stage = "saved", NEW p, PageRecord(p),
           c.kind = "setup" => p.enabled = FALSE
    PROVE  PageRecord(Show2FA(p, c)) /\ Show2FA(p, c).enabled = Tells(c)
<1> DEFINE With(e, s, h) == [p EXCEPT !.enabled = e, !.setup = s, !.loading = h]
<1>1. /\ \A e : [p EXCEPT !.enabled = e] = With(e, p.setup, p.loading)
      /\ \A s, h : [p EXCEPT !.setup = s, !.loading = h] = With(p.enabled, s, h)
      /\ \A e, h : [p EXCEPT !.enabled = e, !.loading = h] = With(e, p.setup, h)
  BY DEF PageRecord
<1>2. \A e \in BOOLEAN \cup {Unknown} : \A s : \A h \in BOOLEAN :
          PageRecord(With(e, s, h)) /\ With(e, s, h).enabled = e
  BY PageShows
<1>3. p.enabled \in BOOLEAN \cup {Unknown} /\ p.loading \in BOOLEAN /\ c.copy.enabled \in BOOLEAN
  BY DEF PageRecord, RequestRecord
<1> HIDE DEF With
<1>4. CASE c.kind = "status"
  <2>1. Show2FA(p, c) = With(c.copy.enabled, p.setup, p.loading) /\ Tells(c) = c.copy.enabled
    BY <1>1, <1>4 DEF Show2FA, Tells
  <2> QED  BY <1>2, <1>3, <2>1
<1>5. CASE c.kind = "setup"
  <2>1. Show2FA(p, c) = With(p.enabled, c.copy.secret, FALSE) /\ Tells(c) = FALSE
    BY <1>1, <1>5 DEF Show2FA, Tells, With
  <2>2. FALSE \in BOOLEAN /\ p.enabled = FALSE
    BY <1>5
  <2>3. PageRecord(With(p.enabled, c.copy.secret, FALSE)) /\ With(p.enabled, c.copy.secret, FALSE).enabled = p.enabled
    BY <1>2, <1>3, <2>2
  <2> QED  BY <2>1, <2>2, <2>3
<1>6. CASE c.kind = "enable"
  BY <1>6, <1>2 DEF Show2FA, Tells, With
<1>7. CASE c.kind = "disable"
  <2>1. Show2FA(p, c) = With(FALSE, p.setup, FALSE) /\ Tells(c) = FALSE
    BY <1>1, <1>7 DEF Show2FA, Tells
  <2> QED  BY <1>2, <2>1
<1> QED  BY <1>4, <1>5, <1>6, <1>7 DEF RequestRecord

\* The answer comes, and the page shows what it tells.
LEMMA FactorArrives ==
    ASSUME FactorInv, NEW c \in requests, ArriveFactor(c)
    PROVE  FactorInv'
<1>1. FactorTypeOK /\ OneHeard /\ \A s \in Tabs \ factorLog.stale : TabKnows(s)
  BY DEF FactorInv
<1>2. RequestRecord(c) /\ c.stage = "saved" /\ c.heard /\ c.tab \in Tabs
  BY <1>1 DEF ArriveFactor, FactorTypeOK, RequestRecord
<1> DEFINE q == Show2FA(tabs[c.tab], c)
<1>3. /\ requests' = (requests \ {c}) \cup {} /\ UNCHANGED <<factor, factorLog>> /\ app \subseteq app'
      /\ tabs' = [tabs EXCEPT ![c.tab] = q]
  BY DEF ArriveFactor
<1>4. PageRecord(q) /\ q.enabled = Tells(c)
  BY <1>1, <1>2, PageTold DEF FactorTypeOK, OneHeard
<1> HIDE DEF q
<1>5. /\ tabs' = [s \in Tabs |-> tabs'[s]] /\ \A s \in Tabs : s # c.tab => tabs'[s] = tabs[s]
      /\ tabs'[c.tab] = q
  BY <1>1, <1>3, <1>2 DEF FactorTypeOK
<1>6. c.tab \notin factorLog.stale => q.enabled = factor.enabled
  BY <1>1, <1>2, <1>4 DEF TabKnows
<1>7. factorLog' = [left |-> factorLog.left, stale |-> factorLog.stale, overlap |-> factorLog.overlap]
      /\ factorLog.stale \in SUBSET Tabs
  BY <1>1, <1>3 DEF FactorTypeOK
<1> DEFINE d == [c EXCEPT !.heard = FALSE]
<1>8. SameRequest(c, d) /\ d.heard = FALSE
  BY <1>2, Unheard
<1> HIDE DEF d
<1>9. {} \in SUBSET {d} /\ (c.tab \notin factorLog.stale => tabs'[c.tab].enabled \in {Unknown, factor.enabled})
  BY <1>5, <1>6
<1>10. PageRecord(tabs'[c.tab]) /\ UNCHANGED factor
  BY <1>3, <1>4, <1>5
<1> QED  BY <1>2, <1>3, <1>5, <1>7, <1>8, <1>9, <1>10, TabEnds

\* A refusal, or an error instead of the answer.
LEMMA FactorFails ==
    ASSUME FactorInv, NEW c \in requests, ArriveRefusal(c) \/ BreakOff(c)
    PROVE  FactorInv'
<1>1. FactorTypeOK /\ OneHeard /\ \A s \in Tabs \ factorLog.stale : TabKnows(s)
  BY DEF FactorInv
<1>2. RequestRecord(c) /\ c.heard /\ c.tab \in Tabs /\ UNCHANGED <<factor, app>>
      /\ tabs' = [tabs EXCEPT ![c.tab].loading = FALSE]
  BY <1>1 DEF ArriveRefusal, BreakOff, FactorTypeOK, RequestRecord
<1> DEFINE d == [c EXCEPT !.heard = FALSE]
<1>3. SameRequest(c, d) /\ d.heard = FALSE
  BY <1>2, Unheard
<1>4. FALSE \in BOOLEAN
  OBVIOUS
<1>5. /\ tabs' = [s \in Tabs |-> tabs'[s]]
      /\ PageRecord(tabs'[c.tab]) /\ tabs'[c.tab].enabled = tabs[c.tab].enabled
      /\ \A s \in Tabs : s # c.tab => tabs'[s] = tabs[s]
  BY <1>1, <1>2, <1>4, TabWaits DEF FactorTypeOK
<1>6. c.tab \notin factorLog.stale /\ c.stage # "saved" => tabs[c.tab].enabled \in {Unknown, factor.enabled}
  <2> SUFFICES ASSUME c.tab \notin factorLog.stale, c.stage # "saved"
               PROVE  tabs[c.tab].enabled \in {Unknown, factor.enabled}
    OBVIOUS
  <2>1. \A e \in requests : e.tab = c.tab /\ e.heard => e = c
    BY <1>1, <1>2 DEF OneHeard
  <2> QED  BY <1>1, <1>2, <2>1 DEF TabKnows
<1>7. CASE ArriveRefusal(c)
  <2>1. c.stage # "saved" /\ requests' = (requests \ {c}) \cup {} /\ UNCHANGED factorLog
    BY <1>7 DEF ArriveRefusal
  <2>2. factorLog' = [left |-> factorLog.left, stale |-> factorLog.stale, overlap |-> factorLog.overlap]
        /\ factorLog.stale \in SUBSET Tabs
    BY <1>1, <2>1 DEF FactorTypeOK
  <2> HIDE DEF d
  <2>3. {} \in SUBSET {d} /\ app \subseteq app'
        /\ (c.tab \notin factorLog.stale => tabs'[c.tab].enabled \in {Unknown, factor.enabled})
    BY <1>2, <1>5, <1>6, <2>1
  <2> QED  BY <1>2, <1>3, <1>5, <2>1, <2>2, <2>3, TabEnds
<1>8. CASE BreakOff(c)
  <2> DEFINE stale == IF c.stage = "saved" THEN factorLog.stale \cup {c.tab} ELSE factorLog.stale
  <2>1. requests' = (requests \ {c}) \cup {d} /\ {d} \in SUBSET {d}
    BY <1>8 DEF BreakOff, Pass2FA
  <2>2. stale \in SUBSET Tabs /\ factorLog.stale \subseteq stale
        /\ (c.tab \notin stale => c.tab \notin factorLog.stale /\ c.stage # "saved")
    BY <1>1, <1>2 DEF FactorTypeOK
  <2>3. PICK left : factorLog' = [factorLog EXCEPT !.left = left, !.stale = stale]
    BY <1>8 DEF BreakOff
  <2> HIDE DEF stale
  <2>4. factorLog' = [left |-> left, stale |-> stale, overlap |-> factorLog.overlap]
    BY <1>1, <2>3 DEF FactorTypeOK
  <2> HIDE DEF d
  <2> QED  BY <1>2, <1>3, <1>5, <1>6, <2>1, <2>2, <2>4, TabEnds
<1> QED  BY <1>7, <1>8

\* What nobody waits for ends.
LEMMA FactorForgotten ==
    ASSUME FactorInv, NEW c \in requests, Forget(c)
    PROVE  FactorInv'
<1>1. FactorTypeOK /\ OneHolds /\ OneHeard /\ NotLockedOut /\ \A s \in Tabs \ factorLog.stale : TabKnows(s)
  BY DEF FactorInv
<1>2. ~c.heard /\ requests' = requests \ {c} /\ UNCHANGED <<factor, tabs, app, factorLog>>
  BY DEF Forget
<1>3. \A e : (RowAsRead(e)' <=> RowAsRead(e)) /\ (RequestRecord(e)' <=> RequestRecord(e))
  BY <1>2 DEF RowAsRead, Rejected, AsChanged, RequestRecord, Saving
<1>4. FactorTypeOK'
  BY <1>1, <1>2, <1>3 DEF FactorTypeOK, PageRecord
<1>5. OneHolds' /\ OneHeard'
  BY <1>1, <1>2, <1>3 DEF OneHolds, OneHeard, Saving
<1>6. ASSUME NEW s \in Tabs \ factorLog.stale PROVE TabKnows(s)'
  <2>1. TabKnows(s)
    BY <1>1
  <2>2. \A e : e \in requests' => e \in requests
    BY <1>2
  <2>3. \A e \in requests : e.heard => e \in requests'
    BY <1>2
  <2> QED  BY <1>2, <1>3, <2>1, <2>2, <2>3 DEF TabKnows, Saving, Tells
<1> QED  BY <1>1, <1>2, <1>4, <1>5, <1>6 DEF FactorInv, NotLockedOut

\* The page is opened again: what it waited for goes on unheard.
LEMMA FactorReopens ==
    ASSUME FactorInv, NEW t \in Tabs, OpenPage(t)
    PROVE  FactorInv'
<1>1. FactorTypeOK /\ OneHolds /\ OneHeard /\ NotLockedOut /\ \A s \in Tabs \ factorLog.stale : TabKnows(s)
  BY DEF FactorInv
<1> DEFINE n == Request(t, "status", 0)
           O(c) == IF c.tab = t THEN [c EXCEPT !.heard = FALSE] ELSE c
<1>2. RequestRecord(n)
  BY NewRequest
<1>3. n.tab = t /\ n.kind = "status" /\ n.stage = "asked" /\ ~Saving(n)
  BY DEF Request, Saving
<1>4. /\ requests' = {O(c) : c \in requests} \cup {n} /\ UNCHANGED <<factor, app>>
      /\ tabs' = [tabs EXCEPT ![t] = Page0]
  BY DEF OpenPage
<1>5. ASSUME NEW c \in requests
      PROVE  /\ SameRequest(c, O(c)) /\ (O(c).tab = t => ~O(c).heard) /\ (c.tab # t => O(c) = c)
  BY <1>1, Unheard DEF FactorTypeOK
<1>6. PICK left : factorLog' = [left |-> left, stale |-> factorLog.stale, overlap |-> factorLog.overlap]
  <2>1. PICK left : factorLog' = [factorLog EXCEPT !.left = left]
    BY DEF OpenPage, Use
  <2> QED  BY <1>1, <2>1 DEF FactorTypeOK
<1> HIDE DEF n, O
<1>7. /\ tabs' = [s \in Tabs |-> tabs'[s]] /\ tabs'[t] = Page0
      /\ \A s \in Tabs : s # t => tabs'[s] = tabs[s]
  BY <1>1, <1>4 DEF FactorTypeOK
<1>8. PageRecord(Page0) /\ Page0.enabled = Unknown /\ Page0.setup = 0
  BY NewPage
<1>9. \A e : (RowAsRead(e)' <=> RowAsRead(e)) /\ (RequestRecord(e)' <=> RequestRecord(e))
  BY <1>4 DEF RowAsRead, Rejected, AsChanged, RequestRecord, Saving
<1>10. \A e \in requests' : RequestRecord(e)
  BY <1>2, <1>4, <1>5 DEF SameRequest
<1>11. FactorTypeOK'
  BY <1>1, <1>7, <1>8, <1>4, <1>6, <1>9, <1>10 DEF FactorTypeOK, PageRecord
<1>12. OneHolds'
  <2> SUFFICES ASSUME ~factorLog.overlap
               PROVE  /\ \A e, f \in requests' : Saving(e) /\ Saving(f) => e = f
                      /\ \A e \in requests' : Saving(e) => RowAsRead(e)
    BY <1>6, <1>9 DEF OneHolds, Saving
  <2>1. /\ \A e, f \in requests : Saving(e) /\ Saving(f) => e = f
        /\ \A e \in requests : Saving(e) => RowAsRead(e)
    BY <1>1 DEF OneHolds
  <2>2. \A c \in requests : (Saving(O(c)) <=> Saving(c)) /\ (RowAsRead(c) <=> RowAsRead(O(c)))
    BY <1>5, SameRows
  <2> QED  BY <1>3, <1>4, <2>1, <2>2
<1>13. \A e \in requests' : /\ e.heard /\ e.tab = t => e = n
                            /\ e.tab # t => e \in requests
  BY <1>3, <1>4, <1>5 DEF SameRequest
<1>14. OneHeard'
  <2>1. \A e \in requests' : e.tab \in Tabs
    BY <1>10 DEF RequestRecord
  <2>2. \A e, f \in requests' : e.heard /\ f.heard /\ e.tab = f.tab => e = f
    BY <1>1, <1>13 DEF OneHeard
  <2>3. \A e \in requests' : e.heard /\ e.tab = t => e.kind = "status"
    BY <1>3, <1>13
  <2>4. \A e \in requests' : e.heard /\ e.tab # t =>
           /\ e.kind # "status" => tabs'[e.tab].loading = TRUE
           /\ e.kind = "status" => tabs'[e.tab].enabled = Unknown /\ tabs'[e.tab].setup = 0
           /\ e.kind = "setup" => tabs'[e.tab].enabled = FALSE
    BY <1>1, <1>7, <1>13, <2>1 DEF OneHeard
  <2>5. \A e \in requests' : e.heard /\ e.kind # "status" => tabs'[e.tab].loading = TRUE
    BY <2>3, <2>4
  <2>6. \A e \in requests' : e.heard /\ e.kind = "status" => tabs'[e.tab].enabled = Unknown /\ tabs'[e.tab].setup = 0
    BY <1>7, <1>8, <2>4
  <2>7. \A e \in requests' : e.heard /\ e.kind = "setup" => tabs'[e.tab].enabled = FALSE
    BY <2>3, <2>4
  <2> QED  BY <2>2, <2>5, <2>6, <2>7 DEF OneHeard
<1>15. ASSUME NEW s \in Tabs \ factorLog.stale PROVE TabKnows(s)'
  <2>1. CASE s = t
    BY <1>3, <1>13, <2>1, <1>7, <1>8, <1>9 DEF TabKnows, Saving
  <2>2. CASE s # t
    <3>1. TabKnows(s)
      BY <1>1, <1>15
    <3>2. \A e \in requests' : e.tab = s => e \in requests
      BY <1>13, <2>2
    <3>3. \A e \in requests : e.tab = s => e \in requests'
      BY <1>4, <1>5, <2>2
    <3> QED  BY <1>4, <1>7, <1>9, <2>2, <3>1, <3>2, <3>3 DEF TabKnows, Saving, Tells
  <2> QED  BY <2>1, <2>2
<1>16. NotLockedOut'
  BY <1>1, <1>4, <1>6 DEF NotLockedOut
<1> QED  BY <1>6, <1>11, <1>12, <1>14, <1>15, <1>16 DEF FactorInv

\* Every step of the page and of the server keeps the invariant.
LEMMA SecuritySteps ==
    ASSUME FactorInv, [FactorNext]_factorVars
    PROVE  FactorInv'
<1>1. CASE UNCHANGED factorVars
  <2>1. UNCHANGED <<factor, tabs, app, requests, factorLog>>
    BY <1>1 DEF factorVars
  <2>2. \A c : /\ RowAsRead(c)' <=> RowAsRead(c)
               /\ RequestRecord(c)' <=> RequestRecord(c)
    BY <2>1 DEF RowAsRead, Rejected, AsChanged, Saving, RequestRecord
  <2>3. FactorTypeOK'
    BY <2>1, <2>2 DEF FactorInv, FactorTypeOK, PageRecord
  <2>4. OneHolds' /\ OneHeard' /\ NotLockedOut'
    BY <2>1, <2>2 DEF FactorInv, OneHolds, OneHeard, NotLockedOut, Saving
  <2>5. ASSUME NEW t \in Tabs \ factorLog.stale PROVE TabKnows(t)'
    BY <2>1, <2>2 DEF FactorInv, TabKnows, Saving, Tells
  <2> QED  BY <2>1, <2>3, <2>4, <2>5 DEF FactorInv
<1>2. ASSUME NEW t \in Tabs, StartSetup(t) PROVE FactorInv'
  BY <1>2, FactorAsks DEF StartSetup
<1>3. ASSUME NEW t \in Tabs, NEW code \in app, ConfirmSetup(t, code) PROVE FactorInv'
  BY <1>3, FactorAsks DEF ConfirmSetup
<1>4. ASSUME NEW t \in Tabs, NEW code \in app, DisableFactor(t, code) PROVE FactorInv'
  BY <1>4, FactorAsks DEF DisableFactor
<1> QED  BY <1>1, <1>2, <1>3, <1>4, FactorReopens, FactorRead, FactorCompared, FactorWritten,
            FactorArrives, FactorFails, FactorForgotten DEF FactorNext

\* What the page promises follows.
LEMMA SecurityPromises ==
    ASSUME FactorInv
    PROVE  NotLockedOut /\ FactorIsTold
<1>1. FactorIsTold
  <2> SUFFICES ASSUME NEW t \in Tabs \ factorLog.stale, tabs[t].enabled # Unknown,
                      \A c \in requests : c.tab # t
               PROVE  tabs[t].enabled = factor.enabled
    BY DEF FactorIsTold
  <2> QED  BY DEF FactorInv, TabKnows
<1> QED  BY <1>1 DEF FactorInv

-----------------------------------------------------------------------------
(* The overview of a client *)

\* The accounts of the client are finitely many, and the source of a top-up is another one.
LEMMA PursesFinite == IsFiniteSet(Purses)
<1> DEFINE n == Len(PurseList)
<1>1. PurseList \in Seq(Purses) /\ n \in Nat /\ DOMAIN PurseList = 1..n
  BY HomeAssumption
<1>2. IsFiniteSet(1..n)
  BY <1>1, FS_Interval
<1>3. PurseList \in Surjection(1..n, Purses)
  BY <1>1 DEF Purses, ToSet, Surjection
<1> HIDE DEF n
<1> QED  BY <1>2, <1>3, FS_Surjection

\* The account debited is not the one topped up.
LEMMA SourceIsOther ==
    ASSUME HomeTypeOK, TopUpSource # NoPurse
    PROVE  TopUpSource \in Purses /\ TopUpSource # home.selected
<1>1. CASE home.source # NoPurse
  BY <1>1 DEF TopUpSource, HomeTypeOK
<1>2. CASE home.source = NoPurse
  <2>1. SourceOptions # {} /\ TopUpSource = PurseList[Min(SourceOptions)]
    BY <1>2 DEF TopUpSource
  <2>2. SourceOptions \in SUBSET Nat
    BY HomeAssumption DEF SourceOptions
  <2>3. PICK i \in SourceOptions : \A j \in SourceOptions : i <= j
    BY <2>1, <2>2, LeastNatural
  <2>4. Min(SourceOptions) \in SourceOptions
    BY <2>3 DEF Min
  <2> QED  BY <2>1, <2>4, HomeAssumption DEF SourceOptions
<1> QED  BY <1>1, <1>2

\* The page opens.
LEMMA HomeOpens ==
    ASSUME HomeInit
    PROVE  HomeInv
<1> DEFINE n == Requested("accounts", NoPurse, FALSE)
           f == [a \in Purses |-> purse[a].lines]
<1>1. /\ DOMAIN n = LoadFields /\ n.kind = "accounts" /\ n.stage = "sent" /\ ~n.after
  BY DEF Requested, LoadFields
<1>2. homeLine = {n}
  BY DEF HomeInit
<1>3. /\ DOMAIN home = HomeFields /\ home.selected = NoPurse /\ home.source = NoPurse /\ ~home.open
      /\ home.amount = 0 /\ home.accounts = NoPurse
  BY DEF HomeInit, HomeFields
<1>4. DOMAIN homeLog = HomeLogFields /\ homeLog.told = 0 /\ homeLog.untold = 0
  <2>1. PICK b \in HomeBounds :
           homeLog = [left |-> b, told |-> 0, untold |-> 0, elsewhere |-> FALSE, unloaded |-> FALSE,
                      strayed |-> FALSE, crossed |-> FALSE, unlisted |-> FALSE]
    BY DEF HomeInit
  <2> QED  BY <2>1 DEF HomeLogFields
<1>5. purse = [a \in Purses |-> [balance |-> 1, lines |-> 0]]
  BY DEF HomeInit
<1>6. purse \in [Purses -> [balance : Nat, lines : Nat]] /\ \A a \in Purses : f[a] = 0
  BY <1>5
<1> HIDE DEF n, f
<1>7. HomeTypeOK
  BY <1>1, <1>2, <1>3, <1>4, <1>6, HomeAssumption DEF HomeTypeOK, LoadOK
<1>8. OneAfter(homeLine) /\ FirstLoad(homeLine) /\ AnswersCurrent(homeLine, purse) /\ ~Executed(homeLine)
  BY <1>1, <1>2, <1>3 DEF OneAfter, FirstLoad, AnswersCurrent, Executed
<1>9. TopUpCount
  BY <1>6, PursesFinite, SumOfZeros, <1>4, <1>8 DEF TopUpCount, f
<1>10. AccountsCome /\ LinesCome
  BY <1>1, <1>2, <1>3 DEF AccountsCome, LinesCome
<1> QED  BY <1>7, <1>8, <1>9, <1>10 DEF HomeInv

\* The history of what explains a difference is as it was.
LogKept ==
    /\ DOMAIN homeLog' = HomeLogFields /\ homeLog'.told = homeLog.told /\ homeLog'.untold = homeLog.untold
    /\ homeLog'.elsewhere = homeLog.elsewhere /\ homeLog'.unloaded = homeLog.unloaded
    /\ homeLog'.strayed = homeLog.strayed /\ homeLog'.crossed = homeLog.crossed
    /\ homeLog'.unlisted = homeLog.unlisted

\* A gesture spends only its bound.
LEMMA HomeGestureKeeps ==
    ASSUME HomeTypeOK, NEW what, HomeGesture(what)
    PROVE  LogKept
BY DEF HomeTypeOK, HomeGesture, LogKept, HomeLogFields

\* A gesture on the form, and nothing else.
LEMMA FormChanges ==
    ASSUME HomeInv, UNCHANGED <<purse, homeLine>>, LogKept,
           DOMAIN home' = HomeFields, home'.selected = home.selected,
           home'.accounts = home.accounts, home'.list = home.list, home'.busy = home.busy,
           home'.source \in Purses \cup {NoPurse}, home'.source # NoPurse => home'.source # home.selected,
           home'.open => home.selected # NoPurse, home'.amount \in Nat
    PROVE  HomeInv'
BY DEF HomeInv, HomeTypeOK, LogKept, LoadOK, OneAfter, FirstLoad, TopUpCount, Executed, Unseen,
   AnswersCurrent, AccountsCome, LinesCome, BalancesIn, LinesIn

\* Loads that are older than they were, and the same otherwise.
LaterLoad(l, m) ==
    /\ DOMAIN m = LoadFields /\ m.kind = l.kind /\ m.of = l.of /\ m.from = l.from
    /\ m.amount = l.amount /\ m.after = l.after /\ m.stage = l.stage /\ m.got = l.got
    /\ l.old => m.old

\* Growing old changes nothing else of a load.
LEMMA OutdatedLoads ==
    ASSUME NEW S, \A l \in S : LoadOK(l)
    PROVE  /\ \A m \in Outdate(S) : \E l \in S : LaterLoad(l, m)
           /\ \A l \in S : \E m \in Outdate(S) : LaterLoad(l, m)
           /\ \A m \in Outdate(S) : m.kind = "transfer" \/ m.stage # "served" \/ m.old
           /\ \A l, m \in Outdate(S) : (\A a, b \in S : a.after /\ b.after => a = b) =>
                 (l.after /\ m.after => l = m)
           /\ \A l, m \in Outdate(S) :
                 (\A a, b \in S : a.kind = "accounts" /\ b.kind = "accounts" /\ ~a.after /\ ~b.after => a = b) =>
                    (l.kind = "accounts" /\ m.kind = "accounts" /\ ~l.after /\ ~m.after => l = m)
<1> DEFINE O(l) == [l EXCEPT !.old = @ \/ (l.kind # "transfer" /\ l.stage = "served")]
<1>1. Outdate(S) = {O(l) : l \in S}
  BY DEF Outdate
<1>2. ASSUME NEW l \in S
      PROVE  LaterLoad(l, O(l)) /\ (O(l).kind = "transfer" \/ O(l).stage # "served" \/ O(l).old)
  BY DEF LoadOK, LaterLoad, LoadFields
<1> HIDE DEF O
<1> QED  BY <1>1, <1>2 DEF LaterLoad

\* The server answers a load.
LEMMA ServeHomeLoadKeeps ==
    ASSUME HomeInv, NEW l \in homeLine, ServeHomeLoad(l)
    PROVE  HomeInv'
<1> DEFINE m == [l EXCEPT !.stage = "served", !.got = purse]
<1>1. /\ DOMAIN m = LoadFields /\ m.kind = l.kind /\ m.of = l.of /\ m.from = l.from /\ m.amount = l.amount
      /\ m.after = l.after /\ m.stage = "served" /\ m.got = purse /\ m.old = l.old
  BY DEF HomeInv, HomeTypeOK, LoadOK, LoadFields
<1>2. /\ homeLine' = (homeLine \ {l}) \cup {m} /\ l.kind # "transfer" /\ l.stage = "sent"
      /\ UNCHANGED <<purse, home, homeLog>>
  BY DEF ServeHomeLoad
<1> HIDE DEF m
<1>3. HomeTypeOK'
  BY <1>1, <1>2 DEF HomeInv, HomeTypeOK, LoadOK
<1>4. OneAfter(homeLine)' /\ FirstLoad(homeLine)'
  BY <1>1, <1>2 DEF HomeInv, OneAfter, FirstLoad
<1>5. TopUpCount'
  BY <1>1, <1>2 DEF Executed, HomeInv, TopUpCount
<1>6. ASSUME ~Unseen
      PROVE  AnswersCurrent(homeLine, purse)' /\ AccountsCome' /\ LinesCome'
  BY <1>6, <1>1, <1>2 DEF HomeInv, AnswersCurrent, AccountsCome, BalancesIn, LinesCome, LinesIn
<1>7. Unseen' <=> Unseen
  BY <1>2 DEF Unseen
<1> QED  BY <1>3, <1>4, <1>5, <1>6, <1>7 DEF HomeInv

\* The server executes a transfer.
LEMMA ExecuteKeeps ==
    ASSUME HomeInv, NEW l \in homeLine, l.kind = "transfer", l.stage = "sent",
           purse[l.from].balance >= l.amount, purse' = Moved(l),
           homeLine' = Outdate(homeLine \ {l}) \cup {[l EXCEPT !.stage = "served"]},
           UNCHANGED <<home, homeLog>>
    PROVE  HomeInv'
<1> DEFINE m == [l EXCEPT !.stage = "served"]
           rest == homeLine \ {l}
           f == [a \in Purses |-> purse[a].lines]
           g == [a \in Purses |-> purse'[a].lines]
           h == [f EXCEPT ![l.from] = @ + 1]
<1>1. /\ DOMAIN m = LoadFields /\ m.kind = l.kind /\ m.of = l.of /\ m.from = l.from /\ m.amount = l.amount
      /\ m.after = l.after /\ m.stage = "served"
  BY DEF HomeInv, HomeTypeOK, LoadOK, LoadFields
<1>2. l.of \in Purses /\ l.from \in Purses /\ l.from # l.of /\ l.amount \in Nat /\ l.after
  BY DEF HomeInv, HomeTypeOK, LoadOK
<1>3. /\ \A k \in Outdate(rest) : \E j \in rest : LaterLoad(j, k)
      /\ \A j \in rest : \E k \in Outdate(rest) : LaterLoad(j, k)
      /\ \A k \in Outdate(rest) : k.kind = "transfer" \/ k.stage # "served" \/ k.old
  BY OutdatedLoads DEF HomeInv, HomeTypeOK
<1>4. homeLine' = Outdate(rest) \cup {m}
  OBVIOUS
<1>5. \A j \in rest : ~j.after
  BY <1>2 DEF HomeInv, OneAfter
<1>6. /\ \A a \in Purses : purse[a].lines \in Nat /\ purse[a].balance \in Nat
      /\ DOMAIN purse = Purses
  BY DEF HomeInv, HomeTypeOK
<1>7. /\ purse' \in [Purses -> [balance : Nat, lines : Nat]]
      /\ g[l.of] = f[l.of] + 1 /\ g[l.from] = f[l.from] + 1
      /\ \A a \in Purses : f[a] \in Nat /\ g[a] \in Nat /\ (a # l.of /\ a # l.from => g[a] = f[a])
  <2>3. /\ DOMAIN purse' = Purses
        /\ purse'[l.of] = [balance |-> purse[l.of].balance + l.amount, lines |-> purse[l.of].lines + 1]
        /\ purse'[l.from] = [balance |-> purse[l.from].balance - l.amount, lines |-> purse[l.from].lines + 1]
        /\ \A a \in Purses : a # l.from /\ a # l.of => purse'[a] = purse[a]
    BY <1>2, <1>6 DEF Moved
  <2>4. purse[l.from].balance - l.amount \in Nat /\ purse[l.of].balance + l.amount \in Nat
    BY <1>2, <1>6
  <2>5. \A a \in Purses : purse'[a] \in [balance : Nat, lines : Nat]
    BY <1>2, <1>6, <2>3, <2>4 DEF HomeInv, HomeTypeOK
  <2>6. purse' = [a \in Purses |-> purse'[a]]
    BY <1>6 DEF Moved
  <2>7. purse' \in [Purses -> [balance : Nat, lines : Nat]]
    BY <2>5, <2>6
  <2> QED  BY <1>2, <1>6, <2>3, <2>7
<1>13. rest \in SUBSET homeLine /\ \A j \in rest : LoadOK(j)
  BY DEF HomeInv, HomeTypeOK
<1> HIDE DEF m, rest
<1>8. HomeTypeOK'
  <2>1. \A k \in Outdate(rest) : LoadOK(k)
    BY <1>3, <1>13 DEF LoadOK, LaterLoad
  <2>2. LoadOK(m)
    BY <1>1, <1>2 DEF LoadOK
  <2> QED  BY <1>4, <1>7, <2>1, <2>2 DEF HomeInv, HomeTypeOK
<1>9. OneAfter(homeLine)'
  BY <1>1, <1>2, <1>3, <1>4, <1>5 DEF HomeInv, OneAfter, LaterLoad
<1>10. FirstLoad(homeLine)'
  <2>1. home.selected # NoPurse
    BY <1>2 DEF HomeInv, OneAfter
  <2>2. \A k \in Outdate(rest) : k.kind = "accounts" => k.after
    BY <1>3, <1>13, <2>1 DEF HomeInv, FirstLoad, LaterLoad
  <2> QED  BY <1>1, <1>4, <2>2 DEF FirstLoad
<1>11. TopUpCount'
  <2>1. ~Executed(homeLine) /\ Executed(homeLine')
    BY <1>1, <1>2, <1>4 DEF HomeInv, OneAfter, HomeTypeOK, LoadOK, Executed
  <2>2. /\ \A a \in Purses : h[a] \in Int /\ g[a] \in Int /\ f[a] \in Int
        /\ h[l.from] = f[l.from] + 1 /\ g[l.of] = h[l.of] + 1
        /\ \A a \in Purses : a # l.from => f[a] = h[a]
        /\ \A a \in Purses : a # l.of => h[a] = g[a]
    BY <1>2, <1>7
  <2> HIDE DEF f, g, h
  <2>3. SumFunctionOnSet(h, Purses) = SumFunctionOnSet(f, Purses) + (h[l.from] - f[l.from])
    BY <1>2, <2>2, PursesFinite, SumAfterChange
  <2>4. SumFunctionOnSet(g, Purses) = SumFunctionOnSet(h, Purses) + (g[l.of] - h[l.of])
    BY <1>2, <2>2, PursesFinite, SumAfterChange
  <2>5. SumFunctionOnSet(f, Purses) \in Int
    BY <2>2, PursesFinite, SumIsInteger
  <2>6. SumFunctionOnSet(g, Purses) = SumFunctionOnSet(f, Purses) + 2
    BY <1>2, <2>2, <2>3, <2>4, <2>5
  <2>7. homeLog.told \in Nat /\ homeLog.untold \in Nat /\ homeLog' = homeLog
    BY DEF HomeInv, HomeTypeOK
  <2> QED  BY <2>1, <2>5, <2>6, <2>7 DEF HomeInv, TopUpCount, f, g
<1>12. AnswersCurrent(homeLine, purse)' /\ AccountsCome' /\ LinesCome'
  <2>1. home.selected # NoPurse
    BY <1>2 DEF HomeInv, OneAfter
  <2>2. \A k \in Outdate(rest) : k.kind = "accounts" => FALSE
    BY <1>3, <1>5, <1>13, <2>1 DEF HomeInv, FirstLoad, LaterLoad
  <2> QED  BY <1>1, <1>2, <1>3, <1>4, <2>2 DEF AnswersCurrent, AccountsCome, LinesCome
<1> QED  BY <1>8, <1>9, <1>10, <1>11, <1>12 DEF HomeInv

\* The server refuses it.
LEMMA RefuseKeeps ==
    ASSUME HomeInv, NEW l \in homeLine, l.kind = "transfer", l.stage = "sent",
           homeLine' = (homeLine \ {l}) \cup {[l EXCEPT !.stage = "refused"]},
           UNCHANGED <<purse, home, homeLog>>
    PROVE  HomeInv'
<1> DEFINE m == [l EXCEPT !.stage = "refused"]
<1>1. /\ DOMAIN m = LoadFields /\ m.kind = l.kind /\ m.of = l.of /\ m.from = l.from /\ m.amount = l.amount
      /\ m.after = l.after /\ m.stage = "refused"
  BY DEF HomeInv, HomeTypeOK, LoadOK, LoadFields
<1>2. homeLine' = (homeLine \ {l}) \cup {m}
  OBVIOUS
<1> HIDE DEF m
<1>3. HomeTypeOK'
  BY <1>1, <1>2 DEF HomeInv, HomeTypeOK, LoadOK
<1>4. OneAfter(homeLine)' /\ FirstLoad(homeLine)'
  BY <1>1, <1>2 DEF HomeInv, OneAfter, FirstLoad
<1>5. TopUpCount'
  BY <1>1, <1>2 DEF Executed, HomeInv, TopUpCount
<1>6. ASSUME ~Unseen
      PROVE  AnswersCurrent(homeLine, purse)' /\ AccountsCome' /\ LinesCome'
  BY <1>6, <1>1, <1>2 DEF HomeInv, AnswersCurrent, AccountsCome, LinesCome, BalancesIn, LinesIn
<1>7. Unseen' <=> Unseen
  BY DEF Unseen
<1> QED  BY <1>3, <1>4, <1>5, <1>6, <1>7 DEF HomeInv

\* A transfer made elsewhere.
LEMMA ElsewhereKeeps ==
    ASSUME HomeInv, NEW a \in Purses, DebitElsewhere(a)
    PROVE  HomeInv'
<1>1. /\ \A k \in homeLine' : \E j \in homeLine : LaterLoad(j, k)
      /\ \A k, m \in homeLine' : k.after /\ m.after => k = m
      /\ \A k, m \in homeLine' : k.kind = "accounts" /\ m.kind = "accounts" /\ ~k.after /\ ~m.after => k = m
  BY OutdatedLoads DEF HomeInv, HomeTypeOK, OneAfter, FirstLoad, DebitElsewhere
<1>2. purse' \in [Purses -> [balance : Nat, lines : Nat]]
  BY DEF DebitElsewhere, HomeInv, HomeTypeOK
<1>3. /\ DOMAIN homeLog' = HomeLogFields /\ homeLog'.told = homeLog.told /\ homeLog'.untold = homeLog.untold
      /\ homeLog'.elsewhere
  BY DEF DebitElsewhere, HomeInv, HomeTypeOK, HomeLogFields
<1>4. home' = home
  BY DEF DebitElsewhere
<1>5. HomeTypeOK'
  BY <1>1, <1>2, <1>3, <1>4 DEF HomeInv, HomeTypeOK, LoadOK, LaterLoad
<1>6. OneAfter(homeLine)' /\ FirstLoad(homeLine)'
  BY <1>1, <1>4 DEF HomeInv, OneAfter, FirstLoad, LaterLoad
<1> QED  BY <1>3, <1>5, <1>6 DEF HomeInv, TopUpCount, Unseen

\* The accounts arrive; with the first ones an account is selected, and its lines asked for.
LEMMA ArriveHomeAccountsKeeps ==
    ASSUME HomeInv, NEW l \in homeLine, ArriveHomeAccounts(l)
    PROVE  HomeInv'
<1> DEFINE n == Requested("lines", FirstPurse, FALSE)
           first == home.selected = NoPurse
<1>1. /\ DOMAIN n = LoadFields /\ n.kind = "lines" /\ n.of = FirstPurse /\ n.stage = "sent" /\ ~n.after
  BY DEF Requested, LoadFields
<1>2. /\ l.kind = "accounts" /\ l.stage = "served" /\ purse' = purse
      /\ homeLine' = (homeLine \ {l}) \cup (IF first THEN {n} ELSE {})
  BY DEF ArriveHomeAccounts
<1>3. /\ DOMAIN home' = HomeFields /\ home'.accounts = BalancesIn(l.got) /\ home'.list = home.list
      /\ home'.amount = home.amount
      /\ home'.busy <=> (home.busy /\ ~l.after)
      /\ home'.selected = IF first THEN FirstPurse ELSE home.selected
      /\ home'.source = IF first THEN NoPurse ELSE home.source
      /\ first \/ home'.open = home.open
      /\ ~first \/ ~home'.open
  BY DEF ArriveHomeAccounts, Selecting, HomeInv, HomeTypeOK, HomeFields
<1>4. /\ DOMAIN homeLog' = HomeLogFields /\ homeLog'.told = homeLog.told /\ homeLog'.untold = homeLog.untold
      /\ homeLog'.elsewhere = homeLog.elsewhere /\ homeLog'.strayed = homeLog.strayed
      /\ homeLog'.crossed = homeLog.crossed /\ homeLog'.unlisted = homeLog.unlisted
  BY DEF ArriveHomeAccounts, HomeInv, HomeTypeOK, HomeLogFields
<1> HIDE DEF n
<1>5. HomeTypeOK'
  BY <1>1, <1>2, <1>3, <1>4, HomeAssumption DEF HomeInv, HomeTypeOK, LoadOK
<1>6. OneAfter(homeLine)'
  BY <1>1, <1>2, <1>3, HomeAssumption DEF HomeInv, OneAfter
<1>7. FirstLoad(homeLine)'
  BY <1>1, <1>2, <1>3, HomeAssumption DEF HomeInv, FirstLoad, OneAfter
<1>8. TopUpCount'
  BY <1>1, <1>2, <1>4 DEF Executed, HomeInv, TopUpCount
<1>9. ASSUME ~Unseen
      PROVE  AnswersCurrent(homeLine, purse)' /\ AccountsCome' /\ LinesCome'
  BY <1>9, <1>1, <1>2, <1>3, <1>4 DEF HomeInv, AnswersCurrent, AccountsCome, BalancesIn, LinesCome,
     LinesIn
<1>10. Unseen' <=> Unseen
  BY <1>4 DEF Unseen
<1> QED  BY <1>5, <1>6, <1>7, <1>8, <1>9, <1>10 DEF HomeInv

\* They do not.
LEMMA FailHomeAccountsKeeps ==
    ASSUME HomeInv, NEW l \in homeLine, FailHomeAccounts(l)
    PROVE  HomeInv'
<1>2. l.kind = "accounts" /\ purse' = purse /\ homeLine' = homeLine \ {l}
  BY DEF FailHomeAccounts
<1>3. /\ DOMAIN home' = HomeFields /\ home'.accounts = home.accounts /\ home'.list = home.list
      /\ home'.amount = home.amount /\ home'.selected = home.selected /\ home'.source = home.source
      /\ home'.open = home.open
      /\ home'.busy <=> (home.busy /\ ~l.after)
  BY DEF FailHomeAccounts, HomeInv, HomeTypeOK, HomeFields
<1>4. /\ DOMAIN homeLog' = HomeLogFields /\ homeLog'.told = homeLog.told /\ homeLog'.untold = homeLog.untold
      /\ homeLog'.elsewhere = homeLog.elsewhere /\ homeLog'.strayed = homeLog.strayed
      /\ homeLog'.crossed = homeLog.crossed /\ homeLog'.unlisted = homeLog.unlisted /\ homeLog'.unloaded
  BY DEF FailHomeAccounts, HomeInv, HomeTypeOK, HomeLogFields
<1>5. HomeTypeOK'
  BY <1>2, <1>3, <1>4 DEF HomeInv, HomeTypeOK, LoadOK
<1>6. OneAfter(homeLine)' /\ FirstLoad(homeLine)'
  BY <1>2, <1>3 DEF HomeInv, OneAfter, FirstLoad
<1>8. TopUpCount'
  BY <1>2, <1>4 DEF Executed, HomeInv, TopUpCount
<1>9. ASSUME ~Unseen
      PROVE  AnswersCurrent(homeLine, purse)' /\ AccountsCome' /\ LinesCome'
  BY <1>9, <1>2, <1>3, <1>4 DEF HomeInv, AnswersCurrent, AccountsCome, LinesCome, LinesIn
<1>10. Unseen' <=> Unseen
  BY <1>4 DEF Unseen
<1> QED  BY <1>5, <1>6, <1>8, <1>9, <1>10 DEF HomeInv

\* The lines of an account arrive, or an empty list; after a transfer the accounts follow.
LEMMA ShowLinesKeeps ==
    ASSUME HomeInv, NEW l \in homeLine, l.kind = "lines", NEW list, ShowLines(l, list),
           DOMAIN homeLog' = HomeLogFields, homeLog'.told = homeLog.told, homeLog'.untold = homeLog.untold,
           homeLog'.elsewhere = homeLog.elsewhere, homeLog'.unloaded = homeLog.unloaded,
           Unseen \/ home.selected = NoPurse \/ list = LinesIn(purse, home.selected)
              \/ homeLog'.strayed \/ homeLog'.crossed \/ homeLog'.unlisted
    PROVE  HomeInv'
<1> DEFINE n == Requested("accounts", NoPurse, TRUE)
<1>1. /\ DOMAIN n = LoadFields /\ n.kind = "accounts" /\ n.stage = "sent" /\ n.after
  BY DEF Requested, LoadFields
<1>2. purse' = purse /\ homeLine' = (homeLine \ {l}) \cup (IF l.after THEN {n} ELSE {})
  BY DEF ShowLines
<1>3. /\ DOMAIN home' = HomeFields /\ home'.accounts = home.accounts /\ home'.list = list
      /\ home'.amount = home.amount /\ home'.selected = home.selected /\ home'.source = home.source
      /\ home'.open = home.open /\ home'.busy = home.busy
  BY DEF ShowLines, HomeInv, HomeTypeOK, HomeFields
<1> HIDE DEF n
<1>5. HomeTypeOK'
  BY <1>1, <1>2, <1>3 DEF HomeInv, HomeTypeOK, LoadOK
<1>6. OneAfter(homeLine)' /\ FirstLoad(homeLine)'
  BY <1>1, <1>2, <1>3 DEF HomeInv, OneAfter, FirstLoad
<1>8. TopUpCount'
  BY <1>1, <1>2 DEF Executed, HomeInv, TopUpCount
<1>9. ASSUME ~Unseen
      PROVE  AnswersCurrent(homeLine, purse)' /\ AccountsCome' /\ LinesCome'
  BY <1>9, <1>1, <1>2, <1>3 DEF HomeInv, AnswersCurrent, AccountsCome, BalancesIn, LinesCome,
     LinesIn
<1>10. Unseen' <=> Unseen
  BY DEF Unseen
<1> QED  BY <1>5, <1>6, <1>8, <1>9, <1>10 DEF HomeInv

\* The lines arrive ...
LEMMA ArriveHomeLinesKeeps ==
    ASSUME HomeInv, NEW l \in homeLine, ArriveHomeLines(l)
    PROVE  HomeInv'
BY ShowLinesKeeps DEF ArriveHomeLines, HomeInv, HomeTypeOK, HomeLogFields, AnswersCurrent

\* ... or do not.
LEMMA FailHomeLinesKeeps ==
    ASSUME HomeInv, NEW l \in homeLine, FailHomeLines(l)
    PROVE  HomeInv'
BY ShowLinesKeeps DEF FailHomeLines, HomeInv, HomeTypeOK, HomeLogFields

-----------------------------------------------------------------------------
(* Selection and form *)

LEMMA SelectPurseKeeps ==
    ASSUME HomeInv, NEW a \in Purses, SelectPurse(a)
    PROVE  HomeInv'
<1> DEFINE n == Requested("lines", a, FALSE)
<1>1. /\ DOMAIN n = LoadFields /\ n.kind = "lines" /\ n.of = a /\ n.stage = "sent" /\ ~n.after
  BY DEF Requested, LoadFields
<1>2. purse' = purse /\ homeLine' = homeLine \cup {n} /\ home.accounts # NoPurse
  BY DEF SelectPurse
<1>3. /\ DOMAIN home' = HomeFields /\ home'.accounts = home.accounts /\ home'.list = home.list
      /\ home'.amount = home.amount /\ home'.selected = a /\ home'.source = NoPurse
      /\ ~home'.open /\ home'.busy = home.busy
  BY DEF SelectPurse, Selecting, HomeInv, HomeTypeOK, HomeFields
<1>4. LogKept
  BY HomeGestureKeeps DEF SelectPurse, HomeInv
<1> HIDE DEF n
<1>5. HomeTypeOK'
  BY <1>1, <1>2, <1>3, <1>4, HomeAssumption DEF HomeInv, HomeTypeOK, LoadOK, LogKept
<1>6. OneAfter(homeLine)'
  BY <1>1, <1>2, <1>3, HomeAssumption DEF HomeInv, OneAfter
<1>7. FirstLoad(homeLine)'
  BY <1>1, <1>2, <1>3 DEF HomeInv, FirstLoad
<1>8. TopUpCount'
  BY <1>1, <1>2, <1>4 DEF Executed, HomeInv, TopUpCount, LogKept
<1>9. ASSUME ~Unseen
      PROVE  AnswersCurrent(homeLine, purse)' /\ AccountsCome' /\ LinesCome'
  BY <1>9, <1>1, <1>2, <1>3, <1>4 DEF HomeInv, AnswersCurrent, AccountsCome, BalancesIn, LinesCome,
     LogKept
<1>10. Unseen' <=> Unseen
  BY <1>4 DEF Unseen, LogKept
<1> QED  BY <1>5, <1>6, <1>7, <1>8, <1>9, <1>10 DEF HomeInv

\* The gestures on the form.
LEMMA FormKeeps ==
    ASSUME HomeInv,
           \/ ToggleForm \/ ToggleChart \/ CancelTopUp
           \/ \E a \in Purses : ChooseSource(a)
           \/ \E n \in HomeAmounts : EnterAmount(n)
    PROVE  HomeInv'
<1>1. HomeTypeOK
  BY DEF HomeInv
<1>2. UNCHANGED <<purse, homeLine>> /\ HomeGesture("gestures")
  BY DEF ToggleForm, ToggleChart, CancelTopUp, ChooseSource, EnterAmount
<1>3. LogKept
  BY <1>1, <1>2, HomeGestureKeeps
<1>4. /\ DOMAIN home' = HomeFields /\ home'.selected = home.selected
      /\ home'.accounts = home.accounts /\ home'.list = home.list /\ home'.busy = home.busy
      /\ home'.source \in Purses \cup {NoPurse} /\ (home'.source # NoPurse => home'.source # home.selected)
      /\ (home'.open => home.selected # NoPurse) /\ home'.amount \in Nat
  <2>1. CASE ToggleForm
    BY <1>1, <2>1 DEF ToggleForm, HomeTypeOK, HomeFields
  <2>2. CASE ToggleChart
    BY <1>1, <2>2 DEF ToggleChart, HomeTypeOK, HomeFields
  <2>3. CASE CancelTopUp
    BY <1>1, <2>3 DEF CancelTopUp, HomeTypeOK, HomeFields
  <2>4. CASE \E a \in Purses : ChooseSource(a)
    BY <1>1, <2>4 DEF ChooseSource, HomeTypeOK, HomeFields
  <2>5. CASE \E n \in HomeAmounts : EnterAmount(n)
    BY <1>1, <2>5, HomeAssumption DEF EnterAmount, HomeTypeOK, HomeFields
  <2> QED  BY <2>1, <2>2, <2>3, <2>4, <2>5
<1> QED  BY <1>2, <1>3, <1>4, FormChanges

\* A transfer is sent, or refused by the page.
LEMMA SubmitTopUpKeeps ==
    ASSUME HomeInv, SubmitTopUp
    PROVE  HomeInv'
<1> DEFINE n == [Requested("transfer", home.selected, TRUE)
                    EXCEPT !.from = TopUpSource, !.amount = home.amount]
<1>1. HomeTypeOK /\ home.open /\ ~home.busy /\ TopUpSource # NoPurse /\ HomeGesture("transfers")
      /\ purse' = purse
  BY DEF SubmitTopUp, HomeInv
<1>2. LogKept
  BY <1>1, HomeGestureKeeps
<1>3. CASE homeLine' = homeLine /\ home' = [home EXCEPT !.said = "error"]
  BY <1>1, <1>3, <1>2, FormChanges DEF HomeTypeOK, HomeFields
<1>4. CASE /\ homeLine' = homeLine \cup {n}
           /\ home' = [home EXCEPT !.said = "", !.busy = TRUE]
  <2>1. TopUpSource \in Purses /\ TopUpSource # home.selected /\ home.selected \in Purses
    BY <1>1, SourceIsOther DEF HomeTypeOK
  <2>2. /\ DOMAIN n = LoadFields /\ n.kind = "transfer" /\ n.of = home.selected /\ n.from = TopUpSource
        /\ n.amount = home.amount /\ n.stage = "sent" /\ n.after
    BY DEF Requested, LoadFields
  <2>3. /\ DOMAIN home' = HomeFields /\ home'.accounts = home.accounts /\ home'.list = home.list
        /\ home'.amount = home.amount /\ home'.selected = home.selected /\ home'.source = home.source
        /\ home'.open = home.open /\ home'.busy
    BY <1>1, <1>4 DEF HomeTypeOK, HomeFields
  <2> HIDE DEF n
  <2>5. HomeTypeOK'
    BY <1>1, <1>2, <1>4, <2>1, <2>2, <2>3 DEF HomeTypeOK, LoadOK, LogKept
  <2>6. OneAfter(homeLine)'
    BY <1>1, <1>4, <2>1, <2>2, <2>3, HomeAssumption DEF HomeInv, OneAfter
  <2>7. FirstLoad(homeLine)'
    BY <1>4, <2>2, <2>3 DEF HomeInv, FirstLoad
  <2>8. TopUpCount'
    BY <1>4, <2>2, <1>1, <1>2 DEF Executed, HomeInv, TopUpCount, LogKept
  <2>9. ASSUME ~Unseen
        PROVE  AnswersCurrent(homeLine, purse)' /\ AccountsCome' /\ LinesCome'
    BY <2>9, <1>1, <1>2, <1>4, <2>2, <2>3 DEF HomeInv, AnswersCurrent, AccountsCome, BalancesIn,
       LinesCome, LinesIn, LogKept
  <2>10. Unseen' <=> Unseen
    BY <1>2 DEF Unseen, LogKept
  <2> QED  BY <2>5, <2>6, <2>7, <2>8, <2>9, <2>10 DEF HomeInv
<1> QED  BY <1>3, <1>4 DEF SubmitTopUp

\* It succeeded: the lines are asked for.
LEMMA ArriveToppedUpKeeps ==
    ASSUME HomeInv, NEW l \in homeLine, ArriveToppedUp(l)
    PROVE  HomeInv'
<1> DEFINE n == Requested("lines", l.of, TRUE)
<1>1. /\ DOMAIN n = LoadFields /\ n.kind = "lines" /\ n.of = l.of /\ n.stage = "sent" /\ n.after
  BY DEF Requested, LoadFields
<1>2. /\ l.kind = "transfer" /\ l.stage = "served" /\ purse' = purse
      /\ homeLine' = (homeLine \ {l}) \cup {n}
      /\ l.of \in Purses /\ l.after
  BY DEF ArriveToppedUp, HomeInv, HomeTypeOK, LoadOK
<1>3. /\ DOMAIN home' = HomeFields /\ home'.accounts = home.accounts /\ home'.list = home.list
      /\ home'.amount = 0 /\ home'.selected = home.selected /\ home'.source = home.source
      /\ ~home'.open /\ home'.busy = home.busy
  BY DEF ArriveToppedUp, HomeInv, HomeTypeOK, HomeFields
<1>4. /\ DOMAIN homeLog' = HomeLogFields /\ homeLog'.told = homeLog.told + 1 /\ homeLog'.untold = homeLog.untold
      /\ homeLog'.elsewhere = homeLog.elsewhere /\ homeLog'.strayed = homeLog.strayed
      /\ homeLog'.crossed = homeLog.crossed /\ homeLog'.unlisted = homeLog.unlisted
      /\ homeLog'.unloaded = homeLog.unloaded
  BY DEF ArriveToppedUp, HomeInv, HomeTypeOK, HomeLogFields
<1> HIDE DEF n
<1>5. HomeTypeOK'
  BY <1>1, <1>2, <1>3, <1>4 DEF HomeInv, HomeTypeOK, LoadOK
<1>6. OneAfter(homeLine)' /\ FirstLoad(homeLine)'
  BY <1>1, <1>2, <1>3 DEF HomeInv, OneAfter, FirstLoad
<1>8. TopUpCount'
  BY <1>1, <1>2, <1>4 DEF HomeInv, HomeTypeOK, LoadOK, OneAfter, Executed, TopUpCount
<1>9. ASSUME ~Unseen
      PROVE  AnswersCurrent(homeLine, purse)' /\ AccountsCome' /\ LinesCome'
  BY <1>9, <1>1, <1>2, <1>3, <1>4 DEF HomeInv, AnswersCurrent, AccountsCome, BalancesIn, LinesCome,
     LinesIn
<1>10. Unseen' <=> Unseen
  BY <1>4 DEF Unseen
<1> QED  BY <1>5, <1>6, <1>8, <1>9, <1>10 DEF HomeInv

\* It did not, or its answer is lost.
LEMMA FailTopUpKeeps ==
    ASSUME HomeInv, NEW l \in homeLine, FailTopUp(l)
    PROVE  HomeInv'
<1>2. /\ l.kind = "transfer" /\ purse' = purse /\ homeLine' = homeLine \ {l} /\ l.after
  BY DEF FailTopUp, HomeInv, HomeTypeOK, LoadOK
<1>3. /\ DOMAIN home' = HomeFields /\ home'.accounts = home.accounts /\ home'.list = home.list
      /\ home'.amount = home.amount /\ home'.selected = home.selected /\ home'.source = home.source
      /\ home'.open = home.open
  BY DEF FailTopUp, HomeInv, HomeTypeOK, HomeFields
<1>4. /\ DOMAIN homeLog' = HomeLogFields /\ homeLog'.told = homeLog.told
      /\ homeLog'.untold = IF l.stage = "served" THEN homeLog.untold + 1 ELSE homeLog.untold
      /\ homeLog'.elsewhere = homeLog.elsewhere /\ homeLog'.strayed = homeLog.strayed
      /\ homeLog'.crossed = homeLog.crossed /\ homeLog'.unlisted = homeLog.unlisted
      /\ homeLog'.unloaded = homeLog.unloaded
  BY DEF FailTopUp, HomeInv, HomeTypeOK, HomeLogFields
<1>5. HomeTypeOK'
  BY <1>2, <1>3, <1>4 DEF HomeInv, HomeTypeOK, LoadOK
<1>6. OneAfter(homeLine)' /\ FirstLoad(homeLine)'
  BY <1>2, <1>3 DEF HomeInv, OneAfter, FirstLoad
<1>7. homeLog.told \in Nat /\ homeLog.untold \in Nat
  BY DEF HomeInv, HomeTypeOK
<1>8. TopUpCount'
  BY <1>2, <1>4, <1>7 DEF HomeInv, HomeTypeOK, LoadOK, OneAfter, Executed, TopUpCount
<1>9. ASSUME ~Unseen'
      PROVE  AnswersCurrent(homeLine, purse)' /\ AccountsCome' /\ LinesCome'
  BY <1>4, <1>7, <1>9, <1>2, <1>3 DEF Unseen, HomeInv, AnswersCurrent, AccountsCome, BalancesIn,
     LinesCome, LinesIn
<1> QED  BY <1>5, <1>6, <1>8, <1>9 DEF HomeInv

-----------------------------------------------------------------------------
\* Every step of the overview keeps what is true of it ...
LEMMA HomeSteps ==
    ASSUME HomeInv, [HomeNext]_homeVars
    PROVE  HomeInv'
<1>1. ASSUME NEW l \in homeLine, ServeTopUp(l)
      PROVE  HomeInv'
  BY <1>1, ExecuteKeeps, RefuseKeeps DEF ServeTopUp
<1>2. CASE UNCHANGED homeVars
  BY <1>2 DEF homeVars, HomeInv, HomeTypeOK, OneAfter, TopUpCount, FirstLoad, Unseen, AnswersCurrent,
              AccountsCome, LinesCome, Executed, LoadOK, BalancesIn, LinesIn
<1> QED  BY <1>1, <1>2, ServeHomeLoadKeeps, ArriveHomeAccountsKeeps, FailHomeAccountsKeeps,
            ArriveHomeLinesKeeps, FailHomeLinesKeeps, ArriveToppedUpKeeps, FailTopUpKeeps,
            SelectPurseKeeps, ElsewhereKeeps, FormKeeps, SubmitTopUpKeeps DEF HomeNext

\* ... and what the client is told follows.
LEMMA HomePromises ==
    ASSUME HomeInv
    PROVE  TopUpsAreTold /\ HomeCatchesUp
<1> DEFINE Executing == {l \in homeLine : l.kind = "transfer" /\ l.stage = "served"}
<1>1. Cardinality(Executing) = IF Executed(homeLine) THEN 1 ELSE 0
  <2>1. CASE Executed(homeLine)
    <3>1. PICK l \in homeLine : l.kind = "transfer" /\ l.stage = "served"
      BY <2>1 DEF Executed
    <3>2. Executing = {l}
      BY <3>1 DEF HomeInv, HomeTypeOK, LoadOK, OneAfter
    <3> QED  BY <2>1, <3>2, FS_Singleton
  <2>2. CASE ~Executed(homeLine)
    BY <2>2, FS_EmptySet DEF Executed
  <2> QED  BY <2>1, <2>2
<1>2. \A a \in Purses : purse[a].balance >= 0
  BY DEF HomeInv, HomeTypeOK
<1>3. TopUpsAreTold
  <2> HIDE DEF Executing
  <2>1. \/ homeLog.elsewhere
        \/ SumFunctionOnSet([a \in Purses |-> purse[a].lines], Purses)
              = 2 * (homeLog.told + homeLog.untold + Cardinality(Executing))
    BY <1>1 DEF HomeInv, TopUpCount
  <2> QED  BY <1>2, <2>1 DEF TopUpsAreTold, Executing
<1>4. HomeCatchesUp
  BY DEF HomeInv, Unseen, AccountsCome, LinesCome, HomeCatchesUp
<1> QED  BY <1>3, <1>4

-----------------------------------------------------------------------------
(* The list of conversations *)

\* The list is asked for when the page opens.
LEMMA ListOpens ==
    ASSUME PageInit
    PROVE  ListInv
<1> DEFINE a == Asking("mount", Nobody)
<1>1. AskRecord(a) /\ a.got = Nobody /\ a.nth = 0 /\ asking = {a}
  BY DEF PageInit, Asking, AskRecord
<1> HIDE DEF a
<1>2. /\ hidden \subseteq ConversationIds /\ DOMAIN notices = {"sending", "unread", "seen"}
      /\ DOMAIN page = {"sel", "nav", "list"} /\ page.sel = Nobody
      /\ page.nav = {} /\ page.list = {}
      /\ DOMAIN doing = {"hide", "open", "group", "left"} /\ doing.hide = Nobody /\ doing.group = Nobody
      /\ doing.left = {}
      /\ DOMAIN tale = {"gestures", "failures", "unaware", "served", "shown"}
      /\ tale.served = 0 /\ tale.shown = 0
  BY DEF PageInit, ConversationIds
<1> QED  BY <1>1, <1>2 DEF ListInv, ListTypeOK, OneSelected, LastIsCurrent, ToBeRead

\* A gesture or a failure leaves the rest of the history alone.
TaleKept ==
    /\ DOMAIN tale' = {"gestures", "failures", "unaware", "served", "shown"}
    /\ tale'.served = tale.served /\ tale'.shown = tale.shown

\* What a gesture and a failure make of the history.
LEMMA TaleOf ==
    ASSUME ListTypeOK
    PROVE  /\ Gesture => TaleKept /\ tale'.unaware = tale.unaware
           /\ Failure \/ Untold => TaleKept /\ tale'.unaware
BY DEF ListTypeOK, Gesture, Failure, Untold, TaleKept

\* What Reselect makes of a page.
LEMMA Reselected ==
    ASSUME NEW p, DOMAIN p = {"sel", "nav", "list"}, p.sel \in ConversationIds \cup {Nobody},
           p.nav \subseteq ConversationIds \cup {Nobody}, p.list \subseteq ConversationIds, Reselect(p)
    PROVE  /\ DOMAIN page' = {"sel", "nav", "list"} /\ page'.sel = p.sel /\ page'.list = p.list
           /\ page'.nav \subseteq ConversationIds \cup {Nobody}
           /\ OneSelected'
<1>1. CASE p.list # {} /\ p.sel \notin p.list
  <2>1. PICK c \in p.list : page' = [p EXCEPT !.nav = {c}]
    BY <1>1 DEF Reselect
  <2> QED  BY <2>1 DEF OneSelected
<1>2. CASE ~(p.list # {} /\ p.sel \notin p.list)
  BY <1>2 DEF Reselect, OneSelected
<1> QED  BY <1>1, <1>2

\* The URL, the choice of a conversation, and the answers to the list.
LEMMA NavigationKeeps ==
    ASSUME ListInv
    PROVE  /\ Navigate => ListInv'
           /\ \A c \in ConversationIds : Select(c) => ListInv'
           /\ \A a \in asking : ServeConversations(a) => ListInv'
           /\ \A a \in asking : ArriveConversations(a) => ListInv'
           /\ \A a \in asking : FailConversations(a) => ListInv'
<1>0. ListTypeOK /\ OneSelected /\ LastIsCurrent
  BY DEF ListInv
<1>1. ASSUME Navigate  PROVE ListInv'
  <2> DEFINE c == CHOOSE c \in page.nav : TRUE
             p == [page EXCEPT !.sel = c, !.nav = {}]
  <2>1. c \in page.nav /\ Reselect(p) /\ UNCHANGED <<members, hidden, asking, doing, tale, notices>>
    BY <1>1 DEF Navigate
  <2>2. /\ DOMAIN p = {"sel", "nav", "list"} /\ p.sel = c /\ p.nav = {} /\ p.list = page.list
    BY <1>0 DEF ListTypeOK
  <2> HIDE DEF c, p
  <2>3. /\ DOMAIN page' = {"sel", "nav", "list"} /\ page'.sel = c /\ page'.list = page.list
        /\ page'.nav \subseteq ConversationIds \cup {Nobody} /\ OneSelected'
    BY <1>0, <2>1, <2>2, Reselected DEF ListTypeOK
  <2>4. ListTypeOK'
    BY <1>0, <2>1, <2>3 DEF ListTypeOK
  <2>5. LastIsCurrent'
    BY <1>0, <2>1, <2>3 DEF LastIsCurrent, ToBeRead, Visible
  <2> QED  BY <2>3, <2>4, <2>5 DEF ListInv
<1>2. ASSUME NEW c \in ConversationIds, Select(c)  PROVE ListInv'
  BY <1>0, <1>2, TaleOf DEF Select, ListTypeOK, TaleKept, LastIsCurrent, ToBeRead, Visible,
     OneSelected, ListInv
<1>3. ASSUME NEW a \in asking, ServeConversations(a)  PROVE ListInv'
  <2> DEFINE b == [a EXCEPT !.got = [list |-> Visible], !.nth = tale.served + 1]
  <2>1. /\ DOMAIN b = {"by", "then", "got", "nth"} /\ b.then = a.then /\ b.got = [list |-> Visible]
        /\ b.nth = tale.served + 1
    BY <1>0 DEF ListTypeOK, AskRecord
  <2>2. /\ UNCHANGED <<members, hidden, page, doing, notices>> /\ asking' = (asking \ {a}) \cup {b}
        /\ DOMAIN tale' = {"gestures", "failures", "unaware", "served", "shown"}
        /\ tale'.served = tale.served + 1 /\ tale'.shown = tale.shown
    BY <1>0, <1>3 DEF ServeConversations, ListTypeOK
  <2> HIDE DEF b
  <2>3. Visible \subseteq ConversationIds /\ b.got.list = Visible /\ AskRecord(b)
    BY <1>0, <2>1 DEF ListTypeOK, AskRecord, ListAnswers, Visible
  <2>4. ListTypeOK'
    BY <1>0, <2>1, <2>2, <2>3 DEF ListTypeOK, AskRecord
  <2>5. \A d \in asking' : d.nth = tale'.served => d = b
    BY <1>0, <2>2 DEF ListTypeOK, AskRecord
  <2>6. LastIsCurrent'
    BY <1>0, <2>2, <2>3, <2>5 DEF LastIsCurrent, Visible, ListTypeOK
  <2>7. OneSelected'
    BY <1>0, <2>2 DEF OneSelected
  <2> QED  BY <2>4, <2>6, <2>7 DEF ListInv
<1>4. ASSUME NEW a \in asking, ArriveConversations(a)  PROVE ListInv'
  <2> DEFINE p == [page EXCEPT !.list = a.got.list]
  <2>1. /\ UNCHANGED <<members, hidden, doing, notices>> /\ asking' = asking \ {a} /\ a.got # Nobody
        /\ DOMAIN tale' = {"gestures", "failures", "unaware", "served", "shown"}
        /\ tale'.served = tale.served /\ tale'.shown = a.nth /\ tale'.unaware = tale.unaware
        /\ \/ Reselect(p)
           \/ a.then \in ConversationIds \cup {Nobody} /\ page' = [p EXCEPT !.nav = {a.then}]
    BY <1>0, <1>4 DEF ArriveConversations, ListTypeOK, AskRecord
  <2>2. a.got.list \subseteq ConversationIds /\ a.nth \in Nat /\ a.nth <= tale.served
    BY <1>0, <2>1 DEF ListTypeOK, AskRecord, ListAnswers
  <2>3. DOMAIN p = {"sel", "nav", "list"} /\ p.sel = page.sel /\ p.nav = page.nav /\ p.list = a.got.list
    BY <1>0 DEF ListTypeOK
  <2> HIDE DEF p
  <2>4. /\ DOMAIN page' = {"sel", "nav", "list"} /\ page'.sel = page.sel /\ page'.list = a.got.list
        /\ page'.nav \subseteq ConversationIds \cup {Nobody} /\ OneSelected'
    BY <1>0, <2>2, <2>3, Reselected, <2>1 DEF ListTypeOK, OneSelected
  <2>5. ListTypeOK'
    BY <1>0, <2>1, <2>2, <2>4 DEF ListTypeOK
  <2>6. ToBeRead' <=> ToBeRead
    BY <2>1 DEF ToBeRead
  <2>7. LastIsCurrent'
    BY <1>0, <2>1, <2>4, <2>6 DEF LastIsCurrent, Visible
  <2> QED  BY <2>4, <2>5, <2>7 DEF ListInv
<1>5. ASSUME NEW a \in asking, FailConversations(a)  PROVE ListInv'
  BY <1>0, <1>5, TaleOf DEF FailConversations, ListTypeOK, AskRecord, OneSelected, TaleKept,
     ListInv, LastIsCurrent, ToBeRead
<1> QED  BY <1>1, <1>2, <1>3, <1>4, <1>5

\* A change the page will read again, or cannot know of: the selection stays or moves.
LEMMA ToldOrUnaware ==
    ASSUME ListInv, TaleKept, ToBeRead', hidden' \subseteq ConversationIds, DOMAIN notices' = {"sending", "unread", "seen"},
           DOMAIN page' = {"sel", "nav", "list"}, page'.sel = page.sel, page'.list = page.list,
           page'.nav = page.nav \/ (page'.nav # {} /\ page'.nav \subseteq ConversationIds \cup {Nobody}),
           \A a \in asking' : AskRecord(a) /\ (a \in asking \/ a.nth = 0),
           DOMAIN doing' = {"hide", "open", "group", "left"},
           doing'.hide = Nobody \/ doing'.hide \in HideCalls,
           doing'.group \in Groups \cup {Nobody}, doing'.group = Nobody => doing'.left = {}
    PROVE  ListInv'
BY DEF ListInv, ListTypeOK, OneSelected, LastIsCurrent, TaleKept

\* What changes on the server without the page: it is told, or does not know.
LEMMA HidingKeeps ==
    ASSUME ListInv
    PROVE  /\ \A c \in ConversationIds :
                  HiddenElsewhere(c) \/ ShownElsewhere(c) \/ AddedByOthers(c) => ListInv'
           /\ \A c \in ConversationIds : AskHide(c) => ListInv'
           /\ ServeHide => ListInv'
           /\ EndHide => ListInv'
           /\ FailHide => ListInv'
<1>0. ListTypeOK
  BY DEF ListInv
<1>2. ASSUME NEW c \in ConversationIds, HiddenElsewhere(c) \/ ShownElsewhere(c) \/ AddedByOthers(c)
      PROVE  ListInv'
  BY <1>0, <1>2, TaleOf, ToldOrUnaware DEF HiddenElsewhere, ShownElsewhere, AddedByOthers, ListTypeOK,
     ToBeRead
<1>3. ASSUME NEW c \in ConversationIds, AskHide(c)  PROVE ListInv'
  <2> DEFINE h == [conv |-> c, sel |-> page.sel, list |-> page.list, served |-> FALSE]
  <2>1. /\ TaleKept /\ UNCHANGED <<page, asking, hidden, notices>>
        /\ DOMAIN doing' = {"hide", "open", "group", "left"} /\ doing'.hide = h
        /\ doing'.open = doing.open /\ doing'.group = doing.group /\ doing'.left = doing.left
    BY <1>0, <1>3, TaleOf DEF AskHide, ListTypeOK
  <2>2. h \in HideCalls
    BY <1>0 DEF HideCalls, ListTypeOK
  <2> HIDE DEF h
  <2>3. ToBeRead'
    BY <2>1, <2>2, NobodyAssumption DEF HideCalls, ToBeRead
  <2> QED  BY <1>0, <2>1, <2>2, <2>3, ToldOrUnaware DEF ListTypeOK
<1>4. ASSUME ServeHide  PROVE ListInv'
  <2> DEFINE h == [doing.hide EXCEPT !.served = TRUE]
  <2>1. /\ UNCHANGED <<page, asking, tale, notices>> /\ hidden' = hidden \cup {doing.hide.conv}
        /\ doing' = [doing EXCEPT !.hide = h] /\ doing.hide # Nobody
    BY <1>4 DEF ServeHide
  <2>2. h \in HideCalls /\ doing.hide.conv \in ConversationIds
    BY <1>0, <2>1 DEF HideCalls, ListTypeOK
  <2> HIDE DEF h
  <2>3. /\ DOMAIN doing' = {"hide", "open", "group", "left"} /\ doing'.hide = h
        /\ doing'.open = doing.open /\ doing'.group = doing.group /\ doing'.left = doing.left
    BY <1>0, <2>1 DEF ListTypeOK
  <2>4. ToBeRead' /\ TaleKept
    BY <1>0, <2>1, <2>2, <2>3, NobodyAssumption DEF HideCalls, ToBeRead, TaleKept, ListTypeOK
  <2> QED  BY <1>0, <2>1, <2>2, <2>3, <2>4, ToldOrUnaware DEF ListTypeOK
<1>5. ASSUME EndHide  PROVE ListInv'
  <2> DEFINE n == Asking("hide", Nobody)
  <2>1. /\ UNCHANGED <<members, hidden, tale, notices>> /\ asking' = asking \cup {n}
        /\ DOMAIN doing' = {"hide", "open", "group", "left"} /\ doing'.hide = Nobody
        /\ doing'.open = doing.open /\ doing'.group = doing.group /\ doing'.left = doing.left
        /\ doing.hide \in HideCalls
    BY <1>0, <1>5 DEF EndHide, ListTypeOK
  <2>2. AskRecord(n) /\ n.got = Nobody /\ n.nth = 0
    BY DEF Asking, AskRecord
  <2> HIDE DEF n
  <2>3. /\ DOMAIN page' = {"sel", "nav", "list"} /\ page'.sel = page.sel /\ page'.list = page.list
        /\ page'.nav = page.nav \/ (page'.nav # {} /\ page'.nav \subseteq ConversationIds \cup {Nobody})
    BY <1>5, <2>1, <1>0 DEF EndHide, HideCalls, ListTypeOK
  <2>4. ToBeRead' /\ TaleKept
    BY <1>0, <2>1, <2>2 DEF ToBeRead, TaleKept, ListTypeOK
  <2> QED  BY <1>0, <2>1, <2>2, <2>3, <2>4, ToldOrUnaware DEF ListTypeOK
<1>6. ASSUME FailHide  PROVE ListInv'
  BY <1>0, <1>6, TaleOf, ToldOrUnaware DEF FailHide, ListTypeOK, ToBeRead
<1> QED  BY <1>2, <1>3, <1>4, <1>5, <1>6

\* Messages of others, and the bell.
LEMMA MessagesKeep ==
    ASSUME ListInv
    PROVE  /\ \A c \in ConversationIds :
                  MessageComes(c) \/ NotifyRecipient(c) \/ SkipRecipient(c) => ListInv'
           /\ ReadAgain \/ PollBell \/ ReadElsewhere => ListInv'
<1>0. ListTypeOK
  BY DEF ListInv
<1>1. ASSUME NEW c \in ConversationIds, MessageComes(c) \/ NotifyRecipient(c) \/ SkipRecipient(c)
      PROVE  ListInv'
  <2>1. hidden' \subseteq hidden /\ UNCHANGED <<page, asking, doing>> /\ TaleKept
    BY <1>0, <1>1, TaleOf DEF MessageComes, NotifyRecipient, SkipRecipient, ListTypeOK, TaleKept
  <2>2. DOMAIN notices' = {"sending", "unread", "seen"} /\ ToBeRead'
    <3>1. CASE MessageComes(c)
      BY <1>0, <3>1 DEF MessageComes, ListTypeOK, ToBeRead
    <3>2. CASE NotifyRecipient(c)
      BY <1>0, <3>2 DEF NotifyRecipient, ListTypeOK, ToBeRead
    <3>3. CASE SkipRecipient(c)
      BY <1>0, <3>3 DEF SkipRecipient, ListTypeOK, ToBeRead
    <3> QED  BY <1>1, <3>1, <3>2, <3>3
  <2> QED  BY <1>0, <2>1, <2>2, ToldOrUnaware DEF ListTypeOK
<1>2. ASSUME ReadAgain \/ PollBell \/ ReadElsewhere  PROVE ListInv'
  <2> DEFINE n == Asking("event", Nobody)
             still == asking' = asking /\ tale'.unaware = tale.unaware /\ ~notices.unread
  <2>1. AskRecord(n) /\ n.got = Nobody /\ n.nth = 0
    BY DEF Asking, AskRecord
  <2>2. /\ UNCHANGED <<hidden, page, doing, members>> /\ TaleKept
        /\ DOMAIN notices' = {"sending", "unread", "seen"} /\ notices'.sending = notices.sending
        /\ asking' = asking \cup {n} \/ (asking' = asking /\ tale'.unaware) \/ still
    BY <1>0, <1>2, TaleOf DEF ReadAgain, PollBell, ReadElsewhere, Untold, ListTypeOK, TaleKept
  <2> HIDE DEF n
  <2>3. CASE still
    BY <2>2, <2>3 DEF ListTypeOK, ListInv, OneSelected, LastIsCurrent, ToBeRead, Visible, TaleKept
  <2>4. CASE ~still
    BY <1>0, <2>1, <2>2, <2>4, ToldOrUnaware DEF ListTypeOK, ToBeRead
  <2> QED  BY <2>3, <2>4
<1> QED  BY <1>1, <1>2

\* Opening a private conversation.
LEMMA OpeningKeeps ==
    ASSUME ListInv
    PROVE  /\ AskOpen => ListInv'
           /\ ServeOpen => ListInv'
           /\ EndOpen => ListInv'
           /\ FailOpen => ListInv'
<1>0. ListTypeOK
  BY DEF ListInv
<1>1. ASSUME AskOpen \/ ServeOpen \/ FailOpen  PROVE ListInv'
  BY <1>0, TaleOf, <1>1, ToldOrUnaware DEF AskOpen, ListTypeOK, ServeOpen, TaleKept, FailOpen,
     ToBeRead
<1>2. ASSUME EndOpen  PROVE ListInv'
  <2> DEFINE n == Asking("contact", Nobody)
  <2>1. /\ UNCHANGED <<members, hidden, tale, notices>> /\ asking' = asking \cup {n}
        /\ DOMAIN doing' = {"hide", "open", "group", "left"} /\ doing'.hide = doing.hide
        /\ doing'.group = doing.group /\ doing'.left = doing.left
        /\ DOMAIN page' = {"sel", "nav", "list"} /\ page'.sel = page.sel /\ page'.list = page.list
        /\ page'.nav = {Fresh}
    BY <1>0, <1>2 DEF EndOpen, ListTypeOK
  <2>2. AskRecord(n) /\ n.got = Nobody /\ n.nth = 0
    BY DEF Asking, AskRecord
  <2> HIDE DEF n
  <2>3. ToBeRead' /\ TaleKept /\ Fresh \in ConversationIds
    BY <1>0, <2>1, <2>2 DEF ToBeRead, TaleKept, ListTypeOK, ConversationIds
  <2> QED  BY <1>0, <2>1, <2>2, <2>3, ToldOrUnaware DEF ListTypeOK
<1> QED  BY <1>1, <1>2

\* Creating a group.
LEMMA GroupKeeps ==
    ASSUME ListInv
    PROVE  /\ \A g \in Groups : AskGroup(g) => ListInv'
           /\ \A u \in doing.left : AddParticipant(u) => ListInv'
           /\ EndGroup => ListInv'
           /\ FailGroup => ListInv'
<1>0. ListTypeOK /\ Groups \subseteq ConversationIds
  BY DEF ListInv, ConversationIds
<1>1. ASSUME NEW g \in Groups, AskGroup(g)  PROVE ListInv'
  BY <1>0, <1>1, TaleOf, NobodyAssumption, ToldOrUnaware DEF AskGroup, ListTypeOK, HideCalls,
     ToBeRead
<1>2. ASSUME NEW u \in doing.left, AddParticipant(u)  PROVE ListInv'
  BY <1>0, <1>2, ToldOrUnaware DEF AddParticipant, ListTypeOK, ToBeRead, TaleKept
<1>3. ASSUME EndGroup  PROVE ListInv'
  <2> DEFINE m == Asking("event", Nobody)
             n == Asking("group", doing.group)
  <2>1. /\ UNCHANGED <<members, hidden, tale, page, notices>> /\ asking' = asking \cup {m, n}
        /\ DOMAIN doing' = {"hide", "open", "group", "left"} /\ doing'.hide = doing.hide
        /\ doing'.group = Nobody /\ doing'.left = {}
    BY <1>0, <1>3 DEF EndGroup, ListTypeOK
  <2>2. AskRecord(m) /\ m.got = Nobody /\ m.nth = 0 /\ AskRecord(n) /\ n.nth = 0
    BY <1>0 DEF Asking, AskRecord, ListTypeOK
  <2> HIDE DEF m, n
  <2>3. ToBeRead' /\ TaleKept
    BY <1>0, <2>1, <2>2 DEF ToBeRead, TaleKept, ListTypeOK
  <2> QED  BY <1>0, <2>1, <2>2, <2>3, ToldOrUnaware DEF ListTypeOK
<1>4. ASSUME FailGroup  PROVE ListInv'
  BY <1>0, <1>4, TaleOf, ToldOrUnaware DEF FailGroup, ListTypeOK, ToBeRead
<1> QED  BY <1>1, <1>2, <1>3, <1>4

\* Every step of the page of conversations keeps this, ...
LEMMA ListSteps ==
    ASSUME ListInv, [PageNext]_pageVars
    PROVE  ListInv'
<1>1. CASE UNCHANGED pageVars
  BY <1>1 DEF pageVars, ListInv, ListTypeOK, AskRecord, OneSelected, LastIsCurrent, ToBeRead, Visible
<1> QED  BY <1>1, NavigationKeeps, HidingKeeps, MessagesKeep, OpeningKeeps, GroupKeeps DEF PageNext

\* ... so that at rest the list is the server's.
LEMMA ListPromises ==
    ASSUME ListInv
    PROVE  PageCatchesUp
BY DEF AtRest, ToBeRead, PageCatchesUp, ListInv, ListTypeOK, OneSelected, LastIsCurrent

-----------------------------------------------------------------------------
(* The overview of the analytics page *)

\* The page opens with one request, or is not opened.
LEMMA OverviewOpens ==
    ASSUME AnalyticsInit
    PROVE  OverviewInv
<1>1. PICK b \in AnalyticsBounds, kind \in {"client", "staff"} :
          /\ askLog = [left |-> b, kind |-> kind, latest |-> b.selections + 2, overtaken |-> FALSE]
          /\ asks = IF b.opened THEN {Ask(kind, b.selections + 1, months)} ELSE {}
  BY DEF AnalyticsInit
<1> DEFINE a == Ask(kind, b.selections + 1, months)
<1>2. DOMAIN a = AskFields /\ a.n = b.selections + 1 /\ a.months = months /\ a.answer = NoFigures
  BY DEF Ask, AskFields
<1>8. asks = IF b.opened THEN {a} ELSE {}
  BY <1>1
<1> HIDE DEF a
<1>3. "selections" \in DOMAIN b /\ b.selections \in Nat
  BY AnalyticsAssumption
<1>4. shown = NoFigures
  BY DEF AnalyticsInit
<1>5. /\ DOMAIN askLog = {"left", "kind", "latest", "overtaken"} /\ askLog.left = b
      /\ askLog.latest = b.selections + 2
  BY <1>1
<1>6. \A d \in asks : d = a
  BY <1>8
<1>7. asks = {} \/ a \in asks
  BY <1>8
<1> QED  BY <1>2, <1>3, <1>4, <1>5, <1>6, <1>7
         DEF OverviewInv, OverviewTypeOK, LastIsKnown, ShownIsSelected, LastAsked

\* A request that gets on is still the same one, and its answer is of its months.
LEMMA AskGetsOn ==
    ASSUME OverviewInv, NEW a \in asks, NEW b, Sent(a, b), UNCHANGED <<months, shown, failed, askLog>>,
           DOMAIN b = AskFields, b.n = a.n, b.months = a.months,
           b.answer = a.answer \/ b.answer.months = a.months
    PROVE  OverviewInv'
BY DEF Sent, OverviewInv, OverviewTypeOK, LastIsKnown, ShownIsSelected, LastAsked

\* The figures carry the number of months they were asked for.
LEMMA FiguresOfMonths ==
    ASSUME NEW a, NEW bank, NEW list, NEW listed
    PROVE  Figures(a, bank, list, listed).months = a.months
BY DEF Figures

\* The queries of the service.
LEMMA ServiceSteps ==
    ASSUME OverviewInv, NEW a \in asks, ReadClients(a) \/ ReadBank(a) \/ ReadRows(a) \/ Compute(a)
    PROVE  OverviewInv'
<1>1. DOMAIN a = AskFields
  BY DEF OverviewInv, OverviewTypeOK
<1>2. UNCHANGED <<months, shown, failed, askLog>>
  BY DEF ReadClients, ReadBank, ReadRows, Compute, pageUnchanged
<1>3. CASE ReadClients(a)
  <2> DEFINE b == [a EXCEPT !.scope = "clients"]
             f == Figures(a, 0, {}, ListedMonths(a.months))
             c == [a EXCEPT !.scope = "nobody", !.answer = f]
  <2>1. Sent(a, b) \/ Sent(a, c)
    BY <1>3 DEF ReadClients
  <2>2. f.months = a.months
    BY FiguresOfMonths
  <2> HIDE DEF f
  <2>3. /\ DOMAIN b = AskFields /\ b.n = a.n /\ b.months = a.months /\ b.answer = a.answer
        /\ DOMAIN c = AskFields /\ c.n = a.n /\ c.months = a.months /\ c.answer = f
    BY <1>1 DEF AskFields
  <2> HIDE DEF b, c
  <2> QED  BY <1>2, <2>1, <2>2, <2>3, AskGetsOn
<1>4. CASE ReadBank(a)
  <2>1. PICK x : Sent(a, [a EXCEPT !.bank = x])
    BY <1>4 DEF ReadBank
  <2> DEFINE b == [a EXCEPT !.bank = x]
  <2>2. DOMAIN b = AskFields /\ b.n = a.n /\ b.months = a.months /\ b.answer = a.answer
    BY <1>1 DEF AskFields
  <2> HIDE DEF b
  <2> QED  BY <1>2, <2>1, <2>2, AskGetsOn DEF b
<1>5. CASE ReadRows(a)
  <2>1. PICK x : Sent(a, [a EXCEPT !.rows = x])
    BY <1>5 DEF ReadRows
  <2> DEFINE b == [a EXCEPT !.rows = x]
  <2>2. DOMAIN b = AskFields /\ b.n = a.n /\ b.months = a.months /\ b.answer = a.answer
    BY <1>1 DEF AskFields
  <2> HIDE DEF b
  <2> QED  BY <1>2, <2>1, <2>2, AskGetsOn DEF b
<1>6. CASE Compute(a)
  <2> DEFINE f == Figures(a, a.bank.value, a.rows.list, ListedMonths(a.months))
             b == [a EXCEPT !.answer = f]
  <2>1. Sent(a, b)
    BY <1>6 DEF Compute
  <2>2. f.months = a.months
    BY FiguresOfMonths
  <2> HIDE DEF f
  <2>3. DOMAIN b = AskFields /\ b.n = a.n /\ b.months = a.months /\ b.answer = f
    BY <1>1 DEF AskFields
  <2> HIDE DEF b
  <2> QED  BY <1>2, <2>1, <2>2, <2>3, AskGetsOn
<1> QED  BY <1>3, <1>4, <1>5, <1>6

\* A number of months is selected, or the request made again.
LEMMA SelectKeeps ==
    ASSUME OverviewInv, NEW m, SelectMonths(m)
    PROVE  OverviewInv'
<1> DEFINE a == Ask(askLog.kind, askLog.left.selections, m)
<1>1. DOMAIN a = AskFields /\ a.n = askLog.left.selections /\ a.months = m /\ a.answer = NoFigures
  BY DEF Ask, AskFields
<1>2. asks' = asks \cup {a} /\ months' = m /\ shown' = shown /\ askLog.left.selections > 0
  BY DEF SelectMonths
<1> HIDE DEF a
<1>3. /\ DOMAIN askLog' = {"left", "kind", "latest", "overtaken"}
      /\ "selections" \in DOMAIN askLog'.left
      /\ askLog'.left.selections = askLog.left.selections - 1
      /\ askLog'.latest = askLog.latest
  BY DEF SelectMonths, OverviewInv, OverviewTypeOK
<1> QED  BY <1>1, <1>2, <1>3
         DEF OverviewInv, OverviewTypeOK, LastIsKnown, ShownIsSelected, LastAsked

\* An answer is shown, whatever was asked since.
LEMMA ArriveFiguresKeeps ==
    ASSUME OverviewInv, NEW a \in asks, ArriveFigures(a)
    PROVE  OverviewInv'
<1>1. /\ asks' = asks \ {a} /\ months' = months /\ failed' = failed /\ shown' = a.answer
      /\ a.answer # NoFigures
      /\ DOMAIN askLog' = {"left", "kind", "latest", "overtaken"} /\ askLog'.left = askLog.left
      /\ askLog'.latest = IF a.n < askLog.latest THEN a.n ELSE askLog.latest
      /\ askLog'.overtaken = (askLog.latest < a.n)
  BY DEF ArriveFigures, OverviewInv, OverviewTypeOK
<1>2. /\ a.n \in Nat /\ a.n >= LastAsked /\ LastAsked \in Nat /\ askLog.latest \in Nat
      /\ LastAsked' = LastAsked
      /\ a.answer.months = a.months /\ (a.n = LastAsked => a.months = months)
  BY <1>1 DEF OverviewInv, OverviewTypeOK, LastAsked
<1>3. OverviewTypeOK'
  BY <1>1, <1>2 DEF OverviewInv, OverviewTypeOK, LastAsked
<1>4. \/ a.n = LastAsked \/ \E d \in asks \ {a} : d.n = LastAsked
      \/ failed \/ askLog.latest <= LastAsked
  BY DEF OverviewInv, LastIsKnown
<1>5. LastIsKnown'
  BY <1>1, <1>2, <1>4 DEF LastIsKnown
<1>6. ShownIsSelected'
  <2>1. CASE a.n = LastAsked
    BY <1>1, <1>2, <2>1 DEF ShownIsSelected
  <2>2. CASE \E d \in asks \ {a} : d.n = LastAsked
    BY <1>1, <1>2, <2>2 DEF ShownIsSelected
  <2>3. CASE failed
    BY <1>1, <2>3 DEF ShownIsSelected
  <2>4. CASE askLog.latest <= LastAsked /\ a.n # LastAsked
    <3>1. askLog'.overtaken
      <4>1. (askLog.latest < a.n) = TRUE
        BY <1>2, <2>4
      <4> QED  BY <1>1, <4>1, Zenon
    <3> QED  BY <3>1 DEF ShownIsSelected
  <2> QED  BY <1>4, <2>1, <2>2, <2>3, <2>4
<1> QED  BY <1>3, <1>5, <1>6 DEF OverviewInv

\* A request fails: the page says so.
LEMMA FailFiguresKeeps ==
    ASSUME OverviewInv, NEW a \in asks, FailFigures(a)
    PROVE  OverviewInv'
BY DEF FailFigures, OverviewInv, OverviewTypeOK, LastIsKnown, ShownIsSelected, LastAsked

\* Every step of the analytics page keeps this, ...
LEMMA OverviewSteps ==
    ASSUME OverviewInv, [AnalyticsNext]_analyticsVars
    PROVE  OverviewInv'
BY ServiceSteps, SelectKeeps, ArriveFiguresKeeps, FailFiguresKeeps DEF OverviewInv, OverviewTypeOK,
   LastIsKnown, ShownIsSelected, LastAsked, AnalyticsNext, analyticsVars

\* ... so that the figures shown are those selected.
LEMMA OverviewPromises ==
    ASSUME OverviewInv
    PROVE  FiguresAreSelected
BY DEF OverviewInv, ShownIsSelected, FiguresAreSelected

-----------------------------------------------------------------------------
(* The statements, and the figures made of the same lines *)

\* A later instant is of the same day or a later one.
LEMMA DaysGrow ==
    ASSUME NEW x \in Nat, NEW y \in Nat, x <= y
    PROVE  DayOf(x) \in Nat /\ DayOf(y) \in Nat /\ DayOf(x) <= DayOf(y)
<1> PICK t \in Nat \ {0} : t = TicksPerDay  BY StatementAssumption
<1> DEFINE p == x \div t
           q == y \div t
<1>1. p \in Nat /\ q \in Nat  OBVIOUS
<1>2. t * p <= x /\ y < t * q + t  OBVIOUS
<1> HIDE DEF p, q
<1>3. ASSUME q < p  PROVE FALSE
  <2>1. PICK d \in Nat : p = q + 1 + d  BY <1>1, <1>3
  <2>2. t * p = t * q + t + t * d /\ t * d \in Nat /\ t * q \in Nat  BY <1>1, <2>1
  <2> QED  BY <1>2, <2>2
<1> QED  BY <1>1, <1>3 DEF DayOf, p, q

\* A part of a list is added up like the list.
LEMMA TotalWithin ==
    ASSUME NEW S, NEW T \in SUBSET S, IsFiniteSet(T)
    PROVE  Total(T) = SumFunctionOnSet([l \in S |-> l.amount], T)
<1> DEFINE f == [l \in S |-> l.amount]
           g == [l \in T |-> l.amount]
<1>1. \A x \in T : g[x] = f[x]  OBVIOUS
<1> HIDE DEF f, g
<1>2. SumFunctionOnSet(g, T) = SumFunctionOnSet(f, T)  BY <1>1, SumOfEqual
<1> QED  BY <1>2 DEF Total, f, g

\* Totals are integers, and those of two lists without a line in common add up.
LEMMA TotalOfDisjoint ==
    ASSUME NEW S, IsFiniteSet(S), NEW T, IsFiniteSet(T), S \cap T = {},
           \A l \in S \cup T : l.amount \in Int
    PROVE  /\ Total(S) \in Int /\ Total(T) \in Int
           /\ Total(S \cup T) = Total(S) + Total(T)
<1> DEFINE f == [l \in S \cup T |-> l.amount]
<1>1. \A l \in S \cup T : f[l] \in Int  OBVIOUS
<1>2. Total(S \cup T) = SumFunctionOnSet(f, S \cup T)  BY DEF Total
<1>3. Total(S) = SumFunctionOnSet(f, S) /\ Total(T) = SumFunctionOnSet(f, T)
  BY TotalWithin
<1> HIDE DEF f
<1>4. SumFunctionOnSet(f, S) \in Int /\ SumFunctionOnSet(f, T) \in Int
  BY <1>1, SumIsInteger
<1>5. SumFunctionOnSet(f, S \cup T) = SumFunctionOnSet(f, S) + SumFunctionOnSet(f, T)
  BY <1>1, SumOfDisjoint
<1> QED  BY <1>2, <1>3, <1>4, <1>5

\* The total of a list of one line.
LEMMA TotalOfOne ==
    ASSUME NEW l, l.amount \in Int
    PROVE  Total({l}) = l.amount
<1> DEFINE f == [m \in {l} |-> m.amount]
<1>1. IsFiniteSet({l}) /\ l \in {l} /\ {l} \ {l} = {} /\ f[l] = l.amount /\ \A x \in {l} : f[x] \in Int
  BY FS_Singleton
<1>2. Total({l}) = SumFunctionOnSet(f, {l})  BY DEF Total
<1> HIDE DEF f
<1>3. SumFunctionOnSet(f, {l}) = f[l] + SumFunctionOnSet(f, {l} \ {l})
  BY <1>1, SumTakesAny
<1>4. SumFunctionOnSet(f, {}) = 0  BY SumOfNone
<1> QED  BY <1>1, <1>2, <1>3, <1>4

\* Lines of which each continues the balance of the one before add up to the difference
\* of the balances.
LEMMA TotalOfRun ==
    ASSUME NEW n \in Nat, NEW r,
           \A j \in 1..n : r[j].amount \in Int /\ r[j].after \in Int,
           \A i, j \in 1..n : r[i] = r[j] => i = j,
           \A j \in 2..n : r[j].after = r[j - 1].after + r[j].amount,
           NEW i \in 1..n, NEW k \in i..n
    PROVE  Total({r[j] : j \in i..k}) = r[k].after - r[i].after + r[i].amount
<1> DEFINE Run(m) == {r[j] : j \in i..m}
           Wrong == {m \in i..n : Total(Run(m)) # r[m].after - r[i].after + r[i].amount}
<1> SUFFICES Wrong = {}  OBVIOUS
<1>1. SUFFICES ASSUME Wrong # {}  PROVE FALSE  OBVIOUS
<1>2. Wrong \in SUBSET Nat  OBVIOUS
<1> HIDE DEF Wrong
<1>3. PICK m \in Wrong : \A l \in Wrong : m <= l  BY <1>1, <1>2, LeastNatural
<1>4. m \in i..n /\ Total(Run(m)) # r[m].after - r[i].after + r[i].amount  BY DEF Wrong
<1>5. m # i
  <2> SUFFICES ASSUME m = i  PROVE FALSE  OBVIOUS
  <2>1. Run(m) = {r[i]}  OBVIOUS
  <2>2. r[i].after \in Int /\ r[i].amount \in Int  OBVIOUS
  <2>3. Total(Run(m)) = r[i].amount  BY <2>1, <2>2, TotalOfOne, Zenon
  <2> HIDE DEF Run
  <2> QED  BY <1>4, <2>2, <2>3
<1>6. m - 1 \in i..n /\ m - 1 < m /\ m \in 2..n /\ m \in 1..n  BY <1>4, <1>5
<1>7. Total(Run(m - 1)) = r[m - 1].after - r[i].after + r[i].amount
  <2>1. m - 1 \notin Wrong
    <3> SUFFICES ASSUME m - 1 \in Wrong  PROVE FALSE  OBVIOUS
    <3>1. m <= m - 1  BY <1>3
    <3> QED  BY <3>1, <1>6
  <2>2. \A l \in (i..n) \ Wrong : Total(Run(l)) = r[l].after - r[i].after + r[i].amount
    BY DEF Wrong
  <2> QED  BY <2>1, <2>2, <1>6
<1>8. Run(m) = Run(m - 1) \cup {r[m]} /\ Run(m - 1) \cap {r[m]} = {}
  BY <1>4, <1>6
<1>9. IsFiniteSet(Run(m - 1)) /\ IsFiniteSet({r[m]})
  <2>1. IsFiniteSet(i..(m - 1))  BY <1>6, FS_Interval
  <2> PICK s, t : s = i..(m - 1) /\ t = Run(m - 1)  OBVIOUS
  <2>2. IsFiniteSet(s) /\ \A l \in t : \E j \in s : l = r[j]  BY <2>1
  <2>3. IsFiniteSet(t)  BY ONLY <2>2, NamesFinite
  <2> QED  BY <2>3, FS_Singleton
<1>10. \A l \in Run(m - 1) \cup {r[m]} : l.amount \in Int
  BY <1>4, <1>6
<1>11. r[m].after = r[m - 1].after + r[m].amount /\ m - 1 \in 1..n  BY <1>6
<1>12. Total({r[m]}) = r[m].amount /\ r[m].amount \in Int /\ r[m - 1].after \in Int /\ r[i].after \in Int
       /\ r[i].amount \in Int
  BY <1>6, <1>11, TotalOfOne
<1> HIDE DEF Run
<1>13. Total(Run(m)) = Total(Run(m - 1)) + Total({r[m]})
  BY <1>8, <1>9, <1>10, TotalOfDisjoint
<1> QED  BY <1>4, <1>7, <1>11, <1>12, <1>13

\* The statements read an amount as it was written.
LEMMA ReadIsWritten ==
    ASSUME NEW l, l.amount \in Int, l.type \in {"debit", "transfer"}, l.type = "debit" <=> l.amount < 0
    PROVE  /\ Read(l).amount = l.amount /\ Read(l).after = l.after
           /\ Read(l).at = l.at /\ Read(l).day = DayOf(l.at)
<1>1. SignOf(l) * Size(l.amount) = l.amount
  BY DEF SignOf, Size
<1> QED  BY <1>1 DEF Read

\* What the lines are, as the statements read them.
LEMMA LinesRead ==
    ASSUME LinesInv
    PROVE  /\ Len(lines) \in Nat /\ DOMAIN lines = 1..Len(lines)
           /\ \A j \in 1..Len(lines) :
                 /\ lines[j].amount \in Int /\ lines[j].after \in Int
                 /\ lines[j].at \in Nat /\ lines[j].at <= clock
                 /\ Read(lines[j]).amount = lines[j].amount /\ Read(lines[j]).after = lines[j].after
                 /\ Read(lines[j]).at = lines[j].at /\ Read(lines[j]).day = DayOf(lines[j].at)
                 /\ DayOf(lines[j].at) \in 0..DayOf(clock)
           /\ \A j \in 2..Len(lines) : lines[j].after = lines[j - 1].after + lines[j].amount
           /\ \A i, j \in 1..Len(lines) : lines[i].at = lines[j].at => i = j
<1>1. Len(lines) \in Nat /\ DOMAIN lines = 1..Len(lines)  BY DEF LinesInv, LinesTypeOK
<1>2. ASSUME NEW j \in 1..Len(lines)
      PROVE  /\ lines[j].amount \in Int /\ lines[j].after \in Int
             /\ lines[j].at \in Nat /\ lines[j].at <= clock
             /\ Read(lines[j]).amount = lines[j].amount /\ Read(lines[j]).after = lines[j].after
             /\ Read(lines[j]).at = lines[j].at /\ Read(lines[j]).day = DayOf(lines[j].at)
             /\ DayOf(lines[j].at) \in 0..DayOf(clock)
  <2>1. /\ lines[j] \in [at : Nat, after : Int, type : {"debit", "transfer"}, amount : Int]
        /\ lines[j].at <= clock /\ (lines[j].type = "debit" <=> lines[j].amount < 0) /\ clock \in Nat
    <3> DEFINE R == [at : Nat, after : Int, type : {"debit", "transfer"}, amount : Int]
    <3>1. lines \in Seq(R)  BY DEF LinesInv, LinesTypeOK
    <3>2. lines[j] \in R
      <4> HIDE DEF R
      <4> QED  BY <3>1
    <3> QED  BY <3>2, <1>1 DEF LinesInv, LinesTypeOK
  <2> PICK l : l = lines[j]  OBVIOUS
  <2>2. l.at \in Nat /\ l.after \in Int /\ l.type \in {"debit", "transfer"} /\ l.amount \in Int
    BY <2>1
  <2>3. DayOf(l.at) \in Nat /\ DayOf(clock) \in Nat /\ DayOf(l.at) <= DayOf(clock)
    BY <2>1, <2>2, DaysGrow
  <2>4. /\ Read(l).amount = l.amount /\ Read(l).after = l.after
        /\ Read(l).at = l.at /\ Read(l).day = DayOf(l.at)
    BY <2>1, <2>2, ReadIsWritten
  <2> QED  BY <2>1, <2>2, <2>3, <2>4
<1>3. ASSUME NEW j \in 2..Len(lines)  PROVE lines[j].after = lines[j - 1].after + lines[j].amount
  BY <1>1 DEF AfterLine, LinesInv, LinesChain
<1>4. \A i, j \in 1..Len(lines) : lines[i].at = lines[j].at => i = j
  BY <1>1 DEF LinesInv, StampsDiffer
<1> QED  BY <1>1, <1>2, <1>3, <1>4

\* Unless transfers crossed, the lines of a period were committed one after another, in the
\* order of their instants.
LEMMA PeriodIsRun ==
    ASSUME LinesInv, ~Crossed, NEW from \in Nat, NEW to \in Nat, Listed(from, to) # {}
    PROVE  \E i, k \in 1..Len(lines) :
              /\ i <= k /\ Listed(from, to) = {Read(lines[j]) : j \in i..k}
              /\ from = 0 /\ to = DayOf(clock) => k = Len(lines)
<1> DEFINE n == Len(lines)
           Within == {j \in 1..n : DayOf(lines[j].at) \in from..to}
<1>1. /\ n \in Nat /\ DOMAIN lines = 1..n
      /\ \A j \in 1..n : lines[j].at \in Nat /\ Read(lines[j]).day = DayOf(lines[j].at)
                         /\ DayOf(lines[j].at) \in 0..DayOf(clock)
  BY LinesRead
<1>2. Listed(from, to) = {Read(lines[j]) : j \in Within}
  BY <1>1 DEF Listed, ToSet
<1>3. Within \in SUBSET Nat /\ Within # {} /\ Within \in SUBSET (1..n)
  BY <1>2
<1>12. \A j : j \in Within <=> j \in 1..n /\ DayOf(lines[j].at) \in from..to
  OBVIOUS
<1> HIDE DEF n, Within
<1>4. \A i, j \in 1..n : i <= j => DayOf(lines[i].at) <= DayOf(lines[j].at)
  <2> SUFFICES ASSUME NEW i \in 1..n, NEW j \in 1..n, i <= j
               PROVE  DayOf(lines[i].at) <= DayOf(lines[j].at)
    OBVIOUS
  <2>1. lines[i].at <= lines[j].at
    <3>1. i < j => ~(lines[i].at > lines[j].at)  BY <1>1 DEF Crossed
    <3> QED  BY <3>1, <1>1
  <2> QED  BY <1>1, <2>1, DaysGrow
<1>5. PICK i \in Within : \A j \in Within : i <= j
  BY <1>3, LeastNatural
<1> DEFINE Behind == {n - j : j \in Within}
<1>6. Behind \in SUBSET Nat /\ Behind # {}
  BY <1>1, <1>3
<1>7. PICK b \in Behind : \A c \in Behind : b <= c
  <2> HIDE DEF Behind
  <2> QED  BY <1>6, LeastNatural
<1>8. PICK k \in Within : b = n - k
  BY <1>7
<1>9. ASSUME NEW j \in Within  PROVE j <= k
  <2>1. b <= n - j  BY <1>7
  <2> QED  BY <2>1, <1>1, <1>3, <1>8
<1>10. Within = i..k
  <2>1. \A j \in Within : j \in i..k  BY <1>3, <1>5, <1>9
  <2>2. ASSUME NEW j \in i..k  PROVE j \in Within
    <3>1. i \in 1..n /\ k \in 1..n /\ j \in 1..n  BY <1>1, <1>3
    <3>2. DayOf(lines[i].at) \in from..to /\ DayOf(lines[k].at) \in from..to  BY <1>12
    <3>3. DayOf(lines[i].at) <= DayOf(lines[j].at) /\ DayOf(lines[j].at) <= DayOf(lines[k].at)
      BY <1>4, <3>1
    <3>4. DayOf(lines[j].at) \in Nat  BY <1>1, <3>1
    <3> QED  BY <3>1, <3>2, <3>3, <3>4, <1>12
  <2> QED  BY <2>1, <2>2
<1>11. ASSUME from = 0, to = DayOf(clock)  PROVE k = n
  <2>1. n \in 1..n  BY <1>1, <1>3
  <2>2. n \in Within  BY <1>1, <1>11, <1>12, <2>1
  <2> QED  BY <1>1, <1>3, <1>9, <2>2
<1> QED  BY <1>2, <1>3, <1>5, <1>8, <1>9, <1>10, <1>11 DEF n

\* In either order the lines of a run begin with the first and end with the last.
LEMMA RunEnds ==
    ASSUME LinesInv, ~Crossed, NEW i \in 1..Len(lines), NEW k \in 1..Len(lines), i <= k,
           NEW list, list = {Read(lines[j]) : j \in i..k}
    PROVE  /\ FirstLine(StaffBefore, list) = Read(lines[i])
           /\ LastLine(StaffBefore, list) = Read(lines[k])
           /\ ~TwoInADay =>
                 /\ FirstLine(ClientBefore, list) = Read(lines[i])
                 /\ LastLine(ClientBefore, list) = Read(lines[k])
<1>1. ASSUME NEW j \in i..k, NEW m \in i..k, j < m
      PROVE  /\ StaffBefore(Read(lines[j]), Read(lines[m])) /\ ~StaffBefore(Read(lines[m]), Read(lines[j]))
             /\ ~TwoInADay => /\ ClientBefore(Read(lines[j]), Read(lines[m]))
                              /\ ~ClientBefore(Read(lines[m]), Read(lines[j]))
  <2>1. j \in 1..Len(lines) /\ m \in 1..Len(lines) /\ j # m  BY <1>1, LinesRead
  <2>2. lines[j].at \in Nat /\ lines[m].at \in Nat /\ lines[j].at < lines[m].at
    <3>1. lines[j].at \in Nat /\ lines[m].at \in Nat /\ lines[j].at # lines[m].at  BY <2>1, LinesRead
    <3>2. ~(lines[j].at > lines[m].at)  BY <1>1, <2>1, LinesRead DEF Crossed
    <3> QED  BY <3>1, <3>2
  <2>3. DayOf(lines[j].at) \in Nat /\ DayOf(lines[m].at) \in Nat /\ DayOf(lines[j].at) <= DayOf(lines[m].at)
    <3> PICK x, y : x = lines[j].at /\ y = lines[m].at  OBVIOUS
    <3>1. x \in Nat /\ y \in Nat /\ x <= y  BY <2>2
    <3> QED  BY <3>1, DaysGrow
  <2>4. ~TwoInADay => DayOf(lines[j].at) # DayOf(lines[m].at)
    BY <2>1, LinesRead DEF TwoInADay
  <2>5. /\ Read(lines[j]).at = lines[j].at /\ Read(lines[m]).at = lines[m].at
        /\ Read(lines[j]).day = DayOf(lines[j].at) /\ Read(lines[m]).day = DayOf(lines[m].at)
    BY <2>1, LinesRead
  <2> QED  BY <2>2, <2>3, <2>4, <2>5 DEF StaffBefore, ClientBefore
<1>2. PICK first, last : first = Read(lines[i]) /\ last = Read(lines[k])  OBVIOUS
<1>3. i \in i..k /\ k \in i..k /\ \A j \in i..k : (j # i => i < j) /\ (j # k => j < k)
  BY LinesRead
<1>4. ASSUME NEW x \in list
      PROVE  /\ x # first => /\ StaffBefore(first, x) /\ ~StaffBefore(x, first)
                             /\ ~TwoInADay => ClientBefore(first, x) /\ ~ClientBefore(x, first)
             /\ x # last => /\ StaffBefore(x, last) /\ ~StaffBefore(last, x)
                            /\ ~TwoInADay => ClientBefore(x, last) /\ ~ClientBefore(last, x)
  <2>1. PICK j \in i..k : x = Read(lines[j])  OBVIOUS
  <2>2. (x # first => i < j) /\ (x # last => j < k)  BY <1>2, <1>3, <2>1
  <2> QED  BY <1>1, <1>2, <1>3, <2>1, <2>2
<1>5. first \in list /\ last \in list  BY <1>2, <1>3
<1>6. FirstLine(StaffBefore, list) = first  BY <1>4, <1>5 DEF FirstLine
<1>7. LastLine(StaffBefore, list) = last  BY <1>4, <1>5 DEF LastLine
<1>8. ~TwoInADay => FirstLine(ClientBefore, list) = first  BY <1>4, <1>5 DEF FirstLine
<1>9. ~TwoInADay => LastLine(ClientBefore, list) = last  BY <1>4, <1>5 DEF LastLine
<1> QED  BY <1>2, <1>6, <1>7, <1>8, <1>9

\* A statement of a run adds up.
LEMMA RunAddsUp ==
    ASSUME LinesInv, NEW i \in 1..Len(lines), NEW k \in 1..Len(lines), i <= k,
           NEW list, list = {Read(lines[j]) : j \in i..k}
    PROVE  AddsUp(Read(lines[i]), list, Read(lines[k]))
<1> DEFINE n == Len(lines)
           r == [j \in 1..n |-> Read(lines[j])]
<1>1. n \in Nat /\ i \in 1..n /\ k \in i..n  BY LinesRead
<1>2. ASSUME NEW j \in 1..n
      PROVE  /\ r[j].amount \in Int /\ r[j].after \in Int /\ r[j].at = lines[j].at
             /\ r[j].amount = lines[j].amount /\ r[j].after = lines[j].after
  BY LinesRead
<1>3. \A j, m \in 1..n : r[j] = r[m] => j = m
  <2> SUFFICES ASSUME NEW j \in 1..n, NEW m \in 1..n, r[j] = r[m]  PROVE j = m
    OBVIOUS
  <2>1. lines[j].at = lines[m].at  BY <1>2
  <2> QED  BY <2>1, LinesRead
<1>4. \A j \in 2..n : r[j].after = r[j - 1].after + r[j].amount
  <2> TAKE j \in 2..n
  <2>1. j \in 1..n /\ j - 1 \in 1..n /\ lines[j].after = lines[j - 1].after + lines[j].amount
    BY <1>1, LinesRead
  <2> QED  BY <1>2, <2>1
<1>5. list = {r[j] : j \in i..k}
  <2>1. \A j \in i..k : r[j] = Read(lines[j])  BY <1>1
  <2> HIDE DEF r
  <2> QED  BY <2>1, Zenon
<1>6. r[i] = Read(lines[i]) /\ r[k] = Read(lines[k])  OBVIOUS
<1> HIDE DEF r, n
<1>7. Total({r[j] : j \in i..k}) = r[k].after - r[i].after + r[i].amount
  BY <1>1, <1>2, <1>3, <1>4, TotalOfRun
<1>8. r[i].after \in Int /\ r[k].after \in Int /\ r[i].amount \in Int  BY <1>1, <1>2
<1>9. Total(list) = r[k].after - r[i].after + r[i].amount  BY <1>5, <1>7, Zenon
<1>10. (r[i].after - r[i].amount) + Total(list) = r[k].after  BY <1>8, <1>9
<1> QED  BY <1>6, <1>10, Zenon DEF AddsUp, OpeningBalance, ClosingBalance

\* What the invariant says of the statements.
LEMMA LinesPromise == ASSUME LinesInv  PROVE StatementsAddUp
<1> SUFFICES ASSUME ~Crossed, NEW p \in Periods, Listed(p[1], p[2]) # {}
             PROVE  LET list == Listed(p[1], p[2]) IN
                    /\ AddsUp(FirstLine(StaffBefore, list), list, LastLine(StaffBefore, list))
                    /\ p = WholeTime => ChartEndsWithLine(LastLine(StaffBefore, list))
                    /\ TwoInADay \/
                       /\ AddsUp(FirstLine(ClientBefore, list), list, LastLine(ClientBefore, list))
                       /\ p = WholeTime => ChartEndsWithLine(LastLine(ClientBefore, list))
  BY DEF StatementsAddUp
<1>1. PICK from, to : from = p[1] /\ to = p[2]  OBVIOUS
<1>2. from \in Nat /\ to \in Nat /\ (p = WholeTime => from = 0 /\ to = DayOf(clock))
  BY <1>1 DEF Periods, Days, WholeTime
<1>3. PICK list : list = Listed(from, to)  OBVIOUS
<1>4. PICK i \in 1..Len(lines), k \in 1..Len(lines) :
         /\ i <= k /\ Listed(from, to) = {Read(lines[j]) : j \in i..k}
         /\ from = 0 /\ to = DayOf(clock) => k = Len(lines)
  BY <1>1, <1>2, PeriodIsRun
<1>5. list = {Read(lines[j]) : j \in i..k}  BY <1>3, <1>4
<1>6. AddsUp(Read(lines[i]), list, Read(lines[k]))  BY <1>4, <1>5, RunAddsUp
<1>7. p = WholeTime => ChartEndsWithLine(Read(lines[k]))
  <2> HAVE p = WholeTime
  <2>1. k = Len(lines) /\ Read(lines[k]).after = lines[k].after  BY <1>2, <1>4, LinesRead
  <2> QED  BY <2>1 DEF LinesInv, LinesChain, AfterLine, ChartEndsWithLine
<1>8. /\ FirstLine(StaffBefore, list) = Read(lines[i]) /\ LastLine(StaffBefore, list) = Read(lines[k])
      /\ ~TwoInADay => /\ FirstLine(ClientBefore, list) = Read(lines[i])
                       /\ LastLine(ClientBefore, list) = Read(lines[k])
  BY <1>4, <1>5, RunEnds
<1> QED  BY <1>1, <1>3, <1>6, <1>7, <1>8

\* The lines committed first account for the balance after them.
LEMMA TotalOfFirst ==
    ASSUME LinesInv, NEW n \in 0..Len(lines)
    PROVE  /\ IsFiniteSet(FirstLines(n)) /\ \A l \in FirstLines(n) : l.amount \in Int
           /\ Opening0 \in Int /\ Total(FirstLines(n)) = AfterLine(n) - Opening0
<1>1. n \in Nat /\ Len(lines) \in Nat /\ \A j \in 1..n : j \in 1..Len(lines)  BY LinesRead
<1>2. \A l \in FirstLines(n) : l.amount \in Int
  BY <1>1, LinesRead DEF FirstLines
<1>3. IsFiniteSet(FirstLines(n))
  <2> PICK s, t : s = 1..n /\ t = FirstLines(n)  OBVIOUS
  <2>1. IsFiniteSet(s)  BY <1>1, FS_Interval
  <2>2. \A l \in t : \E j \in s : l = lines[j]  BY DEF FirstLines
  <2>3. IsFiniteSet(t)  BY ONLY <2>1, <2>2, NamesFinite
  <2> QED  BY <2>3
<1>4. Opening0 \in Int  BY StatementAssumption
<1>5. CASE n = 0
  BY <1>5, SumOfNone, <1>2, <1>3, <1>4 DEF FirstLines, Total, AfterLine
<1>6. CASE n # 0
  <2>1. 1 \in 1..n /\ n \in 1..n  BY <1>1, <1>6
  <2>2. \A j \in 1..n : lines[j].amount \in Int /\ lines[j].after \in Int  BY <1>1, LinesRead
  <2>3. \A i, j \in 1..n : lines[i] = lines[j] => i = j  BY <1>1, LinesRead
  <2>4. \A j \in 2..n : lines[j].after = lines[j - 1].after + lines[j].amount  BY <1>1, LinesRead
  <2>5. Total({lines[j] : j \in 1..n}) = lines[n].after - lines[1].after + lines[1].amount
    <3> PICK r, m : r = lines /\ m = n  OBVIOUS
    <3>1. \A i \in 1..m : \A k \in i..m :
             Total({r[j] : j \in i..k}) = r[k].after - r[i].after + r[i].amount
      <4>1. m \in Nat /\ 1 \in 1..m /\ m \in 1..m  BY <1>1, <2>1
      <4>2. /\ \A j \in 1..m : r[j].amount \in Int /\ r[j].after \in Int
            /\ \A i, j \in 1..m : r[i] = r[j] => i = j
            /\ \A j \in 2..m : r[j].after = r[j - 1].after + r[j].amount
        BY <2>2, <2>3, <2>4
      <4> QED  BY ONLY <4>1, <4>2, TotalOfRun
    <3>2. Total({r[j] : j \in 1..m}) = r[m].after - r[1].after + r[1].amount
      BY <1>1, <2>1, <3>1
    <3> QED  BY <3>2
  <2>6. lines[1].after = Opening0 + lines[1].amount
    BY <1>1, <2>1, LinesRead DEF LinesInv, LinesChain, AfterLine
  <2>7. Total(FirstLines(n)) = lines[n].after - lines[1].after + lines[1].amount
    BY <2>5, Zenon DEF FirstLines
  <2>8. Total(FirstLines(n)) = lines[n].after - Opening0
    BY <1>4, <2>1, <2>2, <2>6, <2>7
  <2> QED  BY <1>2, <1>3, <1>4, <1>6, <2>8 DEF AfterLine
<1> QED  BY <1>5, <1>6

\* The total of a list is the sum of those of its months.
LEMMA MonthsAddUp ==
    ASSUME NEW list, IsFiniteSet(list), \A l \in list : l.amount \in Int,
           NEW K, IsFiniteSet(K), \A l \in list : MonthOf(l.at) \in K,
           NEW g, \A m \in K : g[m] = Total({l \in list : MonthOf(l.at) = m})
    PROVE  SumFunctionOnSet(g, K) = Total(list)
<1> DEFINE f == [l \in list |-> l.amount]
           month == [l \in list |-> MonthOf(l.at)]
<1>1. \A l \in list : f[l] \in Int  OBVIOUS
<1>2. ASSUME NEW m \in K
      PROVE  g[m] = SumFunctionOnSet(f, {l \in list : month[l] = m})
  <2> PICK T : T = {l \in list : MonthOf(l.at) = m}  OBVIOUS
  <2>1. T \in SUBSET list /\ IsFiniteSet(T)  BY FS_Subset
  <2>2. T = {l \in list : month[l] = m}  OBVIOUS
  <2>3. Total(T) = SumFunctionOnSet(f, T)  BY <2>1, TotalWithin
  <2>4. g[m] = Total(T)  OBVIOUS
  <2> QED  BY <2>2, <2>3, <2>4
<1>3. \A l \in list : month[l] \in K  OBVIOUS
<1>4. Total(list) = SumFunctionOnSet(f, list)  BY DEF Total
<1>6. IsFiniteSet(list) /\ IsFiniteSet(K)  OBVIOUS
<1> HIDE DEF f, month
<1>5. SumFunctionOnSet(g, K) = SumFunctionOnSet(f, list)
  <2> PICK Of : Of = [m \in K |-> {l \in list : month[l] = m}]  OBVIOUS
  <2>1. \A m \in K : /\ \A l : l \in Of[m] <=> l \in list /\ month[l] = m
                    /\ g[m] = SumFunctionOnSet(f, Of[m])
    BY <1>2
  <2> QED  BY ONLY <1>1, <1>3, <1>6, <2>1, SumByPart
<1> QED  BY <1>4, <1>5

\* The statement's reading of a list has the same total.
LEMMA ReadingKeepsTotal ==
    ASSUME NEW list, IsFiniteSet(list), \A l \in list : l.amount \in Int,
           \A l \in list : Read(l).amount = l.amount,
           \A l, m \in list : Read(l) = Read(m) => l = m
    PROVE  Total({Read(l) : l \in list}) = Total(list)
<1> DEFINE T == {Read(l) : l \in list}
           f == [l \in list |-> l.amount]
           g == [x \in T |-> x.amount]
           name == [l \in list |-> Read(l)]
<1>1. /\ \A l \in list : f[l] \in Int /\ g[name[l]] = f[l]
      /\ \A l, m \in list : name[l] = name[m] => l = m
      /\ \A t : t \in T <=> \E l \in list : t = name[l]
  OBVIOUS
<1>2. Total(T) = SumFunctionOnSet(g, T) /\ Total(list) = SumFunctionOnSet(f, list)
  BY DEF Total
<1> HIDE DEF T, f, g, name
<1>3. SumFunctionOnSet(g, T) = SumFunctionOnSet(f, list)
  BY <1>1, SumRenamed
<1> QED  BY <1>2, <1>3 DEF T

\* A list is added up by its incomes and its outgoings.
LEMMA IncomesAndOutgoings ==
    ASSUME NEW list, IsFiniteSet(list), \A l \in list : l.amount \in Int
    PROVE  /\ IsFiniteSet(Incomes(list)) /\ IsFiniteSet(Outgoings(list))
           /\ Incomes(list) \in SUBSET list /\ Outgoings(list) \in SUBSET list
           /\ Total(Incomes(list)) \in Int /\ Total(Outgoings(list)) \in Int
           /\ Total(list) = Total(Incomes(list)) + Total(Outgoings(list))
<1>1. PICK S, T : S = Incomes(list) /\ T = Outgoings(list)  OBVIOUS
<1>2. /\ S \in SUBSET list /\ T \in SUBSET list /\ S \cup T = list /\ S \cap T = {}
      /\ \A l \in S \cup T : l.amount \in Int
  BY <1>1 DEF Incomes, Outgoings
<1>3. IsFiniteSet(S) /\ IsFiniteSet(T)  BY <1>2, FS_Subset
<1>4. /\ Total(S) \in Int /\ Total(T) \in Int /\ Total(list) = Total(S) + Total(T)
  BY <1>2, <1>3, TotalOfDisjoint
<1> QED  BY <1>1, <1>2, <1>3, <1>4

\* The months listed add up to the whole when they hold all of the lines.
LEMMA FiguresByMonth ==
    ASSUME NEW list, IsFiniteSet(list), \A l \in list : l.amount \in Int,
           NEW K, IsFiniteSet(K), \A l \in list : MonthOf(l.at) \in K,
           NEW a, NEW bank, NEW f, f = Figures(a, bank, list, K)
    PROVE  /\ f.income = SumFunctionOnSet([m \in K |-> f.monthly[m].income], K)
           /\ f.outgoing = SumFunctionOnSet([m \in K |-> f.monthly[m].outgoing], K)
<1> DEFINE Its(m) == {l \in list : MonthOf(l.at) = m}
<1>1. PICK S, T : S = Incomes(list) /\ T = Outgoings(list)  OBVIOUS
<1>2. /\ S \in SUBSET list /\ T \in SUBSET list
      /\ \A l \in S \cup T : l.amount \in Int
  BY <1>1 DEF Incomes, Outgoings
<1>3. IsFiniteSet(S) /\ IsFiniteSet(T)  BY <1>2, FS_Subset
<1>5. f.income = Total(S) /\ f.outgoing = - Total(T)  BY <1>1 DEF Figures
<1>6. ASSUME NEW m \in K
      PROVE  /\ f.monthly[m].income = Total({l \in S : MonthOf(l.at) = m})
             /\ f.monthly[m].outgoing = - Total({l \in T : MonthOf(l.at) = m})
  BY <1>1 DEF Figures, Incomes, Outgoings
<1>7. Total(S) = SumFunctionOnSet([m \in K |-> f.monthly[m].income], K)
  <2> PICK g : g = [m \in K |-> f.monthly[m].income]  OBVIOUS
  <2>1. \A m \in K : g[m] = Total({l \in S : MonthOf(l.at) = m})  BY <1>6
  <2>2. \A l \in S : l.amount \in Int /\ MonthOf(l.at) \in K  BY <1>2
  <2>3. IsFiniteSet(K)  OBVIOUS
  <2>4. SumFunctionOnSet(g, K) = Total(S)  BY ONLY <1>3, <2>1, <2>2, <2>3, MonthsAddUp
  <2> QED  BY <2>4
<1>8. - Total(T) = SumFunctionOnSet([m \in K |-> f.monthly[m].outgoing], K)
  <2> PICK g, h : /\ g = [m \in K |-> Total({l \in T : MonthOf(l.at) = m})]
                  /\ h = [m \in K |-> f.monthly[m].outgoing]
    OBVIOUS
  <2>1. \A m \in K : g[m] = Total({l \in T : MonthOf(l.at) = m}) /\ h[m] = - g[m]  BY <1>6
  <2>2. \A l \in T : l.amount \in Int /\ MonthOf(l.at) \in K  BY <1>2
  <2>3. IsFiniteSet(K)  OBVIOUS
  <2>4. SumFunctionOnSet(g, K) = Total(T)  BY ONLY <1>3, <2>1, <2>2, <2>3, MonthsAddUp
  <2>5. \A m \in K : g[m] \in Int
    <3> TAKE m \in K
    <3> PICK U : U = {l \in T : MonthOf(l.at) = m}  OBVIOUS
    <3>1. IsFiniteSet(U) /\ \A l \in U : l.amount \in Int  BY <1>2, <1>3, FS_Subset
    <3>2. IsFiniteSet({}) /\ U \cap {} = {} /\ U \cup {} = U  BY FS_EmptySet
    <3>3. Total(U) \in Int  BY <3>1, <3>2, TotalOfDisjoint
    <3> QED  BY <2>1, <3>3
  <2>6. SumFunctionOnSet(h, K) = - SumFunctionOnSet(g, K)
    BY ONLY <2>1, <2>3, <2>5, SumOfOpposites
  <2> QED  BY <2>4, <2>6
<1> QED  BY <1>5, <1>7, <1>8

\* A line committed is of a month until now, and known by the statement's reading of it.
LEMMA FirstLinesRead ==
    ASSUME LinesInv, NEW n \in 0..Len(lines)
    PROVE  /\ \A l \in FirstLines(n) : MonthOf(l.at) \in Nat /\ Read(l).amount = l.amount
           /\ \A l, m \in FirstLines(n) : Read(l) = Read(m) => l = m
<1>1. \A j \in 1..n : j \in 1..Len(lines)  BY LinesRead
<1>2. \A l \in FirstLines(n) : \E j \in 1..Len(lines) : l = lines[j]  BY <1>1 DEF FirstLines
<1>3. DayOf(clock) \in Nat
  BY DaysGrow DEF LinesInv, LinesTypeOK
<1>4. \A l \in FirstLines(n) : MonthOf(l.at) \in Nat /\ Read(l).amount = l.amount /\ Read(l).at = l.at
  BY <1>2, <1>3, LinesRead DEF MonthOf
<1>5. ASSUME NEW l \in FirstLines(n), NEW m \in FirstLines(n), Read(l) = Read(m)  PROVE l = m
  <2>1. l.at = m.at  BY <1>4, <1>5
  <2> QED  BY <1>2, <2>1, LinesRead
<1> QED  BY <1>4, <1>5

\* What the invariant says of the overview's figures.
LEMMA FiguresPromise == ASSUME LinesInv, QueriesHold  PROVE FiguresAgree
<1> SUFFICES ASSUME NEW a \in asks, a.answer # NoFigures, a.scope # "nobody"
             PROVE  LET f == a.answer
                        first == a.rows.month - a.months + 1
                        listed == DOMAIN f.monthly
                    IN  /\ f.income - f.outgoing = Total({Read(l) : l \in a.rows.list})
                        /\ a.bank.seen = a.rows.seen =>
                             LET before == {l \in FirstLines(a.rows.seen) : MonthOf(l.at) < first}
                             IN  f.bank = Opening0 + Total(before) + f.income - f.outgoing
                        /\ listed = first..a.rows.month =>
                             /\ f.income = SumFunctionOnSet([m \in listed |-> f.monthly[m].income], listed)
                             /\ f.outgoing = SumFunctionOnSet([m \in listed |-> f.monthly[m].outgoing], listed)
  BY DEF FiguresAgree
<1> PICK f, list, n, month, K, bank :
       f = a.answer /\ bank = a.bank.value /\ list = a.rows.list /\ n = a.rows.seen /\ month = a.rows.month
       /\ K = DOMAIN f.monthly
  OBVIOUS
<1> DEFINE first == month - a.months + 1
           before == {l \in FirstLines(n) : MonthOf(l.at) < first}
<1>1. BankIsSeen(a) /\ RowsAreSeen(a) /\ IsComputed(a) /\ a.months \in Nat
  BY AnalyticsAssumption DEF QueriesHold, AskHolds, IsComputed
<1>2. /\ n \in 0..Len(lines) /\ month \in Nat /\ first \in Int
      /\ list = {l \in FirstLines(n) : MonthOf(l.at) >= first}
      /\ \A l \in FirstLines(n) : MonthOf(l.at) <= month
  BY <1>1 DEF RowsAreSeen
<1>3. IsFiniteSet(K) /\ f = Figures(a, bank, list, K)  BY <1>1 DEF IsComputed
<1>4. /\ IsFiniteSet(FirstLines(n)) /\ \A l \in FirstLines(n) : l.amount \in Int
      /\ Opening0 \in Int /\ Total(FirstLines(n)) = AfterLine(n) - Opening0
      /\ \A l \in FirstLines(n) : MonthOf(l.at) \in Nat /\ Read(l).amount = l.amount
      /\ \A l, m \in FirstLines(n) : Read(l) = Read(m) => l = m
  BY <1>2, TotalOfFirst, FirstLinesRead
<1>5. /\ list \cup before = FirstLines(n) /\ list \cap before = {}
      /\ IsFiniteSet(list) /\ IsFiniteSet(before)
      /\ \A l \in list : l.amount \in Int /\ l \in FirstLines(n)
  BY <1>2, <1>4, FS_Subset
<1>6. f.income \in Int /\ f.outgoing \in Int /\ f.income - f.outgoing = Total(list)
  <2>1. f.income = Total(Incomes(list)) /\ f.outgoing = - Total(Outgoings(list))
    BY <1>3 DEF Figures
  <2>2. /\ Total(Incomes(list)) \in Int /\ Total(Outgoings(list)) \in Int
        /\ Total(list) = Total(Incomes(list)) + Total(Outgoings(list))
    BY ONLY <1>5, IncomesAndOutgoings
  <2> QED  BY <2>1, <2>2
<1>7. Total({Read(l) : l \in list}) = Total(list)  BY <1>4, <1>5, ReadingKeepsTotal
<1>8. a.bank.seen = n => f.bank = Opening0 + Total(before) + f.income - f.outgoing
  <2> HAVE a.bank.seen = n
  <2>1. f.bank = AfterLine(n)  BY <1>1, <1>3 DEF BankIsSeen, Figures
  <2>2. Total(list) \in Int /\ Total(before) \in Int /\ Total(FirstLines(n)) = Total(list) + Total(before)
    <3> HIDE DEF before
    <3>1. \A l \in list \cup before : l.amount \in Int  BY <1>4, <1>5
    <3>2. /\ Total(list) \in Int /\ Total(before) \in Int
          /\ Total(list \cup before) = Total(list) + Total(before)
      BY <1>5, <3>1, TotalOfDisjoint
    <3> QED  BY <1>5, <3>2
  <2>3. AfterLine(n) \in Int
    BY <1>2, LinesRead, <1>4 DEF AfterLine
  <2> HIDE DEF before
  <2> QED  BY <1>4, <1>6, <2>1, <2>2, <2>3
<1>9. K = first..month =>
         /\ f.income = SumFunctionOnSet([m \in K |-> f.monthly[m].income], K)
         /\ f.outgoing = SumFunctionOnSet([m \in K |-> f.monthly[m].outgoing], K)
  <2> HAVE K = first..month
  <2>1. \A l \in list : MonthOf(l.at) \in K  BY <1>2, <1>4
  <2>2. IsFiniteSet(K) /\ f = Figures(a, bank, list, K)  BY <1>3
  <2> QED  BY ONLY <1>5, <2>1, <2>2, FiguresByMonth
<1> QED  BY <1>6, <1>7, <1>8, <1>9

\* The account opens without lines, the page with one request or none.
LEMMA FiguresOpen == ASSUME AnalyticsInit  PROVE LinesInv /\ QueriesHold
BY DEF AnalyticsInit, StatementInit, LinesTypeOK, StampsDiffer, LinesChain, AfterLine, LinesInv,
   Ask, AskHolds, QueriesHold

\* Lines are written after the others, and nothing takes one away.
LinesGrow ==
    /\ Len(lines) \in Nat /\ Len(lines') \in Nat /\ Len(lines) <= Len(lines')
    /\ \A i \in 1..Len(lines) : lines'[i] = lines[i]

\* A transfer begins, at an instant of its own.
LEMMA BeginKeeps ==
    ASSUME LinesInv, NEW d \in {"in", "out"}, NEW n \in LineAmounts, Begin(d, n)
    PROVE  LinesInv' /\ LinesGrow
<1> PICK t : t = [at |-> clock, direction |-> d, amount |-> n]  OBVIOUS
<1>1. /\ started' = started \cup {t} /\ UNCHANGED <<clock, balance, lines>>
      /\ \A u \in started : u.at # clock
      /\ \A i \in DOMAIN lines : lines[i].at # clock
      /\ t.at = clock /\ t.amount = n
  BY DEF Begin
<1>2. LinesTypeOK'  BY <1>1 DEF LinesInv, LinesTypeOK
<1>3. StampsDiffer'  BY <1>1 DEF LinesInv, StampsDiffer
<1>4. LinesChain'  BY <1>1 DEF LinesInv, LinesChain, AfterLine
<1> QED  BY <1>1, <1>2, <1>3, <1>4, LinesRead DEF LinesInv, LinesGrow

\* A transfer has got the row: its line continues the balance of the line before.
LEMMA PostKeeps ==
    ASSUME LinesInv, NEW t \in started, Post(t)
    PROVE  LinesInv' /\ LinesGrow
<1> DEFINE R == [at : Nat, after : Int, type : {"debit", "transfer"}, amount : Int]
<1> PICK n, after, l :
       /\ n = Len(lines) /\ l = Written(t, after)
       /\ after = IF t.direction = "out" THEN balance - t.amount ELSE balance + t.amount
  OBVIOUS
<1>1. /\ UNCHANGED clock /\ started' = started \ {t}
      /\ (lines' = Append(lines, l) /\ balance' = after) \/ UNCHANGED <<balance, lines>>
  BY DEF Post
<1>2. /\ clock \in Nat /\ lines \in Seq(R) /\ n \in Nat /\ DOMAIN lines = 1..n
      /\ \A u \in started : u.at \in Nat /\ u.at <= clock /\ u.amount \in Nat \ {0}
      /\ \A i \in DOMAIN lines :
            lines[i].at <= clock /\ (lines[i].type = "debit" <=> lines[i].amount < 0)
  <2>1. lines \in Seq(R)  BY DEF LinesInv, LinesTypeOK
  <2> HIDE DEF R
  <2>2. n \in Nat /\ DOMAIN lines = 1..n  BY <2>1
  <2>3. LineAmounts \subseteq Nat \ {0}  BY StatementAssumption
  <2> QED  BY <2>1, <2>2, <2>3 DEF LinesInv, LinesTypeOK
<1>3. balance \in Int
  BY StatementAssumption, <1>2, LinesRead DEF LinesInv, LinesChain, AfterLine
<1>4. /\ l \in R /\ l.at = t.at /\ l.after = after /\ l.after = balance + l.amount
      /\ (l.type = "debit" <=> l.amount < 0)
  BY <1>2, <1>3 DEF Written
<1>5. CASE UNCHANGED <<balance, lines>>
  BY <1>1, <1>5, <1>2 DEF LinesInv, LinesTypeOK, StampsDiffer, LinesChain, AfterLine, LinesGrow
<1>6. CASE lines' = Append(lines, l) /\ balance' = after
  <2> HIDE DEF R
  <2>1. /\ lines' \in Seq(R) /\ Len(lines') = n + 1 /\ lines'[n + 1] = l
        /\ \A i \in 1..n : lines'[i] = lines[i]
        /\ DOMAIN lines' = 1..(n + 1) /\ \A i \in 1..(n + 1) : i \in 1..n \/ i = n + 1
    BY <1>2, <1>4, <1>6
  <2>2. LinesTypeOK'
    BY <1>2, <1>4, <2>1, <1>1 DEF LinesInv, LinesTypeOK, R
  <2>3. StampsDiffer'
    <3>1. /\ \A i, j \in 1..n : lines[i].at = lines[j].at => i = j
          /\ \A u, v \in started : u.at = v.at => u = v
          /\ \A u \in started, i \in 1..n : u.at # lines[i].at
      BY <1>2 DEF LinesInv, StampsDiffer
    <3> QED  BY <1>1, <1>4, <2>1, <3>1 DEF StampsDiffer
  <2>4. LinesChain'
    <3>1. \A i \in 0..n : AfterLine(i)' = AfterLine(i)
      <4> TAKE i \in 0..n
      <4>1. i # 0 => i \in 1..n  BY <1>2
      <4> QED  BY <2>1, <4>1 DEF AfterLine
    <3>2. /\ \A i \in 1..n : lines[i].after = AfterLine(i - 1) + lines[i].amount
          /\ balance = AfterLine(n)
      BY <1>2 DEF LinesInv, LinesChain
    <3>3. AfterLine(n + 1)' = after  BY <1>2, <1>4, <2>1 DEF AfterLine
    <3>4. \A i \in 1..(n + 1) : lines'[i].after = AfterLine(i - 1)' + lines'[i].amount
      <4> TAKE i \in 1..(n + 1)
      <4>1. i - 1 \in 0..n  BY <1>2
      <4>2. CASE i \in 1..n  BY <2>1, <3>1, <3>2, <4>1, <4>2
      <4>3. CASE i = n + 1
        BY <1>2, <4>3, <1>4, <2>1, <3>1, <3>2, <4>1
      <4> QED  BY <2>1, <4>2, <4>3
    <3> QED  BY <1>6, <2>1, <3>3, <3>4 DEF LinesChain
  <2> QED  BY <1>2, <2>1, <2>2, <2>3, <2>4 DEF LinesInv, LinesGrow
<1> QED  BY <1>1, <1>5, <1>6

\* Time passes, or the page does something.
LEMMA TickKeeps ==
    ASSUME LinesInv, Tick \/ UNCHANGED statementVars
    PROVE  LinesInv' /\ LinesGrow
<1>1. UNCHANGED <<balance, lines, started>> /\ clock \in Nat /\ (clock' = clock \/ clock' = clock + 1)
  BY DEF Tick, statementVars, LinesInv, LinesTypeOK
<1>2. LinesTypeOK'
  <2>1. \A i \in DOMAIN lines : lines[i].at \in Nat  BY LinesRead
  <2>2. clock' \in Nat /\ \A at \in Nat : at <= clock => at <= clock'  BY <1>1
  <2> QED  BY <1>1, <2>1, <2>2 DEF LinesInv, LinesTypeOK
<1>3. StampsDiffer'  BY <1>1 DEF LinesInv, StampsDiffer
<1>4. LinesChain'  BY <1>1 DEF LinesInv, LinesChain, AfterLine
<1> QED  BY <1>1, <1>2, <1>3, <1>4, LinesRead DEF LinesInv, LinesGrow

\* What a request has seen stays so whatever is written after.
LEMMA SeenStaysSeen ==
    ASSUME LinesGrow, NEW a, AskHolds(a)
    PROVE  AskHolds(a)'
<1>1. \A n \in 0..Len(lines) : n \in 0..Len(lines') /\ AfterLine(n)' = AfterLine(n)
  <2> TAKE n \in 0..Len(lines)
  <2>1. n \in 0..Len(lines') /\ (n # 0 => n \in 1..Len(lines))  BY DEF LinesGrow
  <2> QED  BY <2>1 DEF LinesGrow, AfterLine
<1>2. \A n \in 0..Len(lines) : FirstLines(n)' = FirstLines(n)
  <2> TAKE n \in 0..Len(lines)
  <2>1. \A i \in 1..n : i \in 1..Len(lines)  BY DEF LinesGrow
  <2> QED  BY <2>1 DEF LinesGrow, FirstLines
<1>3. BankIsSeen(a) => BankIsSeen(a)'  BY <1>1 DEF BankIsSeen
<1>4. RowsAreSeen(a) => RowsAreSeen(a)'  BY <1>1, <1>2 DEF RowsAreSeen
<1> QED  BY <1>3, <1>4 DEF AskHolds, IsComputed

\* The queries of the service see the balance and the lines as they are.
LEMMA QueriesSee ==
    ASSUME LinesInv, NEW a \in asks, AskHolds(a), DOMAIN a = AskFields,
           ReadClients(a) \/ ReadBank(a) \/ ReadRows(a) \/ Compute(a)
    PROVE  \E b : asks' = (asks \ {a}) \cup {b} /\ AskHolds(b)
<1>1. CASE ReadClients(a)
  <2> DEFINE b == [a EXCEPT !.scope = "clients"]
             c == [a EXCEPT !.scope = "nobody",
                            !.answer = Figures(a, 0, {}, ListedMonths(a.months))]
  <2>1. (Sent(a, b) \/ Sent(a, c)) /\ a.scope # "nobody"  BY <1>1 DEF ReadClients
  <2>2. /\ b.months = a.months /\ b.bank = a.bank /\ b.rows = a.rows /\ b.answer = a.answer
        /\ c.months = a.months /\ c.scope = "nobody"
    BY DEF AskFields
  <2> HIDE DEF b, c
  <2>3. AskHolds(b) /\ AskHolds(c)
    BY <2>1, <2>2 DEF AskHolds, BankIsSeen, RowsAreSeen, IsComputed, Figures
  <2> QED  BY <2>1, <2>3 DEF Sent
<1>2. CASE ReadBank(a)
  <2> PICK x : x = [value |-> balance, seen |-> Len(lines)]  OBVIOUS
  <2> DEFINE b == [a EXCEPT !.bank = x]
  <2>1. Sent(a, b) /\ a.scope # "nobody" /\ a.answer = NoFigures
    BY <1>2 DEF ReadBank, AskHolds, IsComputed
  <2>2. /\ b.months = a.months /\ b.bank = x /\ b.rows = a.rows /\ b.answer = a.answer
        /\ b.scope = a.scope
    BY DEF AskFields
  <2>3. x.value = AfterLine(x.seen) /\ x.seen \in 0..Len(lines)
    BY LinesRead DEF LinesInv, LinesChain
  <2> HIDE DEF b
  <2>4. AskHolds(b)  BY <2>1, <2>2, <2>3 DEF AskHolds, BankIsSeen, RowsAreSeen
  <2> QED  BY <2>1, <2>4 DEF Sent
<1>3. CASE ReadRows(a)
  <2> DEFINE x == [list |-> {l \in ToSet(lines) : MonthOf(l.at) >= FirstMonth(a.months)},
                   seen |-> Len(lines), month |-> MonthOf(clock)]
             b == [a EXCEPT !.rows = x]
  <2>1. Sent(a, b) /\ a.scope # "nobody" /\ a.answer = NoFigures
    BY <1>3 DEF ReadRows, AskHolds, IsComputed
  <2>2. ToSet(lines) = FirstLines(Len(lines))  BY LinesRead DEF ToSet, FirstLines
  <2>3. /\ x.seen \in 0..Len(lines) /\ x.month \in Nat
        /\ x.list = {l \in FirstLines(x.seen) : MonthOf(l.at) >= x.month - a.months + 1}
        /\ \A l \in FirstLines(x.seen) : MonthOf(l.at) <= x.month
    <3>1. clock \in Nat /\ DayOf(clock) \in Nat
      BY DaysGrow DEF LinesInv, LinesTypeOK
    <3>2. \A l \in FirstLines(Len(lines)) : MonthOf(l.at) <= MonthOf(clock)
      BY <3>1, LinesRead DEF FirstLines, MonthOf
    <3> QED  BY <2>2, <3>1, <3>2, LinesRead DEF FirstMonth, MonthOf
  <2> HIDE DEF x
  <2>4. /\ b.months = a.months /\ b.rows = x /\ b.bank = a.bank /\ b.answer = a.answer
        /\ b.scope = a.scope
    BY DEF AskFields
  <2> HIDE DEF b
  <2>5. AskHolds(b)  BY <2>1, <2>3, <2>4 DEF AskHolds, BankIsSeen, RowsAreSeen
  <2> QED  BY <2>1, <2>5 DEF Sent
<1>4. CASE Compute(a)
  <2> PICK K : K = ListedMonths(a.months)  OBVIOUS
  <2> DEFINE f == Figures(a, a.bank.value, a.rows.list, K)
             b == [a EXCEPT !.answer = f]
  <2>1. Sent(a, b) /\ a.bank # NoFigures /\ a.rows # NoFigures  BY <1>4 DEF Compute
  <2>2. IsFiniteSet(K) /\ DOMAIN f.monthly = K
    <3>1. a.months \in Nat /\ MonthOf(clock) \in Nat
      <4>1. clock \in Nat  BY DEF LinesInv, LinesTypeOK
      <4>2. DayOf(clock) \in Nat  BY <4>1, DaysGrow
      <4> QED  BY <4>2, AnalyticsAssumption DEF AskHolds, MonthOf
    <3>2. IsFiniteSet(K)  BY <3>1, FS_Interval DEF ListedMonths
    <3> QED  BY <3>2 DEF Figures
  <2>3. \A c : c.months = a.months => Figures(c, a.bank.value, a.rows.list, K) = f
    BY DEF Figures
  <2> HIDE DEF f
  <2>4. /\ b.months = a.months /\ b.answer = f /\ b.bank = a.bank /\ b.rows = a.rows
        /\ b.scope = a.scope
    BY DEF AskFields
  <2> HIDE DEF b
  <2>5. AskHolds(b)
    BY <2>1, <2>2, <2>3, <2>4 DEF AskHolds, BankIsSeen, RowsAreSeen, IsComputed
  <2> QED  BY <2>1, <2>5 DEF Sent
<1> QED  BY <1>1, <1>2, <1>3, <1>4

\* Every step of the account and of the page keeps the lines and what was seen of them.
LEMMA FiguresSteps ==
    ASSUME FiguresInv, [AnalyticsNext]_analyticsVars
    PROVE  LinesInv' /\ QueriesHold'
<1>1. LinesInv /\ QueriesHold /\ \A a \in asks : DOMAIN a = AskFields /\ AskHolds(a)
  BY DEF FiguresInv, OverviewInv, OverviewTypeOK, QueriesHold
<1>2. CASE StatementNext /\ UNCHANGED <<months, shown, failed, asks, askLog>>
  BY <1>1, <1>2, BeginKeeps, PostKeeps, TickKeeps, SeenStaysSeen DEF StatementNext, QueriesHold
<1>3. CASE UNCHANGED statementVars
           /\ \/ UNCHANGED <<months, asks>>
              \/ \E m \in MonthChoices : SelectMonths(m)
              \/ \E a \in asks : \/ ReadClients(a) \/ ReadBank(a) \/ ReadRows(a) \/ Compute(a)
                                 \/ ArriveFigures(a) \/ FailFigures(a)
  <2>1. LinesInv' /\ LinesGrow  BY <1>1, <1>3, TickKeeps
  <2>2. \A a : AskHolds(a) => AskHolds(a)'  BY <2>1, SeenStaysSeen
  <2>3. CASE UNCHANGED <<months, asks>>
    BY <1>1, <2>1, <2>2, <2>3 DEF QueriesHold
  <2>4. ASSUME NEW m \in MonthChoices, SelectMonths(m)  PROVE QueriesHold'
    <3>1. PICK a : asks' = asks \cup {a} /\ months' = m /\ a = Ask(askLog.kind, askLog.left.selections, m)
      BY <2>4 DEF SelectMonths
    <3>2. a.months = m /\ a.bank = NoFigures /\ a.rows = NoFigures /\ a.answer = NoFigures
      BY <3>1 DEF Ask
    <3>3. AskHolds(a)  BY <3>2 DEF AskHolds
    <3> QED  BY <1>1, <2>2, <3>1, <3>3 DEF QueriesHold
  <2>5. ASSUME NEW a \in asks, ReadClients(a) \/ ReadBank(a) \/ ReadRows(a) \/ Compute(a)
        PROVE  QueriesHold'
    <3>1. PICK b : asks' = (asks \ {a}) \cup {b} /\ AskHolds(b)  BY <1>1, <2>5, QueriesSee
    <3>2. months' = months  BY <2>5 DEF ReadClients, ReadBank, ReadRows, Compute, pageUnchanged
    <3> QED  BY <1>1, <2>2, <3>1, <3>2 DEF QueriesHold
  <2>6. ASSUME NEW a \in asks, ArriveFigures(a) \/ FailFigures(a)  PROVE QueriesHold'
    BY <2>6, <1>1, <2>2 DEF ArriveFigures, FailFigures, QueriesHold
  <2> QED  BY <1>3, <2>1, <2>3, <2>4, <2>5, <2>6
<1> QED  BY <1>2, <1>3
         DEF AnalyticsNext, analyticsVars, SelectMonths, ReadClients, ReadBank, ReadRows, Compute,
             ArriveFigures, FailFigures

-----------------------------------------------------------------------------
(* The users page of the staff *)

\* Of the view on top the stack and the number are what the requests are told by.
LEMMA SameTop ==
    ASSUME StaffTypeOK, modal'.stack = modal.stack, modal'.inst = modal.inst
    PROVE  /\ Open' <=> Open
           /\ Top' = Top
           /\ \A c : (IsLoad(c)' <=> IsLoad(c)) /\ (LoadsSheet(c)' <=> LoadsSheet(c))
           /\ \A c : CallOK(c) => CallOK(c)'
BY DEF Open, Top, IsLoad, LoadsSheet, CallOK

\* The types, when the page keeps its views and its log its fields.
LEMMA StaffTypesKept ==
    ASSUME StaffTypeOK, HeldOK', modal'.stack = modal.stack, modal'.inst = modal.inst, modal'.base = modal.base,
           DOMAIN modal' = DOMAIN modal, DOMAIN modal'.view = SheetFields,
           modal'.view.accounts \in Clients \cup {NoSheet},
           modal'.view.details # NoSheet => modal'.view.details.advisor \in AdvisorOrNone,
           DOMAIN section' = DOMAIN section, DOMAIN staffLog' = DOMAIN staffLog,
           \A c \in staffCalls' : c \in staffCalls \/ CallOK(c)
    PROVE  StaffTypeOK'
BY SameTop DEF StaffTypeOK, StackOK, Open

\* What the list and its search do leaves the views alone.
LEMMA ListLeavesViews ==
    ASSUME StaffInv, held' = held, modal' = modal,
           DOMAIN section' = DOMAIN section, DOMAIN staffLog' = DOMAIN staffLog,
           staffLog'.unread = staffLog.unread,
           \A c : c.kind # "list" => (c \in staffCalls' <=> c \in staffCalls),
           \A c \in staffCalls' : c \in staffCalls \/ CallOK(c)
    PROVE  StaffTypeOK' /\ SheetLoads' /\ SheetComes'
<1>1. StaffTypeOK'
  BY StaffTypesKept DEF StaffInv, StaffTypeOK, HeldOK
<1>2. \A c : /\ IsLoad(c)' <=> IsLoad(c)
             /\ LoadsSheet(c)' <=> LoadsSheet(c)
             /\ IsLoad(c) \/ LoadsSheet(c) => c.kind # "list"
             /\ LoadsOne(c) => LoadsOne(c)'
  BY DEF IsLoad, Loads, LoadsSheet, LoadsOne, Sheet, Top
<1>3. SheetLoads'
  BY <1>2 DEF StaffInv, SheetLoads, ContentsOfTop, Open, Top, Sheet
<1>4. \A u : ChangeKnown(u) => ChangeKnown(u)'
  BY DEF ChangeKnown, Own
<1>5. SheetComes'
  BY <1>2, <1>4 DEF StaffInv, SheetComes, Open, Top, Sheet, SheetTells
<1> QED  BY <1>1, <1>3, <1>5

\* A load of the list that begins.
LEMMA ListBegins ==
    ASSUME StaffInv
    PROVE  /\ CallOK(ListCall(section.term)) /\ ListCall(section.term).kind = "list"
           /\ ListCall(section.term).what = section.term /\ ListCall(section.term).rows = NoSheet
           /\ ListCall(section.term).reload = FALSE
BY DEF ListCall, StaffCall, CallFields, StaffInv, StaffTypeOK, StackOK, CallOK, Own

\* Once it has begun the list is that of the search, or it overlapped another.
LEMMA ListLoads ==
    ASSUME StaffInv, NEW cs, staffCalls' = cs \cup {ListCall(section.term)},
           section'.term = section.term, Listing(cs) => section'.overlap
    PROVE  DirectoryComes'
<1> DEFINE n == ListCall(section.term)
<1>1. n.kind = "list" /\ n.what = section.term /\ n.rows = NoSheet
  BY ListBegins
<1>2. n \in staffCalls' /\ \A c \in staffCalls' : c \in cs \/ c = n
  OBVIOUS
<1> HIDE DEF n
<1>3. ASSUME ~Listing(cs)
      PROVE  \A c \in cs : c.kind # "list"
  BY <1>3 DEF Listing
<1> QED  BY <1>1, <1>2, <1>3 DEF DirectoryComes

\* What leaves the list and its loads alone.
LEMMA ListKept ==
    ASSUME DirectoryComes, section' = section, held' = held, staffLog'.actor = staffLog.actor,
           staffLog.unlisted # {} => staffLog'.unlisted # {},
           \A c : c.kind = "list" => (c \in staffCalls' <=> c \in staffCalls),
           (\E c \in staffCalls : ListToCome(c))
              => staffLog'.unlisted # {} \/ \E c \in staffCalls' : ListToCome(c)
    PROVE  DirectoryComes'
BY DEF Lists, InDirectory, Listing, ListToCome, DirectoryComes

-----------------------------------------------------------------------------
\* A search is typed.
LEMMA TypeTermKeeps ==
    ASSUME StaffInv, NEW t, TypeTerm(t)
    PROVE  StaffInv'
BY ListLeavesViews DEF TypeTerm, Spend, StaffInv, StaffTypeOK, SectionFields, StaffLogFields,
   DirectoryComes

\* The timer of the search.
LEMMA SearchTimerKeeps ==
    ASSUME StaffInv, SearchTimer
    PROVE  StaffInv'
BY ListLoads, ListBegins, ListLeavesViews DEF SearchTimer, StaffInv, StaffTypeOK, SectionFields

\* The directory is read.
LEMMA ServeDirectoryKeeps ==
    ASSUME StaffInv, NEW c \in staffCalls, ServeDirectory(c)
    PROVE  StaffInv'
<1>0. PICK r : /\ r = [u \in InDirectory(c.what, held.advisor) |->
                            [banned |-> held.banned[u], advisor |-> held.advisor[u]]]
               /\ staffCalls' = (staffCalls \ {c}) \cup {[c EXCEPT !.rows = r]}
  BY DEF ServeDirectory
<1> DEFINE n == [c EXCEPT !.rows = r]
<1>1. /\ held' = held /\ modal' = modal /\ section' = section /\ c.kind = "list"
      /\ staffCalls' = (staffCalls \ {c}) \cup {n}
      /\ DOMAIN staffLog' = DOMAIN staffLog /\ staffLog'.unread = staffLog.unread
      /\ staffLog'.actor = staffLog.actor
  BY <1>0 DEF ServeDirectory, StaffInv, StaffTypeOK, StaffLogFields
<1>2. c.what = section.term => Lists(r)
  BY <1>0 DEF Lists
<1>3. CallOK(c) /\ CallOK(n) /\ n.kind = "list" /\ n.what = c.what /\ n.rows = r /\ n.reload = c.reload
  BY <1>1 DEF StaffInv, StaffTypeOK, CallOK, CallFields, Own
<1>4. n \in staffCalls' /\ \A d \in staffCalls' : d = n \/ (d \in staffCalls /\ d # c)
  BY <1>1
<1> HIDE DEF n
<1>5. Lists(r) => Lists(r)'
  BY <1>1 DEF Lists, InDirectory
<1>6. DirectoryComes'
  <2> SUFFICES ASSUME ~section.overlap  PROVE DirectoryComes'
    BY <1>1 DEF DirectoryComes
  <2>1. \A d \in staffCalls : d.kind = "list" => d = c
    BY <1>1 DEF StaffInv, DirectoryComes
  <2>2. section.timer \/ c.what = section.term
    BY <1>1 DEF StaffInv, DirectoryComes
  <2> QED  BY <1>1, <1>2, <1>3, <1>4, <1>5, <2>1, <2>2 DEF DirectoryComes
<1> QED  BY <1>1, <1>3, <1>4, <1>6, ListLeavesViews DEF StaffInv

\* The directory arrives: what it says is shown.
LEMMA ArriveDirectoryKeeps ==
    ASSUME StaffInv, NEW c \in staffCalls, ArriveDirectory(c)
    PROVE  StaffInv'
<1>1. /\ held' = held /\ modal' = modal /\ staffLog' = staffLog /\ c.kind = "list" /\ c.rows # NoSheet
      /\ staffCalls' = staffCalls \ {c}
      /\ DOMAIN section' = DOMAIN section /\ section'.rows = c.rows /\ section'.term = section.term
      /\ section'.timer = section.timer /\ section'.overlap = section.overlap
      /\ section'.error = section.error
  BY DEF ArriveDirectory, StaffInv, StaffTypeOK, SectionFields
<1>2. DirectoryComes'
  <2> SUFFICES ASSUME ~section.overlap  PROVE DirectoryComes'
    BY <1>1 DEF DirectoryComes
  <2>1. /\ \A d \in staffCalls : d.kind = "list" => d = c
        /\ section.timer \/ c.what = section.term
    BY <1>1 DEF StaffInv, DirectoryComes
  <2>2. ~Listing(staffCalls')
    BY <1>1, <2>1 DEF Listing
  <2>3. \A r : Lists(r) => Lists(r)'
    BY <1>1 DEF Lists, InDirectory
  <2>4. ~ListToCome(c)
    BY <1>1 DEF ListToCome, Own, StaffInv, StaffTypeOK, CallOK
  <2>5. \/ section.timer \/ section.error \/ staffLog.unlisted # {}
        \/ \E d \in staffCalls : ListToCome(d)
        \/ Lists(c.rows)
    BY <1>1, <2>1 DEF StaffInv, DirectoryComes, Listing
  <2>6. (\E d \in staffCalls : ListToCome(d)) => \E d \in staffCalls' : ListToCome(d)'
    BY <1>1, <2>4 DEF ListToCome
  <2> QED  BY <1>1, <2>1, <2>2, <2>3, <2>5, <2>6 DEF DirectoryComes
<1> QED  BY <1>1, <1>2, ListLeavesViews DEF StaffInv

\* It fails: the page says so.
LEMMA FailDirectoryKeeps ==
    ASSUME StaffInv, NEW c \in staffCalls, FailDirectory(c)
    PROVE  StaffInv'
BY ListLeavesViews DEF FailDirectory, Spend, StaffInv, StaffTypeOK, SectionFields, StaffLogFields,
   DirectoryComes

-----------------------------------------------------------------------------
\* The views stay as they are, but for the button that waits.
SameViews ==
    /\ modal'.stack = modal.stack /\ modal'.inst = modal.inst /\ modal'.base = modal.base
    /\ DOMAIN modal' = DOMAIN modal /\ DOMAIN modal'.view = SheetFields
    /\ modal'.view.loading = modal.view.loading /\ modal'.view.error = modal.view.error
    /\ modal'.view.overlap = modal.view.overlap /\ modal'.view.details = modal.view.details
    /\ modal'.view.accounts = modal.view.accounts /\ modal'.view.items = modal.view.items
    /\ modal'.view.range = modal.view.range

\* The loads of the view and its contents stay what they are then.
LEMMA ViewsKept ==
    ASSUME StaffInv, SameViews, \A c : c.kind \in Loads => (c \in staffCalls' <=> c \in staffCalls)
    PROVE  SheetLoads'
BY DEF SameViews, IsLoad, LoadsOne, Sheet, Top, StaffInv, SheetLoads, ContentsOfTop, Open

\* So does the sheet, but for changes that are known of.
LEMMA SheetKept ==
    ASSUME StaffInv, SameViews, \A c : c.kind \in Loads => (c \in staffCalls' <=> c \in staffCalls),
           \A u : ChangeKnown(u) => ChangeKnown(u)',
           \A s, u : SheetTells(s, u) => SheetTells(s, u)' \/ ChangeKnown(u)'
    PROVE  SheetComes'
BY DEF SameViews, LoadsSheet, Loads, StaffInv, SheetComes, Open, Top, Sheet

\* A ban is asked for, or lifted.
LEMMA ToggleBanKeeps ==
    ASSUME StaffInv, ToggleBan
    PROVE  StaffInv'
<1> DEFINE k == IF Sheet.banned THEN "unban" ELSE "ban"
           n == StaffCall(k, Sheet.id, Top.user)
<1>1. /\ DOMAIN n = CallFields /\ n.kind = k /\ n.user = Sheet.id /\ n.what = Top.user
      /\ n.inst = modal.inst /\ n.reload = FALSE /\ n.got = NoSheet
  BY DEF StaffCall, CallFields
<1>2. /\ held' = held /\ section' = section /\ staffCalls' = staffCalls \cup {n}
      /\ Sheet.id \in Clients /\ Open /\ Top.type = "user"
      /\ DOMAIN staffLog' = DOMAIN staffLog /\ staffLog'.actor = staffLog.actor
      /\ staffLog'.unread = staffLog.unread /\ staffLog'.unlisted = staffLog.unlisted
  BY DEF ToggleBan, Spend, IsClient, SheetShown, Shown, StaffInv, StaffTypeOK, StaffLogFields
<1>3. SameViews
  BY DEF ToggleBan, SameViews, StaffInv, StaffTypeOK, SheetFields
<1>4. k \in {"ban", "unban"}
  OBVIOUS
<1> HIDE DEF n, k
<1>5. CallOK(n)
  BY <1>1, <1>2, <1>4 DEF CallOK, ViewOf, Own, StaffInv, StaffTypeOK, StackOK
<1>6. n.kind \notin Loads /\ n.kind # "list"
  BY <1>1, <1>4 DEF Loads
<1>7. StaffTypeOK'
  BY <1>2, <1>3, <1>5, StaffTypesKept DEF StaffInv, StaffTypeOK, SameViews, HeldOK
<1>8. SheetLoads'
  BY <1>2, <1>3, <1>6, ViewsKept
<1>9. SheetComes'
  BY <1>2, <1>3, <1>6, SheetKept DEF ChangeKnown, SheetTells
<1>10. DirectoryComes'
  BY <1>2, <1>6, ListKept DEF StaffInv
<1> QED  BY <1>7, <1>8, <1>9, <1>10 DEF StaffInv

\* Another advisor or a request of a ban is submitted.
LEMMA SubmitChangeKeeps ==
    ASSUME StaffInv, NEW advisor \in Advisors, SubmitChange(advisor)
    PROVE  StaffInv'
<1> DEFINE n == StaffCall(Top.type, Top.user, advisor)
<1>1. /\ DOMAIN n = CallFields /\ n.kind = Top.type /\ n.user = Top.user /\ n.what = advisor
      /\ n.inst = modal.inst /\ n.reload = FALSE /\ n.got = NoSheet
  BY DEF StaffCall, CallFields
<1>2. /\ held' = held /\ section' = section /\ staffCalls' = staffCalls \cup {n}
      /\ Open /\ Top.type \in {"reassign", "request"}
      /\ DOMAIN staffLog' = DOMAIN staffLog /\ staffLog'.actor = staffLog.actor
      /\ staffLog'.unread = staffLog.unread /\ staffLog'.unlisted = staffLog.unlisted
  BY DEF SubmitChange, Spend, StaffInv, StaffTypeOK, StaffLogFields
<1>3. SameViews
  BY DEF SubmitChange, SameViews, StaffInv, StaffTypeOK, SheetFields
<1> HIDE DEF n
<1>4. Top.user \in Clients
  BY <1>2 DEF StaffInv, StaffTypeOK, StackOK, Stacked, Open, Top, Last
<1>5. CallOK(n)
  BY <1>1, <1>2, <1>4 DEF CallOK, ViewOf, Own, StaffInv, StaffTypeOK, StackOK
<1>6. n.kind \notin Loads /\ n.kind # "list"
  BY <1>1, <1>2 DEF Loads
<1>7. StaffTypeOK'
  BY <1>2, <1>3, <1>5, StaffTypesKept DEF StaffInv, StaffTypeOK, SameViews, HeldOK
<1>8. SheetLoads'
  BY <1>2, <1>3, <1>6, ViewsKept
<1>9. SheetComes'
  BY <1>2, <1>3, <1>6, SheetKept DEF ChangeKnown, SheetTells
<1>10. DirectoryComes'
  BY <1>2, <1>6, ListKept DEF StaffInv
<1> QED  BY <1>7, <1>8, <1>9, <1>10 DEF StaffInv

\* It is done.
LEMMA ServeOwnKeeps ==
    ASSUME StaffInv, NEW c \in staffCalls, ServeOwn(c)
    PROVE  StaffInv'
<1> DEFINE n == [c EXCEPT !.got = c.user]
<1>1. /\ modal' = modal /\ section' = section /\ staffLog' = staffLog /\ c.kind \in Own /\ c.got = NoSheet
      /\ staffCalls' = (staffCalls \ {c}) \cup {n}
  BY DEF ServeOwn
<1>2. CallOK(c) /\ c.user \in Clients /\ c.user # NoSheet
  BY <1>1, StaffAssumption DEF StaffInv, StaffTypeOK, CallOK
<1>3. CallOK(n) /\ n.kind = c.kind /\ n.user = c.user /\ n.got = c.user
  BY <1>1, <1>2 DEF CallOK, CallFields, Own
<1> HIDE DEF n
<1>4. HeldOK' /\ (\A u : u # c.user => \A s : SheetTells(s, u) => SheetTells(s, u)')
  BY <1>2, <1>1 DEF StaffInv, StaffTypeOK, CallOK, HeldOK, SheetTells, ServeOwn, Own
<1>5. SameViews
  BY <1>1 DEF SameViews, StaffInv, StaffTypeOK
<1>6. c.kind \notin Loads /\ c.kind # "list" /\ n.kind \notin Loads /\ n.kind # "list"
  BY <1>1, <1>3 DEF Own, Loads
<1>7. StaffTypeOK'
  BY <1>1, <1>3, <1>4, StaffTypesKept DEF StaffInv, StaffTypeOK
<1>8. SheetLoads'
  BY <1>1, <1>5, <1>6, ViewsKept
<1>9. SheetComes'
  BY <1>1, <1>2, <1>3, <1>4, <1>5, <1>6, SheetKept DEF ChangeKnown
<1>10. DirectoryComes'
  BY <1>1, <1>2, <1>3, <1>6 DEF ListToCome, StaffInv, DirectoryComes
<1> QED  BY <1>7, <1>8, <1>9, <1>10 DEF StaffInv

\* It is refused, or it fails: then the change is known of.
LEMMA OwnEndsKeeps ==
    ASSUME StaffInv, NEW c \in staffCalls, RefuseOwn(c) \/ FailOwn(c)
    PROVE  StaffInv'
<1>1. /\ held' = held /\ section' = section /\ staffCalls' = staffCalls \ {c} /\ c.kind \in Own
      /\ modal' = modal \/ modal' = [modal EXCEPT !.view.acting = FALSE]
  BY DEF RefuseOwn, FailOwn
<1>2. /\ DOMAIN staffLog' = DOMAIN staffLog /\ staffLog'.actor = staffLog.actor
      /\ staffLog.unread \subseteq staffLog'.unread /\ staffLog.unlisted \subseteq staffLog'.unlisted
      /\ c.got # NoSheet => c.user \in staffLog'.unread /\ c.user \in staffLog'.unlisted
  <2>1. CASE RefuseOwn(c)
    BY <2>1 DEF RefuseOwn
  <2>2. CASE FailOwn(c)
    BY <2>2 DEF FailOwn, Changed, StaffInv, StaffTypeOK, StaffLogFields
  <2> QED  BY <2>1, <2>2
<1>3. SameViews
  BY <1>1 DEF SameViews, StaffInv, StaffTypeOK, SheetFields
<1>4. ~c.reload
  BY <1>1 DEF Own, StaffInv, StaffTypeOK, CallOK
<1>5. c.kind \notin Loads /\ c.kind # "list"
  BY <1>1 DEF Own, Loads
<1>6. StaffTypeOK'
  BY <1>1, <1>2, <1>3, StaffTypesKept DEF StaffInv, StaffTypeOK, HeldOK, SameViews
<1>7. SheetLoads'
  BY <1>1, <1>3, <1>5, ViewsKept
<1>8. SheetComes'
  BY <1>1, <1>2, <1>3, <1>5, SheetKept DEF ChangeKnown, SheetTells
<1>9. DirectoryComes'
  BY <1>1, <1>2, <1>4, <1>5, ListKept DEF ListToCome, Own, StaffInv, StaffTypeOK, CallOK
<1> QED  BY <1>6, <1>7, <1>8, <1>9 DEF StaffInv

\* Another staff member changes the client.
LEMMA StaffElsewhereKeeps ==
    ASSUME StaffInv, NEW u \in Clients, ChangedElsewhere(u)
    PROVE  StaffInv'
<1>1. /\ modal' = modal /\ section' = section /\ staffCalls' = staffCalls
      /\ DOMAIN staffLog' = DOMAIN staffLog /\ staffLog'.actor = staffLog.actor
      /\ staffLog'.unread = staffLog.unread \cup {u} /\ staffLog'.unlisted # {}
  BY DEF ChangedElsewhere, Changed, StaffInv, StaffTypeOK, StaffLogFields
<1>2. HeldOK' /\ (\A v : v # u => \A s : SheetTells(s, v) => SheetTells(s, v)')
  <2>1. HeldOK
    BY DEF StaffInv, StaffTypeOK
  <2>2. CASE held' = [held EXCEPT !.banned[u] = ~@, !.pending = @ \ {u}]
    BY <2>1, <2>2 DEF HeldOK, SheetTells
  <2>3. CASE \E a \in Advisors \ {held.advisor[u]} : held' = [held EXCEPT !.advisor[u] = a]
    BY <2>1, <2>3 DEF HeldOK, SheetTells
  <2> QED  BY <2>2, <2>3 DEF ChangedElsewhere
<1>3. SameViews
  BY <1>1 DEF SameViews, StaffInv, StaffTypeOK
<1>4. StaffTypeOK'
  BY <1>1, <1>2, StaffTypesKept DEF StaffInv, StaffTypeOK
<1>5. SheetLoads'
  BY <1>1, <1>3, ViewsKept
<1>6. SheetComes'
  BY <1>1, <1>2, <1>3, SheetKept DEF ChangeKnown
<1>7. DirectoryComes'
  BY <1>1 DEF StaffInv, DirectoryComes
<1> QED  BY <1>4, <1>5, <1>6, <1>7 DEF StaffInv

-----------------------------------------------------------------------------
\* What becomes of the requests of a view that was left is nothing to the one on top.
LEMMA OtherViewsCalls ==
    ASSUME StaffInv, modal' = modal, held' = held,
           \A d : d.inst = modal.inst => (d \in staffCalls' <=> d \in staffCalls),
           \A u : ChangeKnown(u) => ChangeKnown(u)'
    PROVE  SheetLoads' /\ SheetComes'
BY DEF IsLoad, LoadsSheet, LoadsOne, Sheet, Top, StaffInv, SheetLoads, ContentsOfTop, Open,
   SheetComes, SheetTells

\* After a load the list is loaded, if the load followed a change.
LEMMA AfterLoadLists ==
    ASSUME StaffInv, NEW c \in staffCalls, NEW cs, AfterLoad(cs, c), c.kind \in Loads, held' = held,
           staffLog'.actor = staffLog.actor, staffLog'.unlisted = staffLog.unlisted,
           \A d : d.kind = "list" => (d \in cs <=> d \in staffCalls), staffCalls \ {c} \subseteq cs
    PROVE  /\ DirectoryComes' /\ DOMAIN section' = DOMAIN section
           /\ cs \subseteq staffCalls' /\ \A d \in staffCalls' : d \in cs \/ d = ListCall(section.term)
BY ListLoads, ListKept DEF AfterLoad, LoadList, StaffInv, StaffTypeOK, SectionFields, ListToCome,
   Loads, Own

\* The list's own load is none of a view's.
LEMMA ListIsNoLoad ==
    ASSUME StaffInv
    PROVE  LET n == ListCall(section.term)
           IN  CallOK(n) /\ n.kind = "list" /\ n.kind \notin Loads \cup Own /\ n.inst # modal.inst
<1> DEFINE n == ListCall(section.term)
<1>1. CallOK(n) /\ n.kind = "list"
  BY ListBegins
<1> HIDE DEF n
<1>2. n.inst # modal.inst
  BY <1>1 DEF CallOK, StaffInv, StaffTypeOK, StackOK
<1>3. n.kind \notin Loads \cup Own
  BY <1>1 DEF Loads, Own
<1> QED  BY <1>1, <1>2, <1>3 DEF n

\* A sheet is read.
LEMMA ServeDetailsKeeps ==
    ASSUME StaffInv, NEW c \in staffCalls, ServeDetails(c)
    PROVE  StaffInv'
<1>1. PICK r :
        /\ staffCalls' = (staffCalls \ {c}) \cup {[c EXCEPT !.got = r]}
        /\ r.id = c.user /\ r.advisor \in AdvisorOrNone
        /\ c.user \in Clients => SheetTells(r, c.user)
  <2>1. CASE IsClient(c.user)
    <3> DEFINE r == [id |-> c.user, banned |-> held.banned[c.user], advisor |-> held.advisor[c.user],
                     pending |-> c.user \in held.pending, links |-> {held.advisor[c.user]}]
    <3>1. staffCalls' = (staffCalls \ {c}) \cup {[c EXCEPT !.got = r]}
      BY <2>1 DEF ServeDetails
    <3>2. held.advisor[c.user] \in AdvisorOrNone
      BY <2>1 DEF IsClient, StaffInv, StaffTypeOK, HeldOK, AdvisorOrNone
    <3>3. r.id = c.user /\ r.advisor \in AdvisorOrNone
      BY <3>2
    <3>4. SheetTells(r, c.user)
      BY Zenon DEF SheetTells
    <3> QED  BY <3>1, <3>3, <3>4
  <2>2. CASE ~IsClient(c.user)
    <3> DEFINE r == [id |-> c.user, banned |-> FALSE, advisor |-> NoSheet, pending |-> FALSE,
                     links |-> {u \in Clients : held.advisor[u] = c.user}]
    <3>1. staffCalls' = (staffCalls \ {c}) \cup {[c EXCEPT !.got = r]}
      BY <2>2 DEF ServeDetails
    <3>2. r.id = c.user /\ r.advisor \in AdvisorOrNone
      BY DEF AdvisorOrNone
    <3> QED  BY <2>2, <3>1, <3>2 DEF IsClient
  <2> QED  BY <2>1, <2>2
<1> DEFINE n == [c EXCEPT !.got = r]
<1>2. /\ held' = held /\ modal' = modal /\ section' = section /\ c.kind = "details" /\ c.got = NoSheet
      /\ staffCalls' = (staffCalls \ {c}) \cup {n}
      /\ DOMAIN staffLog' = DOMAIN staffLog /\ staffLog'.actor = staffLog.actor
      /\ staffLog'.unlisted = staffLog.unlisted
      /\ c.inst # modal.inst => staffLog' = staffLog
  BY <1>1 DEF ServeDetails, StaffInv, StaffTypeOK, StaffLogFields
<1>3. CallOK(n) /\ n.kind = "details" /\ n.user = c.user /\ n.got = r /\ n.inst = c.inst /\ n.reload = c.reload
  BY <1>1, <1>2 DEF StaffInv, StaffTypeOK, CallOK, CallFields, Own
<1> HIDE DEF n
<1>4. StaffTypeOK'
  BY <1>2, <1>3, StaffTypesKept DEF StaffInv, StaffTypeOK, HeldOK
<1>5. DirectoryComes'
  BY <1>2, <1>3, ListKept DEF ListToCome, Own, StaffInv
<1>6. CASE c.inst # modal.inst
  BY <1>2, <1>6, <1>3, <1>4, <1>5, OtherViewsCalls DEF ChangeKnown, Own, StaffInv
<1>7. CASE c.inst = modal.inst
  <2>1. IsLoad(c) /\ IsLoad(n) /\ LoadsSheet(n) /\ n \in staffCalls'
    BY <1>2, <1>3, <1>7 DEF IsLoad, Loads, LoadsSheet
  <2>2. \A d : (IsLoad(d)' <=> IsLoad(d)) /\ (LoadsSheet(d)' <=> LoadsSheet(d))
    BY <1>2 DEF IsLoad, LoadsSheet
  <2>3. SheetLoads'
    <3> SUFFICES ASSUME Open, ~modal.view.overlap
                 PROVE  /\ \A d \in staffCalls' : IsLoad(d) => LoadsOne(d)'
                        /\ ~modal.view.loading /\ ~modal.view.error => ContentsOfTop'
      BY <1>2, <2>2 DEF SheetLoads, Open
    <3>1. LoadsOne(c)
      BY <2>1 DEF StaffInv, SheetLoads
    <3>2. \A d \in staffCalls' : IsLoad(d) => d = n
      BY <1>2, <3>1 DEF LoadsOne
    <3>3. LoadsOne(n)'
      BY <1>2, <1>3, <2>2, <3>1, <3>2 DEF LoadsOne, Sheet, Top
    <3> QED  BY <3>1, <3>2, <3>3 DEF LoadsOne
  <2>4. SheetComes'
    <3> SUFFICES ASSUME Open, ~modal.view.overlap, Top.user \in Clients
                 PROVE  \E d \in staffCalls' : LoadsSheet(d)' /\ (d.got = NoSheet \/ SheetTells(d.got, Top.user)')
      BY <1>2 DEF SheetComes, Open, Top
    <3>1. c.user = Top.user
      BY <1>2, <2>1 DEF StaffInv, SheetLoads, LoadsOne
    <3>2. \A u : SheetTells(r, u) => SheetTells(r, u)'
      BY <1>2 DEF SheetTells
    <3>3. Top' = Top
      BY <1>2 DEF Top
    <3> QED  BY <1>1, <1>3, <2>1, <2>2, <3>1, <3>2, <3>3
  <2> QED  BY <1>4, <1>5, <2>3, <2>4 DEF StaffInv
<1> QED  BY <1>6, <1>7

\* The load of the view on top ends.
LEMMA LoadEnds ==
    ASSUME StaffInv, NEW c \in staffCalls, IsLoad(c),
           modal'.stack = modal.stack, modal'.inst = modal.inst, modal'.view.overlap = modal.view.overlap,
           \A d \in staffCalls' : d \in staffCalls \ {c} \/ d.kind = "list",
           LoadsOne(c) /\ ~modal'.view.loading /\ ~modal'.view.error => ContentsOfTop'
    PROVE  /\ SheetLoads'
           /\ Open /\ ~modal.view.overlap => \A d \in staffCalls' : ~LoadsSheet(d)
BY DEF IsLoad, Loads, LoadsSheet, StaffInv, SheetLoads, LoadsOne, Open

\* A sheet arrives; of a client the accounts are loaded next.
LEMMA ArriveDetailsKeeps ==
    ASSUME StaffInv, NEW c \in staffCalls, ArriveDetails(c)
    PROVE  StaffInv'
<1> DEFINE n == [c EXCEPT !.kind = "accounts", !.got = NoSheet]
           l == ListCall(section.term)
           mine == c.inst = modal.inst
<1>1. /\ held' = held /\ staffLog' = staffLog /\ c.kind = "details" /\ c.got # NoSheet
      /\ CallOK(c) /\ c.got.id = c.user /\ c.got.advisor \in AdvisorOrNone
  BY DEF ArriveDetails, StaffInv, StaffTypeOK, CallOK
<1>2. /\ DOMAIN n = CallFields /\ n.kind = "accounts" /\ n.user = c.user /\ n.inst = c.inst
      /\ n.reload = c.reload
  BY <1>1 DEF CallOK, CallFields
<1>3. CallOK(l) /\ l.kind = "list" /\ l.kind \notin Loads \cup Own /\ l.inst # modal.inst
  BY ListIsNoLoad
<1>4. c.kind \in Loads /\ (mine => IsLoad(c))
  BY <1>1 DEF IsLoad, Loads
<1> HIDE DEF n, l
<1>5. /\ modal'.stack = modal.stack /\ modal'.inst = modal.inst /\ modal'.base = modal.base
      /\ DOMAIN modal' = DOMAIN modal /\ DOMAIN modal'.view = SheetFields
      /\ modal'.view.accounts = modal.view.accounts /\ modal'.view.overlap = modal.view.overlap
      /\ modal'.view.error = modal.view.error /\ modal'.view.items = modal.view.items
      /\ modal'.view.range = modal.view.range
      /\ modal'.view.details = IF mine THEN c.got ELSE modal.view.details
      /\ ~mine => modal' = modal
      /\ c.user \in Clients => modal'.view.loading = modal.view.loading
      /\ mine /\ c.user \notin Clients => ~modal'.view.loading
  <2>1. DOMAIN modal = {"stack", "inst", "base", "view"} /\ DOMAIN modal.view = SheetFields
    BY DEF StaffInv, StaffTypeOK
  <2>2. CASE ~mine
    BY <2>1, <2>2 DEF ArriveDetails
  <2>3. CASE mine /\ c.user \in Clients
    BY <2>3, <2>1 DEF ArriveDetails, IsClient, SheetFields
  <2>4. CASE mine /\ c.user \notin Clients
    <3>1. PICK b : modal' = [modal EXCEPT !.view.details = c.got, !.view.loading = FALSE,
                                          !.view.acting = b]
      BY <2>4 DEF ArriveDetails, IsClient
    <3> QED  BY <2>1, <2>4, <3>1 DEF SheetFields
  <2> QED  BY <2>2, <2>3, <2>4
<1>6. CASE c.user \in Clients
  <2>1. staffCalls' = (staffCalls \ {c}) \cup {n} /\ section' = section
    BY <1>6 DEF ArriveDetails, IsClient, n
  <2>2. CallOK(n)
    BY <1>1, <1>2, <1>6 DEF CallOK, ViewOf, Own
  <2>3. StaffTypeOK'
    BY <1>1, <1>5, <2>1, <2>2, StaffTypesKept DEF StaffInv, StaffTypeOK, HeldOK
  <2>4. DirectoryComes'
    BY <1>1, <1>2, <2>1, ListKept DEF ListToCome, Own, StaffInv
  <2>5. \A u : ChangeKnown(u) => ChangeKnown(u)'
    BY <1>1, <2>1 DEF ChangeKnown, Own
  <2>6. CASE ~mine
    BY <1>1, <1>2, <1>5, <2>1, <2>3, <2>4, <2>5, <2>6, OtherViewsCalls DEF StaffInv
  <2>7. CASE mine
    <3>1. \A d : /\ IsLoad(d)' <=> IsLoad(d)
                 /\ LoadsSheet(d)' <=> LoadsSheet(d)
                 /\ LoadsSheet(d) => IsLoad(d)
      BY <1>5 DEF IsLoad, Loads, LoadsSheet
    <3>2. ~LoadsSheet(n) /\ LoadsSheet(c)
      BY <1>1, <1>2, <2>7 DEF LoadsSheet
    <3>3. ASSUME Open, ~modal.view.overlap
          PROVE  LoadsOne(c) /\ \A d \in staffCalls' : IsLoad(d) => d = n
      BY <1>4, <2>1, <2>7, <3>3 DEF StaffInv, SheetLoads, LoadsOne
    <3>4. SheetLoads'
      <4> SUFFICES ASSUME Open, ~modal.view.overlap
                   PROVE  modal'.view.loading /\ \A d \in staffCalls' : IsLoad(d) => LoadsOne(d)'
        BY <1>5, <3>1 DEF SheetLoads, Open
      <4>1. LoadsOne(n)'
        BY <1>1, <1>2, <1>5, <1>6, <2>7, <3>1, <3>3 DEF LoadsOne, Sheet, Top
      <4> QED  BY <1>5, <1>6, <3>3, <4>1 DEF LoadsOne
    <3>5. SheetComes'
      <4> SUFFICES ASSUME Open, ~modal.view.overlap, Top.type = "user", Top.user \in Clients
                   PROVE  /\ ChangeKnown(Top.user)' \/ SheetTells(c.got, Top.user)'
                          /\ \A d \in staffCalls' : ~LoadsSheet(d)
        BY <1>5, <2>7, <3>1 DEF SheetComes, Open, Top, Sheet
      <4>1. \A d \in staffCalls' : ~LoadsSheet(d)
        BY <3>1, <3>2, <3>3
      <4>2. ChangeKnown(Top.user) \/ SheetTells(c.got, Top.user)
        BY <3>1, <3>3, <1>1, <3>2 DEF LoadsOne, StaffInv, SheetComes
      <4>3. \A s, u : SheetTells(s, u) => SheetTells(s, u)'
        BY <1>1 DEF SheetTells
      <4>4. Top' = Top
        BY <1>5 DEF Top
      <4> QED  BY <1>5, <2>5, <2>7, <4>1, <4>2, <4>3, <4>4 DEF SheetTells
    <3> QED  BY <2>3, <2>4, <3>4, <3>5 DEF StaffInv
  <2> QED  BY <2>6, <2>7
<1>7. CASE c.user \notin Clients
  <2> DEFINE rest == staffCalls \ {c}
  <2>1. AfterLoad(rest, c)
    BY <1>7 DEF ArriveDetails, IsClient
  <2>2. \A d : d.kind = "list" => (d \in rest <=> d \in staffCalls)
    BY <1>1
  <2> HIDE DEF rest
  <2>3. /\ DirectoryComes' /\ DOMAIN section' = DOMAIN section
        /\ rest \subseteq staffCalls' /\ \A d \in staffCalls' : d \in rest \/ d = l
    BY <1>1, <1>4, <2>1, <2>2, AfterLoadLists DEF l, rest
  <2>4. StaffTypeOK'
    BY <1>1, <1>3, <1>5, <2>3, StaffTypesKept DEF StaffInv, StaffTypeOK, HeldOK, rest
  <2>5. \A u : ChangeKnown(u) => ChangeKnown(u)'
    BY <1>1, <2>3 DEF ChangeKnown, Own, rest
  <2>6. CASE ~mine
    BY <1>3, <2>3, <2>6, <1>1, <1>5, <2>4, <2>5, OtherViewsCalls DEF rest, StaffInv
  <2>7. CASE mine
    <3>1. LoadsOne(c) => ContentsOfTop'
      BY <1>1, <1>5, <2>7, <1>7 DEF Top, CallOK, ViewOf, LoadsOne, ContentsOfTop, Sheet, IsClient
    <3>2. SheetLoads'
      BY <1>3, <1>4, <1>5, <2>3, <2>7, <3>1, LoadEnds DEF rest
    <3>3. SheetComes'
      <4> SUFFICES ASSUME Open, ~modal.view.overlap, Top.user \in Clients  PROVE FALSE
        BY <1>5 DEF SheetComes, Open, Top
      <4> QED  BY <1>1, <1>4, <1>7, <2>7 DEF StaffInv, SheetLoads, LoadsOne
    <3> QED  BY <2>3, <2>4, <3>2, <3>3 DEF StaffInv
  <2> QED  BY <2>6, <2>7
<1> QED  BY <1>6, <1>7

\* The sheet once its load has ended without it.
LEMMA SheetStays ==
    ASSUME StaffInv, held' = held, staffLog'.unread = staffLog.unread, NEW c \in staffCalls, IsLoad(c),
           modal'.stack = modal.stack, modal'.inst = modal.inst,
           modal'.view.overlap = modal.view.overlap, modal'.view.details = modal.view.details,
           staffCalls \ {c} \subseteq staffCalls',
           Open /\ ~modal.view.overlap => \A d \in staffCalls' : ~LoadsSheet(d),
           modal'.view.error \/ (c.kind # "details" /\ ~modal.view.error)
    PROVE  SheetComes'
<1>1. /\ Open' <=> Open
      /\ Top' = Top /\ Sheet' = Sheet
      /\ \A d : (LoadsSheet(d)' <=> LoadsSheet(d)) /\ (LoadsSheet(d) => IsLoad(d))
      /\ \A s, u : SheetTells(s, u) => SheetTells(s, u)'
  BY DEF Open, Top, Sheet, LoadsSheet, IsLoad, Loads, SheetTells
<1>2. SUFFICES ASSUME Open, ~modal.view.overlap, Top.type = "user", Top.user \in Clients,
                      c.kind # "details", ~modal.view.error
               PROVE  ChangeKnown(Top.user)' \/ SheetTells(Sheet, Top.user)'
  BY <1>1 DEF SheetComes
<1>3. \A d \in staffCalls : LoadsSheet(d) => d = c
  BY <1>1, <1>2 DEF StaffInv, SheetLoads, LoadsOne
<1>4. ~LoadsSheet(c)
  BY <1>2 DEF LoadsSheet
<1>5. \A u : ChangeKnown(u) => ChangeKnown(u)'
  BY DEF ChangeKnown, IsLoad, Loads, Own
<1> QED  BY <1>1, <1>2, <1>3, <1>4, <1>5 DEF StaffInv, SheetComes

\* The accounts of a client or the lines of an account arrive.
LEMMA ArriveContentsKeeps ==
    ASSUME StaffInv, NEW c \in staffCalls, ArriveContents(c)
    PROVE  StaffInv'
<1> DEFINE l == ListCall(section.term)
           mine == c.inst = modal.inst
           rest == staffCalls \ {c}
<1>1. /\ held' = held /\ staffLog' = staffLog /\ c.kind \in {"accounts", "lines"} /\ AfterLoad(rest, c)
      /\ CallOK(c)
  BY DEF ArriveContents, StaffInv, StaffTypeOK
<1>2. CallOK(l) /\ l.kind = "list" /\ l.kind \notin Loads \cup Own /\ l.inst # modal.inst
  BY ListIsNoLoad
<1>3. c.kind \in Loads /\ (mine => IsLoad(c)) /\ (c.kind = "accounts" => c.user \in Clients)
  BY <1>1 DEF IsLoad, Loads, CallOK
<1>4. \A d : d.kind = "list" => (d \in rest <=> d \in staffCalls)
  BY <1>1
<1> HIDE DEF l
<1>5. /\ modal'.stack = modal.stack /\ modal'.inst = modal.inst /\ modal'.base = modal.base
      /\ DOMAIN modal' = DOMAIN modal /\ DOMAIN modal'.view = SheetFields
      /\ modal'.view.overlap = modal.view.overlap /\ modal'.view.details = modal.view.details
      /\ modal'.view.error = modal.view.error /\ modal'.view.range = modal.view.range
      /\ ~mine => modal' = modal
      /\ mine => ~modal'.view.loading
      /\ modal'.view.accounts = IF mine /\ c.kind = "accounts" THEN c.user ELSE modal.view.accounts
      /\ modal'.view.items = IF mine /\ c.kind = "lines" THEN c.what ELSE modal.view.items
  <2>1. DOMAIN modal = {"stack", "inst", "base", "view"} /\ DOMAIN modal.view = SheetFields
    BY DEF StaffInv, StaffTypeOK
  <2>2. CASE ~mine
    BY <2>1, <2>2 DEF ArriveContents
  <2>3. CASE mine /\ c.kind = "accounts"
    <3>1. PICK b : modal' = [modal EXCEPT !.view.accounts = c.user, !.view.loading = FALSE,
                                          !.view.acting = b]
      BY <2>3 DEF ArriveContents
    <3> QED  BY <2>1, <2>3, <3>1 DEF SheetFields
  <2>4. CASE mine /\ c.kind = "lines"
    BY <2>4, <2>1 DEF ArriveContents, SheetFields
  <2> QED  BY <1>1, <2>2, <2>3, <2>4
<1> HIDE DEF rest
<1>6. /\ DirectoryComes' /\ DOMAIN section' = DOMAIN section
      /\ rest \subseteq staffCalls' /\ \A d \in staffCalls' : d \in rest \/ d = l
  BY <1>1, <1>3, <1>4, AfterLoadLists DEF l, rest
<1>7. StaffTypeOK'
  BY <1>1, <1>2, <1>3, <1>5, <1>6, StaffTypesKept DEF StaffInv, StaffTypeOK, HeldOK, rest
<1>8. CASE ~mine
  BY <1>1, <1>6, <1>2, <1>8, <1>5, <1>7, OtherViewsCalls DEF ChangeKnown, Own, rest, StaffInv
<1>9. CASE mine
  BY <1>1, <1>5, <1>9, <1>2, <1>3, <1>6, LoadEnds, SheetStays, <1>7 DEF Top, CallOK, ViewOf,
     LoadsOne, ContentsOfTop, Sheet, IsClient, rest, StaffInv
<1> QED  BY <1>8, <1>9

\* A load fails.
LEMMA FailLoadKeeps ==
    ASSUME StaffInv, NEW c \in staffCalls, FailLoad(c)
    PROVE  StaffInv'
<1> DEFINE l == ListCall(section.term)
           mine == c.inst = modal.inst
           rest == staffCalls \ {c}
<1>1. /\ held' = held /\ c.kind \in Loads /\ AfterLoad(rest, c) /\ CallOK(c)
      /\ DOMAIN staffLog' = DOMAIN staffLog /\ staffLog'.actor = staffLog.actor
      /\ staffLog'.unread = staffLog.unread /\ staffLog'.unlisted = staffLog.unlisted
  BY DEF FailLoad, Spend, StaffInv, StaffTypeOK, StaffLogFields
<1>2. CallOK(l) /\ l.kind = "list" /\ l.kind \notin Loads \cup Own /\ l.inst # modal.inst
  BY ListIsNoLoad
<1>3. (mine => IsLoad(c)) /\ (c.kind = "accounts" => c.user \in Clients)
  BY <1>1 DEF IsLoad, CallOK
<1>4. \A d : d.kind = "list" => (d \in rest <=> d \in staffCalls)
  BY <1>1 DEF Loads
<1> HIDE DEF l
<1>5. /\ modal'.stack = modal.stack /\ modal'.inst = modal.inst /\ modal'.base = modal.base
      /\ DOMAIN modal' = DOMAIN modal /\ DOMAIN modal'.view = SheetFields
      /\ modal'.view.overlap = modal.view.overlap /\ modal'.view.details = modal.view.details
      /\ ~mine => modal' = modal
      /\ mine => (modal'.view.error \/ (c.kind = "accounts" /\ ~modal.view.error))
      /\ modal'.view.accounts = IF mine /\ c.kind = "accounts" THEN NoSheet ELSE modal.view.accounts
  <2>1. DOMAIN modal = {"stack", "inst", "base", "view"} /\ DOMAIN modal.view = SheetFields
    BY DEF StaffInv, StaffTypeOK
  <2>2. CASE ~mine
    BY <2>1, <2>2 DEF FailLoad
  <2>3. CASE mine
    <3>1. PICK b, e, w :
             /\ modal' = [modal EXCEPT !.view.loading = FALSE, !.view.acting = b, !.view.error = e,
                                       !.view.accounts = w]
             /\ e \/ (c.kind = "accounts" /\ ~modal.view.error)
             /\ w = IF c.kind = "accounts" THEN NoSheet ELSE modal.view.accounts
      <4> DEFINE b == modal.view.acting /\ ~c.reload
                 e == c.kind # "accounts" \/ modal.view.error
                 w == IF c.kind = "accounts" THEN NoSheet ELSE modal.view.accounts
      <4>1. modal' = [modal EXCEPT !.view.loading = FALSE, !.view.acting = b, !.view.error = e,
                                   !.view.accounts = w]
        BY <2>1, <2>3 DEF FailLoad, SheetFields
      <4>2. e \/ (c.kind = "accounts" /\ ~modal.view.error)
        OBVIOUS
      <4> HIDE DEF b, e
      <4> QED  BY <4>1, <4>2
    <3> QED  BY <2>1, <2>3, <3>1 DEF SheetFields
  <2> QED  BY <2>2, <2>3
<1> HIDE DEF rest
<1>6. /\ DirectoryComes' /\ DOMAIN section' = DOMAIN section
      /\ rest \subseteq staffCalls' /\ \A d \in staffCalls' : d \in rest \/ d = l
  BY <1>1, <1>3, <1>4, AfterLoadLists DEF l, rest
<1>7. StaffTypeOK'
  BY <1>1, <1>2, <1>3, <1>5, <1>6, StaffTypesKept DEF StaffInv, StaffTypeOK, HeldOK, rest
<1>8. CASE ~mine
  BY <1>1, <1>6, <1>2, <1>8, <1>5, <1>7, OtherViewsCalls DEF ChangeKnown, Own, Loads, rest, StaffInv
<1>9. CASE mine
  BY <1>1, <1>5, <1>9, <1>2, <1>3, <1>6, LoadEnds, SheetStays, <1>7 DEF Top, CallOK, ViewOf,
     LoadsOne, ContentsOfTop, Sheet, IsClient, rest, StaffInv
<1> QED  BY <1>8, <1>9

\* Another period is chosen: its lines are loaded.
LEMMA SelectRangeKeeps ==
    ASSUME StaffInv, NEW r, SelectRange(r)
    PROVE  StaffInv'
<1> DEFINE n == StaffCall("lines", Top.user, r)
<1>1. /\ DOMAIN n = CallFields /\ n.kind = "lines" /\ n.what = r /\ n.inst = modal.inst
      /\ n.reload = FALSE
  BY DEF StaffCall, CallFields
<1>2. /\ held' = held /\ section' = section /\ staffCalls' = staffCalls \cup {n}
      /\ Open /\ Top.type = "account"
      /\ DOMAIN staffLog' = DOMAIN staffLog /\ staffLog'.actor = staffLog.actor
      /\ staffLog'.unread = staffLog.unread /\ staffLog'.unlisted = staffLog.unlisted
  BY DEF SelectRange, Spend, StaffInv, StaffTypeOK, StaffLogFields
<1>3. /\ modal'.stack = modal.stack /\ modal'.inst = modal.inst /\ modal'.base = modal.base
      /\ DOMAIN modal' = DOMAIN modal /\ DOMAIN modal'.view = SheetFields
      /\ modal'.view.overlap = (\E c \in staffCalls : IsLoad(c))
      /\ modal'.view.details = modal.view.details /\ modal'.view.accounts = modal.view.accounts
      /\ modal'.view.loading /\ modal'.view.range = r
  <2>1. DOMAIN modal = {"stack", "inst", "base", "view"} /\ DOMAIN modal.view = SheetFields
    BY DEF StaffInv, StaffTypeOK
  <2>2. PICK b : /\ modal' = [modal EXCEPT !.view.range = r, !.view.loading = TRUE,
                                           !.view.error = FALSE, !.view.overlap = b]
                 /\ b = (\E c \in staffCalls : IsLoad(c))
    BY Zenon DEF SelectRange
  <2> QED  BY <2>1, <2>2 DEF SheetFields
<1> HIDE DEF n
<1>4. CallOK(n)
  BY <1>1, <1>2 DEF CallOK, ViewOf, Own, StaffInv, StaffTypeOK, StackOK
<1>5. StaffTypeOK'
  BY <1>2, <1>3, <1>4, StaffTypesKept DEF StaffInv, StaffTypeOK, HeldOK
<1>6. \A d : (IsLoad(d)' <=> IsLoad(d)) /\ Top' = Top /\ (Open' <=> Open)
  BY <1>3 DEF IsLoad, Top, Open
<1>7. SheetLoads'
  <2> SUFFICES ASSUME \A c \in staffCalls : ~IsLoad(c)
               PROVE  \A c \in staffCalls' : IsLoad(c) => LoadsOne(c)'
    BY <1>3, <1>6 DEF SheetLoads
  <2> QED  BY <1>1, <1>2, <1>3, <1>6 DEF LoadsOne
<1>8. SheetComes'
  BY <1>2, <1>6 DEF SheetComes
<1>9. DirectoryComes'
  BY <1>2, <1>1, ListKept DEF StaffInv
<1> QED  BY <1>5, <1>7, <1>8, <1>9 DEF StaffInv

-----------------------------------------------------------------------------
\* A view put on a sheet; a view taken off.
LEMMA PushView ==
    ASSUME StaffInv, Open, Top.type = "user", NEW v \in ViewRows,
           v.type \in {"reassign", "request"} => v.user \in Clients
    PROVE  LET s == Append(modal.stack, v)
           IN  Stacked(s) /\ s # <<>> /\ Last(s) = v
<1> DEFINE k == modal.stack
           s == Append(k, v)
<1>1. k \in Seq(ViewRows) /\ Stacked(k) /\ k # <<>> /\ k[Len(k)].type = "user"
  BY DEF StaffInv, StaffTypeOK, StackOK, Stacked, Open, Top, Last
<1> HIDE DEF k
<1>2. /\ s \in Seq(ViewRows) /\ Len(s) = Len(k) + 1 /\ Len(k) \in Nat /\ Len(k) > 0
      /\ \A i \in 1..Len(s) : s[i] = IF i = Len(s) THEN v ELSE k[i]
  BY <1>1
<1>3. s # <<>> /\ Last(s) = v
  BY <1>2 DEF Last
<1> HIDE DEF s
<1>4. Stacked(s)
  BY <1>1, <1>2 DEF Stacked
<1> QED  BY <1>3, <1>4 DEF s, k

\* What is below is a sheet.
LEMMA PopView ==
    ASSUME StaffInv, Len(modal.stack) > 1
    PROVE  LET s == Front(modal.stack)
           IN  Stacked(s) /\ s # <<>> /\ Last(s).type = "user"
<1> DEFINE k == modal.stack
           s == Front(k)
<1>1. k \in Seq(ViewRows) /\ Stacked(k) /\ Len(k) > 1 /\ Len(k) \in Nat
  BY DEF StaffInv, StaffTypeOK, StackOK, Stacked
<1> HIDE DEF k
<1>2. /\ s \in Seq(ViewRows) /\ Len(s) = Len(k) - 1
      /\ \A i \in 1..Len(s) : s[i] = k[i]
  BY <1>1 DEF Front
<1> HIDE DEF s
<1>3. s # <<>> /\ Last(s) = k[Len(k) - 1]
  BY <1>1, <1>2 DEF Last
<1>4. Stacked(s) /\ Last(s).type = "user"
  BY <1>1, <1>2, <1>3 DEF Stacked
<1> QED  BY <1>3, <1>4 DEF s, k

\* The component on top stays; it loads.
Stays(s) == Open /\ s # <<>> /\ Last(s).type = Top.type
ShowLoads(s) ==
    s # <<>> /\ Last(s).type \in {"user", "account"} /\ ~(Stays(s) /\ Last(s).user = Top.user)
OldView(s) == IF Stays(s) THEN modal.view ELSE Blank

\* What showing a stack of views does.
LEMMA ShowDoes ==
    ASSUME StaffInv, NEW s, NEW cs, Show(s, cs)
    PROVE  /\ DOMAIN modal' = DOMAIN modal /\ DOMAIN modal'.view = SheetFields
           /\ modal'.stack = s /\ modal'.inst = IF Stays(s) THEN modal.inst ELSE modal.inst + 1
           /\ modal'.base = IF Open THEN modal.base ELSE modal'.inst
           /\ modal'.view.details = OldView(s).details /\ modal'.view.accounts = OldView(s).accounts
           /\ modal'.view.items = OldView(s).items /\ modal'.view.range = OldView(s).range
           /\ ~ShowLoads(s) => modal'.view = OldView(s) /\ staffCalls' = cs
           /\ ShowLoads(s) =>
                /\ modal'.view.loading
                /\ \A c \in cs : c.kind \in Loads /\ c.inst = modal'.inst => modal'.view.overlap
<1> DEFINE i == IF Stays(s) THEN modal.inst ELSE modal.inst + 1
           b == IF Open THEN modal.base ELSE i
           o == \E c \in cs : c.kind \in Loads /\ c.inst = i
           v == [OldView(s) EXCEPT !.loading = TRUE, !.error = FALSE, !.overlap = o]
<1>1. CASE ~ShowLoads(s)
  BY <1>1 DEF Show, ShowLoads, Stays, OldView, StaffInv, StaffTypeOK, Blank, SheetFields
<1>2. CASE ShowLoads(s)
  <2>1. modal' = [stack |-> s, inst |-> i, base |-> b, view |-> v]
    BY <1>2 DEF Show, ShowLoads, Stays, OldView
  <2>2. DOMAIN modal = {"stack", "inst", "base", "view"} /\ DOMAIN OldView(s) = SheetFields
    BY DEF StaffInv, StaffTypeOK, OldView, Blank, SheetFields
  <2> HIDE DEF o
  <2>4. /\ DOMAIN v = SheetFields /\ v.loading /\ v.overlap = o
        /\ v.details = OldView(s).details /\ v.accounts = OldView(s).accounts
        /\ v.items = OldView(s).items /\ v.range = OldView(s).range
    BY <2>2 DEF SheetFields
  <2> HIDE DEF v
  <2>5. /\ DOMAIN modal' = DOMAIN modal /\ modal'.stack = s /\ modal'.inst = i /\ modal'.base = b
        /\ modal'.view = v
    BY <2>1, <2>2
  <2>6. \A c \in cs : c.kind \in Loads /\ c.inst = modal'.inst => modal'.view.overlap
    BY <2>4, <2>5 DEF o
  <2> QED  BY <1>2, <2>1, <2>4, <2>5, <2>6
<1> QED  BY <1>1, <1>2

\* What the load of a view is.
LoadOf(n, of, inst) ==
    /\ DOMAIN n = CallFields
    /\ n.kind = (IF of.type = "user" THEN "details" ELSE "lines")
    /\ n.user = of.user /\ n.what = "all" /\ n.inst = inst
    /\ n.reload = FALSE /\ n.got = NoSheet

\* The load that begins is of the view now on top.
LEMMA ShowBeginsLoad ==
    ASSUME StaffInv, NEW s, NEW cs, Show(s, cs), ShowLoads(s)
    PROVE  \E n : staffCalls' = cs \cup {n} /\ LoadOf(n, Last(s), modal'.inst)
<1> DEFINE i == IF Stays(s) THEN modal.inst ELSE modal.inst + 1
           k == IF Last(s).type = "user" THEN "details" ELSE "lines"
           n == [StaffCall(k, Last(s).user, "all") EXCEPT !.inst = i, !.depth = Len(s)]
<1>1. staffCalls' = cs \cup {n} /\ modal'.inst = i
  BY DEF Show, ShowLoads, Stays
<1>2. /\ DOMAIN n = CallFields /\ n.kind = k /\ n.user = Last(s).user /\ n.what = "all"
      /\ n.inst = i /\ n.reload = FALSE /\ n.got = NoSheet
  BY DEF StaffCall, CallFields
<1> HIDE DEF n
<1> QED  BY <1>1, <1>2 DEF LoadOf

\* At most one load begins.
LEMMA ShowCalls ==
    ASSUME StaffInv, NEW s, NEW cs, Show(s, cs)
    PROVE  \/ staffCalls' = cs
           \/ \E n : n.kind \in Loads /\ staffCalls' = cs \cup {n}
<1>1. CASE ShowLoads(s)
  <2>1. PICK n : staffCalls' = cs \cup {n} /\ LoadOf(n, Last(s), modal'.inst)
    BY <1>1, ShowBeginsLoad
  <2> QED  BY <2>1 DEF LoadOf, Loads
<1>2. CASE ~ShowLoads(s)
  BY <1>2, ShowDoes
<1> QED  BY <1>1, <1>2

\* Showing a stack of views keeps what the views show, or loads it.
LEMMA ShowKeeps ==
    ASSUME StaffInv, NEW s, NEW cs, Show(s, cs), Stacked(s), Stays(s) => Top.type = "user",
           held' = held, DOMAIN section' = DOMAIN section, DOMAIN staffLog' = DOMAIN staffLog,
           \A d \in cs : d \in staffCalls \/ (CallOK(d) /\ d.kind = "list"),
           \A d \in staffCalls : d.kind \in Loads => d \in cs,
           Stays(s) => \A u : ChangeKnown(u) => ChangeKnown(u)'
    PROVE  /\ StaffTypeOK' /\ SheetLoads' /\ SheetComes'
           /\ cs \subseteq staffCalls'
           /\ \A d \in staffCalls' : d \in cs \/ (d.kind \in Loads /\ ~d.reload)
<1>1. /\ DOMAIN modal' = DOMAIN modal /\ DOMAIN modal'.view = SheetFields
      /\ modal'.stack = s /\ modal'.inst = IF Stays(s) THEN modal.inst ELSE modal.inst + 1
      /\ modal'.base = IF Open THEN modal.base ELSE modal'.inst
      /\ modal'.view.details = OldView(s).details /\ modal'.view.accounts = OldView(s).accounts
      /\ modal'.view.items = OldView(s).items /\ modal'.view.range = OldView(s).range
      /\ ~ShowLoads(s) => modal'.view = OldView(s) /\ staffCalls' = cs
      /\ ShowLoads(s) =>
           /\ modal'.view.loading
           /\ \A c \in cs : c.kind \in Loads /\ c.inst = modal'.inst => modal'.view.overlap
  BY ShowDoes
<1>2. /\ modal.inst \in Nat /\ modal.inst > 0 /\ modal.base \in Nat /\ (Open => modal.base <= modal.inst)
      /\ modal'.inst \in Nat /\ modal'.inst >= modal.inst
  BY <1>1 DEF StaffInv, StaffTypeOK, StackOK
<1>3. /\ Open' <=> s # <<>>
      /\ Top' = Last(s) /\ Sheet' = modal'.view.details
      /\ \A d : IsLoad(d)' <=> (d.kind \in Loads /\ d.inst = modal'.inst)
      /\ \A d : LoadsSheet(d)' <=> (d.kind = "details" /\ d.inst = modal'.inst)
  BY <1>1 DEF Open, Top, Sheet, IsLoad, LoadsSheet
<1>4. StackOK'
  BY <1>1, <1>2, <1>3 DEF StackOK
<1>5. /\ OldView(s).accounts \in Clients \cup {NoSheet}
      /\ OldView(s).details # NoSheet => OldView(s).details.advisor \in AdvisorOrNone
  BY DEF OldView, Blank, StaffInv, StaffTypeOK
<1>6. \A d \in cs : CallOK(d) /\ CallOK(d)'
  <2> TAKE d \in cs
  <2>1. CallOK(d) /\ (d.kind = "list" => d.inst = 0)
    BY DEF StaffInv, StaffTypeOK, CallOK
  <2>2. d.inst = modal'.inst => Stays(s) /\ d.inst = modal.inst
    BY <1>1, <1>2, <2>1 DEF CallOK
  <2>3. d.inst = modal'.inst => Open' /\ Top'.type = ViewOf(d.kind)
    BY <1>3, <2>1, <2>2 DEF CallOK, Stays
  <2> QED  BY <1>2, <2>1, <2>3 DEF CallOK
<1>7. ASSUME ~Stays(s)
      PROVE  \A d \in cs : d.inst # modal'.inst
  BY <1>1, <1>2, <1>6, <1>7 DEF CallOK
<1>8. CASE ~ShowLoads(s)
  <2>1. StaffTypeOK'
    BY <1>1, <1>4, <1>5, <1>6, <1>8 DEF StaffInv, StaffTypeOK, HeldOK
  <2>2. CASE ~Stays(s)
    BY <1>1, <1>3, <1>7, <1>8, <2>2, <2>1 DEF ShowLoads, SheetLoads, SheetComes, ContentsOfTop
  <2>3. CASE Stays(s)
    <3>1. /\ Open /\ Top.type = "user" /\ Top'.type = "user" /\ Top'.user = Top.user
          /\ modal'.view = modal.view /\ modal'.inst = modal.inst
      BY <1>1, <1>3, <1>8, <2>3 DEF Stays, ShowLoads, OldView
    <3>2. \A d : (IsLoad(d)' <=> IsLoad(d)) /\ (LoadsSheet(d)' <=> LoadsSheet(d)) /\ Sheet' = Sheet
      BY <1>3, <3>1 DEF IsLoad, LoadsSheet, Sheet
    <3>3. \A d : IsLoad(d) => (d \in staffCalls' <=> d \in staffCalls)
      BY <1>1, <1>8 DEF IsLoad, Loads
    <3>4. \A c : LoadsOne(c) => LoadsOne(c)'
      BY <3>1, <3>2, <3>3 DEF LoadsOne
    <3>5. SheetLoads'
      BY <3>1, <3>2, <3>3, <3>4 DEF StaffInv, SheetLoads, ContentsOfTop
    <3>6. \A d : LoadsSheet(d) => (d \in staffCalls' <=> d \in staffCalls)
      BY <3>3 DEF LoadsSheet, IsLoad, Loads
    <3>7. SheetComes'
      BY <2>3, <3>1, <3>2, <3>6 DEF StaffInv, SheetComes, SheetTells
    <3> QED  BY <1>1, <1>8, <2>1, <3>5, <3>7
  <2> QED  BY <2>2, <2>3
<1>9. CASE ShowLoads(s)
  <2>0. PICK n : staffCalls' = cs \cup {n} /\ LoadOf(n, Last(s), modal'.inst)
    BY <1>9, ShowBeginsLoad
  <2>1. /\ staffCalls' = cs \cup {n} /\ DOMAIN n = CallFields
        /\ n.kind = (IF Last(s).type = "user" THEN "details" ELSE "lines")
        /\ n.user = Last(s).user /\ n.what = "all" /\ n.inst = modal'.inst
        /\ n.reload = FALSE /\ n.got = NoSheet
    BY <2>0 DEF LoadOf
  <2>2. s # <<>> /\ Last(s).type \in {"user", "account"}
    BY <1>9 DEF ShowLoads
  <2>3. CallOK(n)'
    BY <1>2, <1>3, <2>1, <2>2 DEF CallOK, ViewOf, Own
  <2>4. StaffTypeOK'
    BY <1>1, <1>4, <1>5, <1>6, <2>1, <2>3 DEF StaffInv, StaffTypeOK, HeldOK
  <2>5. modal'.view.overlap \/ \A d \in staffCalls' : IsLoad(d)' => d = n
    BY <1>1, <1>3, <1>9, <2>1
  <2>6. Last(s).type = "account" => modal'.view.range = "all"
    BY <1>1 DEF OldView, Stays, Blank
  <2>7. modal'.view.overlap \/ LoadsOne(n)'
    BY <1>1, <1>3, <1>9, <2>1, <2>2, <2>5, <2>6 DEF LoadsOne
  <2>8. SheetLoads'
    BY <1>1, <1>9, <2>5, <2>7 DEF SheetLoads
  <2>9. SheetComes'
    BY <1>3, <2>1 DEF SheetComes
  <2>10. n.kind \in Loads
    BY <2>1 DEF Loads
  <2> QED  BY <2>1, <2>4, <2>8, <2>9, <2>10
<1> QED  BY <1>8, <1>9

\* The views a user opens and closes.
LEMMA MoveKeeps ==
    ASSUME StaffInv, NEW s, Show(s, staffCalls), Stacked(s), Stays(s) => Top.type = "user",
           Spend("moves"), held' = held, section' = section
    PROVE  StaffInv'
<1>1. /\ DOMAIN staffLog' = DOMAIN staffLog /\ staffLog'.actor = staffLog.actor
      /\ staffLog'.unread = staffLog.unread /\ staffLog'.unlisted = staffLog.unlisted
  BY DEF Spend, StaffInv, StaffTypeOK, StaffLogFields
<1>0. PICK cs : cs = staffCalls
  OBVIOUS
<1>6. Show(s, cs)
  BY <1>0 DEF Show
<1>2. staffCalls \subseteq staffCalls'
  BY <1>0, <1>6, ShowCalls
<1>3. \A u : ChangeKnown(u) => ChangeKnown(u)'
  BY <1>1, <1>2 DEF ChangeKnown
<1>4. /\ StaffTypeOK' /\ SheetLoads' /\ SheetComes'
      /\ \A d \in staffCalls' : d \in staffCalls \/ (d.kind \in Loads /\ ~d.reload)
  BY <1>0, <1>1, <1>3, <1>6, ShowKeeps
<1>5. DirectoryComes'
  BY <1>2, <1>4, <1>1, ListKept DEF Loads, StaffInv
<1> QED  BY <1>4, <1>5 DEF StaffInv

\* A sheet is opened from the list.
LEMMA OpenSheetKeeps ==
    ASSUME StaffInv, NEW u \in Users, OpenSheet(u)
    PROVE  StaffInv'
<1> DEFINE v == View("user", u)
<1>1. v \in ViewRows /\ v.type = "user"
  BY DEF View, ViewRows, Views, AdvisorOrNone
<1> HIDE DEF v
<1>2. PICK s : s = <<v>>
  OBVIOUS
<1>3. Show(s, staffCalls) /\ ~Open /\ Spend("moves") /\ held' = held /\ section' = section
  BY <1>2 DEF OpenSheet, Show, v
<1>4. Stacked(s)
  BY <1>1, <1>2 DEF Stacked
<1>5. ~Stays(s)
  BY <1>3 DEF Stays
<1> QED  BY <1>3, <1>4, <1>5, MoveKeeps

\* A view is opened from a sheet.
LEMMA OpenOnSheetKeeps ==
    ASSUME StaffInv, SheetShown, NEW v \in ViewRows,
           v.type \in {"reassign", "request"} => v.user \in Clients,
           Show(Append(modal.stack, v), staffCalls), Spend("moves"), held' = held, section' = section
    PROVE  StaffInv'
<1>1. Open /\ Top.type = "user"
  BY DEF SheetShown, Shown
<1>2. PICK s : s = Append(modal.stack, v)
  OBVIOUS
<1>3. Stacked(s)
  BY <1>1, <1>2, PushView
<1>4. Show(s, staffCalls)
  BY <1>2 DEF Show
<1> QED  BY <1>1, <1>3, <1>4, MoveKeeps

\* The sheet of another user, the lines of an account, a change.
LEMMA OpenMoreKeeps ==
    ASSUME StaffInv, (\E u \in Users : OpenUser(u)) \/ OpenAccount
                     \/ \E type \in {"reassign", "request"} : OpenChange(type)
    PROVE  StaffInv'
<1>1. ASSUME NEW u \in Users, OpenUser(u)
      PROVE  StaffInv'
  <2>1. View("user", u) \in ViewRows /\ View("user", u).type = "user"
    BY DEF View, ViewRows, Views, AdvisorOrNone
  <2>2. PICK v : v = View("user", u)
    OBVIOUS
  <2>3. /\ SheetShown /\ Show(Append(modal.stack, v), staffCalls) /\ Spend("moves")
        /\ held' = held /\ section' = section
    BY <1>1, <2>2 DEF OpenUser
  <2> QED  BY <2>1, <2>2, <2>3, OpenOnSheetKeeps
<1>2. ASSUME OpenAccount
      PROVE  StaffInv'
  <2>1. modal.view.accounts \in Users
    BY <1>2 DEF OpenAccount, StaffInv, StaffTypeOK, Users
  <2>2. PICK w : w = modal.view.accounts
    OBVIOUS
  <2>3. View("account", w) \in ViewRows /\ View("account", w).type = "account"
    BY <2>1, <2>2 DEF View, ViewRows, Views, AdvisorOrNone
  <2>4. PICK v : v = View("account", w)
    OBVIOUS
  <2>5. /\ SheetShown /\ Show(Append(modal.stack, v), staffCalls) /\ Spend("moves")
        /\ held' = held /\ section' = section
    BY <1>2, <2>2, <2>4 DEF OpenAccount
  <2> QED  BY <2>3, <2>4, <2>5, OpenOnSheetKeeps
<1>3. ASSUME NEW type \in {"reassign", "request"}, OpenChange(type)
      PROVE  StaffInv'
  <2>1. SheetShown /\ Sheet.id \in Clients /\ Sheet.advisor \in AdvisorOrNone
    BY <1>3 DEF OpenChange, SheetShown, IsClient, StaffInv, StaffTypeOK, Sheet
  <2>2. PICK w, a : w = Sheet.id /\ a = Sheet.advisor
    OBVIOUS
  <2>3. PICK v : v = [View(type, w) EXCEPT !.advisor = a]
    OBVIOUS
  <2>4. v \in ViewRows /\ v.user = w
    BY <2>1, <2>2, <2>3 DEF View, ViewRows, Views, Users
  <2>5. Show(Append(modal.stack, v), staffCalls) /\ Spend("moves") /\ held' = held /\ section' = section
    BY <1>3, <2>2, <2>3 DEF OpenChange
  <2> QED  BY <2>1, <2>2, <2>4, <2>5, OpenOnSheetKeeps
<1> QED  BY <1>1, <1>2, <1>3

\* One view back, or all of them closed.
LEMMA BackKeeps ==
    ASSUME StaffInv, Back \/ CloseSheet
    PROVE  StaffInv'
<1>1. CASE Back
  <2>1. PICK s : s = Front(modal.stack)
    OBVIOUS
  <2>2. Show(s, staffCalls) /\ Spend("moves") /\ held' = held /\ section' = section /\ Len(modal.stack) > 1
    BY <1>1, <2>1 DEF Back, Show
  <2>3. Stacked(s) /\ Last(s).type = "user"
    BY <2>1, <2>2, PopView
  <2> QED  BY <2>2, <2>3, MoveKeeps DEF Stays
<1>2. CASE CloseSheet
  <2>1. PICK s : s = <<>>
    OBVIOUS
  <2>2. Show(s, staffCalls) /\ Spend("moves") /\ held' = held /\ section' = section
    BY <1>2, <2>1 DEF CloseSheet, Show
  <2>3. Stacked(s) /\ ~Stays(s)
    BY <2>1 DEF Stacked, Stays
  <2> QED  BY <2>2, <2>3, MoveKeeps
<1> QED  BY <1>1, <1>2

-----------------------------------------------------------------------------
\* After a ban the sheet is loaded again.
LEMMA ArriveBanKeeps ==
    ASSUME StaffInv, NEW c \in staffCalls, ArriveBan(c)
    PROVE  StaffInv'
<1> DEFINE n == [c EXCEPT !.kind = "details", !.user = c.what, !.what = "all", !.reload = TRUE,
                          !.got = NoSheet]
           mine == c.inst = modal.inst
           rest == staffCalls \ {c}
<1>1. /\ held' = held /\ section' = section /\ c.kind \in {"ban", "unban"}
      /\ staffCalls' = rest \cup {n} /\ CallOK(c)
  BY DEF ArriveBan, StaffInv, StaffTypeOK
<1>2. /\ DOMAIN n = CallFields /\ n.kind = "details" /\ n.user = c.what /\ n.inst = c.inst
      /\ n.reload = TRUE /\ n.got = NoSheet
  BY <1>1 DEF CallOK, CallFields
<1> HIDE DEF n
<1>3. /\ DOMAIN staffLog' = DOMAIN staffLog /\ staffLog'.actor = staffLog.actor
      /\ staffLog.unread \subseteq staffLog'.unread
      /\ (mine /\ c.user = c.what) \/ c.user \in staffLog'.unread
  BY DEF ArriveBan, Changed, StaffInv, StaffTypeOK, StaffLogFields
<1>4. /\ modal'.stack = modal.stack /\ modal'.inst = modal.inst /\ modal'.base = modal.base
      /\ DOMAIN modal' = DOMAIN modal /\ DOMAIN modal'.view = SheetFields
      /\ modal'.view.details = modal.view.details /\ modal'.view.accounts = modal.view.accounts
      /\ ~mine => modal' = modal
      /\ mine => modal'.view.loading
      /\ mine /\ (c.what # Top.user \/ \E d \in rest : IsLoad(d)) => modal'.view.overlap
  <2>1. DOMAIN modal = {"stack", "inst", "base", "view"} /\ DOMAIN modal.view = SheetFields
    BY DEF StaffInv, StaffTypeOK
  <2>2. CASE ~mine
    BY <2>1, <2>2 DEF ArriveBan
  <2>3. CASE mine
    <3>1. PICK o : /\ modal' = [modal EXCEPT !.view.loading = TRUE, !.view.error = FALSE,
                                             !.view.overlap = o]
                   /\ o = (c.what # Top.user \/ \E d \in rest : IsLoad(d))
      BY <2>3, Zenon DEF ArriveBan
    <3> QED  BY <2>1, <2>3, <3>1 DEF SheetFields
  <2> QED  BY <2>2, <2>3
<1>5. CallOK(n)
  BY <1>1, <1>2 DEF CallOK, ViewOf, Own
<1>6. StaffTypeOK'
  BY <1>1, <1>3, <1>4, <1>5, StaffTypesKept DEF StaffInv, StaffTypeOK, HeldOK
<1>7. DirectoryComes'
  BY <1>1, <1>2 DEF ListToCome, StaffInv, DirectoryComes
<1>8. CASE ~mine
  BY <1>1, <1>3, <1>8, <1>2, <1>4, <1>6, <1>7, OtherViewsCalls DEF ChangeKnown, StaffInv
<1>9. CASE mine
  <2>1. Open' /\ Top' = Top /\ Top.type = "user" /\ \A d : IsLoad(d)' <=> IsLoad(d)
    BY <1>1, <1>4, <1>9 DEF Open, Top, IsLoad, CallOK, ViewOf
  <2>2. SheetLoads'
    <3> SUFFICES ASSUME c.what = Top.user, \A d \in rest : ~IsLoad(d)
                 PROVE  \A d \in staffCalls' : IsLoad(d) => LoadsOne(d)'
      BY <1>4, <1>9, <2>1 DEF SheetLoads
    <3> QED  BY <1>1, <1>2, <1>4, <1>9, <2>1 DEF LoadsOne
  <2>3. SheetComes'
    BY <1>1, <1>2, <1>4, <1>9 DEF LoadsSheet, SheetComes
  <2> QED  BY <1>6, <1>7, <2>2, <2>3 DEF StaffInv
<1> QED  BY <1>8, <1>9

\* After another change the list is loaded and one view closed.
LEMMA ArriveDoneKeeps ==
    ASSUME StaffInv, NEW c \in staffCalls, ArriveDone(c)
    PROVE  StaffInv'
<1> DEFINE l == ListCall(section.term)
           mine == c.inst = modal.inst
           rest == (staffCalls \ {c}) \cup {l}
           pops == Len(modal.stack) > 1 /\ c.inst >= modal.base
<1>1. /\ held' = held /\ c.kind \in {"reassign", "request"} /\ CallOK(c)
      /\ DOMAIN section' = DOMAIN section /\ section'.term = section.term
      /\ Listing(staffCalls) => section'.overlap
  <2>1. PICK o : section' = [section EXCEPT !.overlap = o, !.error = FALSE] /\ o = Listing(staffCalls)
    BY Zenon DEF ArriveDone
  <2> QED  BY <2>1 DEF ArriveDone, StaffInv, StaffTypeOK, SectionFields
<1>2. CallOK(l) /\ l.kind = "list" /\ l.kind \notin Loads \cup Own /\ l.inst # modal.inst
  BY ListIsNoLoad
<1>3. /\ DOMAIN staffLog' = DOMAIN staffLog /\ staffLog'.actor = staffLog.actor
      /\ staffLog.unread \subseteq staffLog'.unread
      /\ mine \/ c.user \in staffLog'.unread
  BY DEF ArriveDone, StaffInv, StaffTypeOK, StaffLogFields
<1>4. IF pops THEN Show(Front(modal.stack), rest) ELSE staffCalls' = rest /\ modal' = modal
  BY DEF ArriveDone
<1>5. c.kind \notin Loads /\ c.kind # "list" /\ c.kind # "details"
  BY <1>1 DEF Loads
<1>6. ASSUME NEW n, n.kind \in Loads, staffCalls' = rest \/ staffCalls' = rest \cup {n}
      PROVE  DirectoryComes'
  <2>1. PICK cs : staffCalls' = cs \cup {l} /\ \A d \in cs : d \in staffCalls \/ d = n
    <3>1. CASE staffCalls' = rest
      <4>1. staffCalls' = (staffCalls \ {c}) \cup {l}
        BY <3>1
      <4> HIDE DEF l
      <4> QED  BY <4>1
    <3>2. CASE staffCalls' = rest \cup {n}
      <4>1. staffCalls' = ((staffCalls \ {c}) \cup {n}) \cup {l}
        BY <3>2
      <4> HIDE DEF l
      <4> QED  BY <4>1
    <3> QED  BY <1>6, <3>1, <3>2
  <2>2. Listing(cs) => Listing(staffCalls)
    BY <1>6, <2>1 DEF Listing, Loads
  <2> QED  BY <1>1, <2>1, <2>2, ListLoads
<1>7. mine => pops /\ Top.type # "user"
  <2> SUFFICES ASSUME mine  PROVE pops /\ Top.type # "user"
    OBVIOUS
  <2>1. Open /\ Top.type \in {"reassign", "request"}
    BY <1>1 DEF CallOK, ViewOf
  <2> QED  BY <2>1 DEF Open, Top, Last, StaffInv, StaffTypeOK, StackOK, Stacked
<1> HIDE DEF l
<1>8. \A d : d.kind \in Loads => (d \in rest <=> d \in staffCalls)
  BY <1>2, <1>5
<1>9. CASE pops
  <2>1. PICK s, cs : s = Front(modal.stack) /\ cs = rest
    OBVIOUS
  <2>2. Show(s, cs)
    BY <1>4, <1>9, <2>1 DEF Show
  <2>3. Stacked(s) /\ Last(s).type = "user"
    BY <1>9, <2>1, PopView
  <2>4. staffCalls' = cs \/ \E n : n.kind \in Loads /\ staffCalls' = cs \cup {n}
    BY <2>2, ShowCalls
  <2>5. DirectoryComes'
    <3>1. CASE staffCalls' = cs
      <4>1. PICK n : n = [kind |-> "lines"]
        OBVIOUS
      <4> QED  BY <1>6, <2>1, <3>1, <4>1 DEF Loads
    <3>2. CASE \E n : n.kind \in Loads /\ staffCalls' = cs \cup {n}
      BY <1>6, <2>1, <3>2
    <3> QED  BY <2>4, <3>1, <3>2
  <2>6. ASSUME Stays(s)
        PROVE  \A u : ChangeKnown(u) => ChangeKnown(u)'
    BY <1>3, <1>7, <2>3, <2>6, <2>1, <2>4 DEF Stays, ChangeKnown
  <2>7. \A d \in cs : d \in staffCalls \/ (CallOK(d) /\ d.kind = "list")
    BY <1>2, <2>1
  <2>8. \A d \in staffCalls : d.kind \in Loads => d \in cs
    BY <1>8, <2>1
  <2>9. StaffTypeOK' /\ SheetLoads' /\ SheetComes'
    BY <1>1, <1>3, <2>2, <2>3, <2>6, <2>7, <2>8, ShowKeeps DEF Stays
  <2> QED  BY <2>5, <2>9 DEF StaffInv
<1>10. CASE ~pops
  <2>1. staffCalls' = rest /\ modal' = modal /\ ~mine
    BY <1>4, <1>7, <1>10
  <2>2. DirectoryComes'
    <3>1. PICK n : n = [kind |-> "lines"]
      OBVIOUS
    <3> QED  BY <1>6, <2>1, <3>1 DEF Loads
  <2>3. StaffTypeOK'
    BY <1>1, <1>2, <1>3, <2>1, StaffTypesKept DEF StaffInv, StaffTypeOK, HeldOK
  <2>4. \A u : ChangeKnown(u) => ChangeKnown(u)'
    BY <1>3, <2>1 DEF ChangeKnown
  <2>5. \A d : d.inst = modal.inst => (d \in staffCalls' <=> d \in staffCalls)
    BY <1>2, <2>1
  <2> QED  BY <1>1, <2>1, <2>2, <2>3, <2>4, <2>5, OtherViewsCalls DEF StaffInv
<1> QED  BY <1>9, <1>10

-----------------------------------------------------------------------------
\* The page opens with a load of the list.
LEMMA StaffOpens ==
    ASSUME StaffInit
    PROVE  StaffInv
<1> DEFINE l == ListCall("")
<1>1. /\ held = [banned |-> [u \in Clients |-> FALSE], advisor |-> [u \in Clients |-> ThisAdvisor],
                 pending |-> {}]
      /\ modal = [stack |-> <<>>, inst |-> 1, base |-> 1, view |-> Blank]
      /\ section = [term |-> "", timer |-> FALSE, rows |-> [u \in {} |-> NoSheet],
                    overlap |-> FALSE, error |-> FALSE]
      /\ staffCalls = {l} /\ DOMAIN staffLog = StaffLogFields
  BY DEF StaffInit, StaffLogFields
<1>2. l.kind = "list" /\ l.reload = FALSE /\ l.rows = NoSheet
  BY DEF ListCall, StaffCall
<1>12. l.what = section.term
  BY <1>1 DEF ListCall, StaffCall
<1>10. DOMAIN l = CallFields
  BY DEF ListCall, StaffCall, CallFields
<1>11. l.inst = 0
  BY DEF ListCall, StaffCall
<1> HIDE DEF l
<1>9. modal.inst = 1 /\ modal.base = 1 /\ modal.stack = <<>>
  BY <1>1
<1>3. CallOK(l)
  BY <1>2, <1>9, <1>11, <1>10 DEF Own, CallOK
<1>4. HeldOK
  BY <1>1 DEF HeldOK
<1>5. StackOK /\ ~Open
  BY <1>9 DEF StackOK, Stacked, Open
<1>6. StaffTypeOK
  BY <1>1, <1>3, <1>4, <1>5 DEF StaffTypeOK, SheetFields, SectionFields, Blank
<1>7. SheetLoads /\ SheetComes
  BY <1>5 DEF SheetLoads, SheetComes
<1>8. DirectoryComes
  BY <1>1, <1>2, <1>12 DEF DirectoryComes
<1> QED  BY <1>6, <1>7, <1>8 DEF StaffInv

\* Every step of the users page keeps what is true of it, ...
LEMMA StaffSteps ==
    ASSUME StaffInv, [StaffNext]_staffVars
    PROVE  StaffInv'
<1>1. CASE UNCHANGED staffVars
  BY <1>1 DEF staffVars, StaffInv, StaffTypeOK, HeldOK, StackOK, Stacked, CallOK, SheetLoads, LoadsOne,
              ContentsOfTop, SheetComes, LoadsSheet, ChangeKnown, SheetTells, DirectoryComes, Listing, ListToCome,
              Lists, InDirectory, Open, Top, Sheet, IsLoad
<1>2. CASE \E u \in Clients \cup Advisors : OpenSheet(u) \/ OpenUser(u)
  BY <1>2, OpenSheetKeeps, OpenMoreKeeps DEF Users
<1>3. CASE \E c \in staffCalls :
             \/ ServeDirectory(c) \/ ArriveDirectory(c) \/ FailDirectory(c)
             \/ ServeDetails(c) \/ ArriveDetails(c) \/ ArriveContents(c) \/ FailLoad(c)
             \/ ServeOwn(c) \/ ArriveBan(c) \/ ArriveDone(c) \/ FailOwn(c) \/ RefuseOwn(c)
  BY <1>3, ServeDirectoryKeeps, ArriveDirectoryKeeps, FailDirectoryKeeps, ServeDetailsKeeps,
     ArriveDetailsKeeps, ArriveContentsKeeps, FailLoadKeeps, ServeOwnKeeps, ArriveBanKeeps,
     ArriveDoneKeeps, OwnEndsKeeps
<1> QED  BY <1>1, <1>2, <1>3, TypeTermKeeps, SearchTimerKeeps, OpenMoreKeeps, BackKeeps, SelectRangeKeeps,
            ToggleBanKeeps, SubmitChangeKeeps, StaffElsewhereKeeps DEF StaffNext

\* ... so that its list and its views are of those they name and of what the server holds.
LEMMA StaffPromises ==
    ASSUME StaffInv
    PROVE  StaffPagesCatchUp
<1>1. ViewsAreOfTheirUser
  BY DEF StaffInv, SheetLoads, ContentsOfTop, ViewsAreOfTheirUser, Shown
<1>2. SheetIsCurrent
  <2> SUFFICES ASSUME staffCalls = {}, SheetShown, ~modal.view.overlap, IsClient(Sheet.id),
                      Sheet.id \notin staffLog.unread
               PROVE  SheetTells(Sheet, Sheet.id)
    BY DEF SheetIsCurrent, SheetTells
  <2>1. Open /\ Top.type = "user" /\ ~modal.view.error /\ Sheet.id = Top.user /\ Top.user \in Clients
    BY DEF SheetShown, Shown, IsClient, StaffInv, SheetLoads, ContentsOfTop
  <2> QED  BY <2>1 DEF StaffInv, SheetComes, ChangeKnown
<1>3. ListIsCurrent
  BY DEF StaffInv, DirectoryComes, ListIsCurrent, Lists, Listing
<1> QED  BY <1>1, <1>2, <1>3 DEF StaffPagesCatchUp

-----------------------------------------------------------------------------
(* What became of orders, transfers, messages, factors and top-ups *)

\* Each order, transfer or message a page sent has its effect once and what became of it is
\* told, or the answer was lost; and nobody is locked out by a second factor he was not
\* shown: for any accounts, forms, messages and secrets, and whatever fails (the pages of
\* trading, transfers, conversations and security, and the overview).
THEOREM OutcomesTold == ScreensSpec => []OutcomesAreTold
<1> DEFINE Inv ==
        /\ screen = "desk" => DeskInv
        /\ screen = "transfer" => TransferPageInv
        /\ screen = "view" => ViewInv /\ SendInv
        /\ screen = "security" => FactorInv
        /\ screen = "home" => HomeInv
<1>1. ScreensInit => Inv
  BY PageInits, DeskOpens, TransferPageOpens, ViewOpens, SecurityOpens, HomeOpens
<1>2. Inv /\ [ScreensNext]_screenVars => Inv'
  <2> SUFFICES ASSUME Inv, [ScreensNext]_screenVars  PROVE Inv'
    OBVIOUS
  <2>1. screen' = screen
    BY PageSteps
  <2>2. CASE screen = "desk"
    BY <2>1, <2>2, PageSteps, DeskSteps
  <2>3. CASE screen = "transfer"
    BY <2>1, <2>3, PageSteps, TransferPageSteps
  <2>4. CASE screen = "view"
    BY <2>1, <2>4, PageSteps, ViewSteps, SendSteps
  <2>5. CASE screen = "security"
    BY <2>1, <2>5, PageSteps, SecuritySteps
  <2>6. CASE screen = "home"
    BY <2>1, <2>6, PageSteps, HomeSteps
  <2> QED  BY <2>1, <2>2, <2>3, <2>4, <2>5, <2>6
<1>3. Inv => OutcomesAreTold
  BY DeskPromises, TransferPagePromises, SecurityPromises, HomePromises
     DEF OutcomesAreTold, SendInv
<1> QED  BY <1>1, <1>2, <1>3, PTL DEF ScreensSpec

-----------------------------------------------------------------------------
(* What the pages show *)

\* What a page shows once its requests are answered is what its user asked for last and
\* what the server then holds, the crossings apart that the page does not guard against:
\* for any conversations, accounts, clients and answers, in any order (useChat,
\* ChatPageContainer, trading/page.tsx, BeneficiariesPanel, AnalyticsPage, UserSection,
\* UserDetailsView, AccountTransactionsView, security/page.tsx, DashboardContent).
THEOREM PagesAreCurrent == ScreensSpec => []PagesCatchUp
<1> DEFINE Inv ==
        /\ screen = "view" => ViewInv /\ SendInv
        /\ screen = "page" => ListInv
        /\ screen = "desk" => DeskInv
        /\ screen = "transfer" => TransferPageInv
        /\ screen = "statement" => OverviewInv
        /\ screen = "staff" => StaffInv
        /\ screen = "security" => FactorInv
        /\ screen = "home" => HomeInv
<1>1. ScreensInit => Inv
  BY PageInits, ViewOpens, ListOpens, DeskOpens, TransferPageOpens, OverviewOpens, StaffOpens,
     SecurityOpens, HomeOpens
<1>2. Inv /\ [ScreensNext]_screenVars => Inv'
  <2> SUFFICES ASSUME Inv, [ScreensNext]_screenVars  PROVE Inv'
    OBVIOUS
  <2>1. screen' = screen
    BY PageSteps
  <2>2. CASE screen = "view"
    BY <2>1, <2>2, PageSteps, ViewSteps, SendSteps
  <2>3. CASE screen = "page"
    BY <2>1, <2>3, PageSteps, ListSteps
  <2>4. CASE screen = "desk"
    BY <2>1, <2>4, PageSteps, DeskSteps
  <2>5. CASE screen = "transfer"
    BY <2>1, <2>5, PageSteps, TransferPageSteps
  <2>6. CASE screen = "statement"
    BY <2>1, <2>6, PageSteps, OverviewSteps
  <2>7. CASE screen = "staff"
    BY <2>1, <2>7, PageSteps, StaffSteps
  <2>8. CASE screen = "security"
    BY <2>1, <2>8, PageSteps, SecuritySteps
  <2>9. CASE screen = "home"
    BY <2>1, <2>9, PageSteps, HomeSteps
  <2> QED  BY <2>1, <2>2, <2>3, <2>4, <2>5, <2>6, <2>7, <2>8, <2>9
<1>3. ViewInv => ViewMissesOnlyGaps
  BY DEF ViewInv, StoredIsKnown, ViewMissesOnlyGaps, Settled, IsShown, Range
<1>4. Inv => PagesCatchUp
  BY <1>3, ListPromises, DeskPromises, TransferPagePromises, OverviewPromises, StaffPromises,
     SecurityPromises, HomePromises DEF PagesCatchUp
<1> QED  BY <1>1, <1>2, <1>4, PTL DEF ScreensSpec

\* Opening balance, credits, debits and closing balance of a statement, and the totals and
\* months of an overview, are those of the lines the account has: whatever transfers are
\* written while they are read (generateStatementPdf, StatementModal,
\* AccountTransactionsView, AnalyticsService).
THEOREM FiguresCorrect == ScreensSpec => []FiguresAddUp
<1> DEFINE Inv == screen = "statement" => FiguresInv
<1>1. ScreensInit => Inv
  BY PageInits, OverviewOpens, FiguresOpen DEF FiguresInv
<1>2. Inv /\ [ScreensNext]_screenVars => Inv'
  <2> SUFFICES ASSUME Inv, [ScreensNext]_screenVars, screen' = "statement"  PROVE FiguresInv'
    OBVIOUS
  <2>1. FiguresInv /\ [AnalyticsNext]_analyticsVars
    BY PageSteps
  <2>2. OverviewInv /\ OverviewInv'
    BY <2>1, OverviewSteps DEF FiguresInv
  <2> QED  BY <2>1, <2>2, FiguresSteps DEF FiguresInv
<1>3. Inv => FiguresAddUp
  BY LinesPromise, FiguresPromise DEF FiguresInv, FiguresAddUp
<1> QED  BY <1>1, <1>2, <1>3, PTL DEF ScreensSpec
=============================================================================
