------------------------------- MODULE Quotes -------------------------------
(***************************************************************************)
(* MarketDataService for one asset: its cache of the quote, of the history  *)
(* and of the exchange rate, and the requests to the market provider, which *)
(* take up to Timeout each and overlap, for nothing keeps two callers from   *)
(* asking for the same thing.                                               *)
(*                                                                         *)
(* A price is named by the instant the provider made it at, a rate too; a    *)
(* quote taken from a history is its last close, up to HistoryLag older.     *)
(***************************************************************************)
EXTENDS Integers, FiniteSets

CONSTANTS
    QuoteTTL, HistoryTTL, RateTTL,  \* lifetimes in the cache
    Timeout,                        \* AbortSignal.timeout of a request
    HistoryLag,                     \* age of a history's last close when it is sent
    Foreign,                        \* the asset is quoted in another currency
    QuoteBounds,                    \* bounds: instants, requests
    NoQuote                         \* nothing cached; nothing handed out yet

ASSUME TTLAssumption ==
    QuoteTTL \in Nat /\ HistoryTTL \in Nat /\ RateTTL \in Nat /\ Timeout \in Nat
    /\ HistoryLag \in Nat

VARIABLES
    now,
    cache,      \* cached quote, history and rate, each with its expiry
    fetches,    \* requests under way
    handed,     \* the quote handed to the last order, or NoQuote
    quotesLeft

quoteVars == <<now, cache, fetches, handed, quotesLeft>>

\* getCached.
Valid(entry) == entry # NoQuote /\ entry.until > now
Until(value, ttl) == [value |-> value, until |-> now + ttl]
Simulated == [price |-> 0, rate |-> 0, at |-> now, lag |-> 0, source |-> "simulated"]
Handed(value) == [price |-> value.price, rate |-> value.rate, at |-> now, lag |-> value.lag,
                  source |-> "provider"]

\* An answer of the provider is made while its request is under way.
MadeSince(f) == f.since..now

-----------------------------------------------------------------------------
AskOf(kind) ==
    /\ quotesLeft.requests > 0
    /\ quotesLeft' = [quotesLeft EXCEPT !.requests = @ - 1]
    /\ fetches' = fetches \cup {[n |-> quotesLeft.requests, kind |-> kind, stage |-> "price",
                                 since |-> now, price |-> 0, lag |-> 0]}

\* getQuote, for an order.
GetQuote ==
    \/ /\ Valid(cache.quote)
       /\ quotesLeft.requests > 0
       /\ quotesLeft' = [quotesLeft EXCEPT !.requests = @ - 1]
       /\ handed' = Handed(cache.quote.value)
       /\ UNCHANGED <<now, cache, fetches>>
    \/ /\ ~Valid(cache.quote) /\ AskOf("quote")
       /\ UNCHANGED <<now, cache, handed>>

\* getHistory, when the cached one has expired; a cached one changes nothing.
GetHistory ==
    /\ ~Valid(cache.history) /\ AskOf("history")
    /\ UNCHANGED <<now, cache, handed>>

\* Mutant: the quote of a history is kept as long as the history.
StoreAsLong(f, price, lag, rate, rates) ==
    LET value == [price |-> price, rate |-> rate, lag |-> lag]
    IN  /\ cache' = [quote |-> Until(value, IF f.kind = "history" THEN HistoryTTL ELSE QuoteTTL),
                     history |-> IF f.kind = "history" THEN Until(value, HistoryTTL)
                                 ELSE cache.history,
                     rate |-> rates]
        /\ fetches' = fetches \ {f}
        /\ handed' = IF f.kind = "quote" THEN Handed(value) ELSE handed

\* The quote or the history is complete: stored, and the quote with it for QuoteTTL.
Store(f, price, lag, rate, rates) ==
    LET value == [price |-> price, rate |-> rate, lag |-> lag]
    IN  /\ cache' = [quote |-> Until(value, QuoteTTL),
                     history |-> IF f.kind = "history" THEN Until(value, HistoryTTL)
                                 ELSE cache.history,
                     rate |-> rates]
        /\ fetches' = fetches \ {f}
        /\ handed' = IF f.kind = "quote" THEN Handed(value) ELSE handed

\* The answer to /quote or /time_series; then the rate: not needed, cached, or asked for.
AnswerPrice(f) ==
    /\ f.stage = "price"
    /\ \E price \in MadeSince(f), lag \in IF f.kind = "history" THEN 0..HistoryLag ELSE {0} :
          IF ~Foreign THEN Store(f, price - lag, lag, now, cache.rate)
          ELSE IF Valid(cache.rate)
          THEN Store(f, price - lag, lag, cache.rate.value, cache.rate)
          ELSE /\ fetches' = (fetches \ {f}) \cup
                     {[f EXCEPT !.stage = "rate", !.since = now, !.price = price - lag, !.lag = lag]}
               /\ UNCHANGED <<cache, handed>>
    /\ UNCHANGED <<now, quotesLeft>>

\* euroRate.
AnswerRate(f) ==
    /\ f.stage = "rate"
    /\ \E rate \in MadeSince(f) : Store(f, f.price, f.lag, rate, Until(rate, RateTTL))
    /\ UNCHANGED <<now, quotesLeft>>

\* An error, an answer without a price, or the timeout: the fallback, which is not cached.
FailQuote(f) ==
    /\ f \in fetches
    /\ fetches' = fetches \ {f}
    /\ handed' = IF f.kind = "quote" THEN Simulated ELSE handed
    /\ UNCHANGED <<now, cache, quotesLeft>>

\* A request ends at its timeout at the latest.
Pass ==
    /\ quotesLeft.instants > 0
    /\ \A f \in fetches : now < f.since + Timeout
    /\ now' = now + 1
    /\ quotesLeft' = [quotesLeft EXCEPT !.instants = @ - 1]
    /\ UNCHANGED <<cache, fetches, handed>>

QuotesInit ==
    /\ now = 0
    /\ cache = [quote |-> NoQuote, history |-> NoQuote, rate |-> NoQuote]
    /\ fetches = {} /\ handed = NoQuote
    /\ \E b \in QuoteBounds : quotesLeft = b

QuotesNext ==
    \/ GetQuote \/ GetHistory \/ Pass
    \/ \E f \in fetches : AnswerPrice(f) \/ AnswerRate(f) \/ FailQuote(f)

QuotesSpec == QuotesInit /\ [][QuotesNext]_quoteVars

-----------------------------------------------------------------------------
\* An order is never given a price older than the lifetime of a quote and the two
\* requests it took, a history's lag apart, nor one changed at a rate older than that of a
\* rate, however requests overlap; the fallback is said to be simulated.
QuoteIsFresh ==
    handed # NoQuote /\ handed.source = "provider" =>
        /\ handed.at - handed.price <= QuoteTTL + 2 * Timeout + handed.lag
        /\ handed.at - handed.rate <= RateTTL + QuoteTTL + Timeout

-----------------------------------------------------------------------------
(* The inductive invariant, from which ScreensProofs has the properties *)

\* A rate is not older than what it was cached for; a price asked for was made after
\* its request began.
FetchesYoung ==
    \A f \in fetches :
        /\ f = [n |-> f.n, kind |-> f.kind, stage |-> f.stage, since |-> f.since,
                price |-> f.price, lag |-> f.lag]
        /\ f.since \in Int /\ f.since <= now /\ now <= f.since + Timeout
        /\ f.stage = "rate" => /\ f.price \in Int /\ f.lag \in Int
                               /\ f.since - f.price <= Timeout + f.lag

QuoteYoung(value, at) ==
    /\ value.price \in Int /\ value.lag \in Int /\ value.rate \in Int
    /\ at - value.price <= 2 * Timeout + value.lag
    /\ at - value.rate <= RateTTL + Timeout

CacheYoung ==
    /\ cache = [quote |-> cache.quote, history |-> cache.history, rate |-> cache.rate]
    /\ cache.quote # NoQuote =>
          cache.quote.until \in Int /\ QuoteYoung(cache.quote.value, cache.quote.until - QuoteTTL)
    /\ cache.rate # NoQuote =>
          /\ cache.rate.until \in Int /\ cache.rate.value \in Int
          /\ cache.rate.until - cache.rate.value <= RateTTL + Timeout

QuotesInv == now \in Int /\ FetchesYoung /\ CacheYoung /\ QuoteIsFresh
=============================================================================
