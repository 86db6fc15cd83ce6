----------------------------- MODULE Onboarding -----------------------------
(***************************************************************************)
(* The verification of a registration: POST /auth/verify-email consumes the *)
(* token mailed at registration, marks the user verified and then runs      *)
(* InitializeClientUseCase, which opens the accounts, issues the card and   *)
(* attaches the least loaded advisor.  Each statement is one step, because  *)
(* the use cases open no transaction, and several calls with the same token *)
(* (a reload of the page, a double click) run side by side on two replicas. *)
(*                                                                         *)
(* One client, one token.  Names, IBANs and card numbers are left out; the  *)
(* choice among the advisors is any member of Advisors, the least loaded    *)
(* ones being the subject of AdvisorAssignment.                             *)
(***************************************************************************)
EXTENDS Naturals, FiniteSets

CONSTANTS Calls,     \* executions of verifyEmail with the token
          Advisors,  \* advisors that are not banned
          NoAdvisor, \* the value null of findAdvisorOf
          Faults,    \* what may go wrong, a subset of {"statement", "replica"}
          MaxDeaths, \* bound: the replicas that die
          Attempts   \* the tries createBankAccount gives an INSERT

\* Assumed where the module is used (Registration).
OnboardingAssumption ==
    /\ NoAdvisor \notin Advisors
    /\ Attempts \in Nat \ {0}
    /\ MaxDeaths \in Nat

VARIABLES
    isClient,    \* the user has the role CLIENT
    tokenUsed,   \* used_at of the token is set
    verified,    \* users.email_verified
    accounts,    \* rows of accounts: [by |-> the call that created it, type |-> ...]
    investments, \* rows of investment_accounts, named by the call that created them
    cards,       \* rows of cards: [by |-> call, account |-> the account it hangs on]
    link,        \* the row of advisor_clients for the client
    pc,          \* the next statement of each call
    found,       \* what a call read with accountRepository.listByUser
    checking,    \* the local variable checking of a call: a set of at most one account
    attempt,     \* the failed tries of the INSERT at hand
    outcome,     \* how the call ended
    named        \* the advisorId of the result

rows == <<accounts, investments, cards, link>>
locals == <<found, checking, attempt, named>>
vars == <<isClient, tokenUsed, verified, rows, pc, locals, outcome>>

VerifyStages == {"findToken", "saveToken", "saveUser"}
DossierStages == {"user", "accounts", "checking", "savings", "investments", "investment",
                  "cards", "card", "advisor", "advisors", "link", "winner"}
Stages == VerifyStages \cup DossierStages \cup {"done"}
Outcomes == {"none", "invalid", "error", "lost", "skipped", "logged", "onboarded"}

Account == [by : Calls, type : {"checking", "savings"}]
Card == [by : Calls, account : Account]
OfType(type) == {a \in accounts : a.type = type}

-----------------------------------------------------------------------------

Init ==
    /\ isClient \in BOOLEAN
    /\ tokenUsed = FALSE
    /\ verified = FALSE
    /\ accounts = {}
    /\ investments = {}
    /\ cards = {}
    /\ link = NoAdvisor
    /\ pc = [c \in Calls |-> "findToken"]
    /\ found = [c \in Calls |-> {}]
    /\ checking = [c \in Calls |-> {}]
    /\ attempt = [c \in Calls |-> 0]
    /\ outcome = [c \in Calls |-> "none"]
    /\ named = [c \in Calls |-> NoAdvisor]

At(c, stage) == pc[c] = stage
Goto(c, stage) == pc' = [pc EXCEPT ![c] = stage] /\ UNCHANGED outcome
End(c, result) ==
    /\ pc' = [pc EXCEPT ![c] = "done"]
    /\ outcome' = [outcome EXCEPT ![c] = result]

-----------------------------------------------------------------------------
(* VerifyEmailUseCase: read the token, then save it used, then the user. *)

TokenUsable == ~tokenUsed

FindToken(c) ==
    /\ At(c, "findToken")
    /\ IF TokenUsable THEN Goto(c, "saveToken") ELSE End(c, "invalid")
    /\ UNCHANGED <<isClient, tokenUsed, verified, rows, locals>>

SaveToken(c) ==
    /\ At(c, "saveToken")
    /\ tokenUsed' = TRUE
    /\ Goto(c, "saveUser")
    /\ UNCHANGED <<isClient, verified, rows, locals>>

SaveUser(c) ==
    /\ At(c, "saveUser")
    /\ verified' = TRUE
    /\ Goto(c, "user")
    /\ UNCHANGED <<isClient, tokenUsed, rows, locals>>

-----------------------------------------------------------------------------
(* InitializeClientUseCase.execute, one step per statement. *)

LoadUser(c) ==
    /\ At(c, "user")
    /\ IF isClient THEN Goto(c, "accounts") ELSE End(c, "skipped")
    /\ UNCHANGED <<isClient, tokenUsed, verified, rows, locals>>

ListAccounts(c) ==
    /\ At(c, "accounts")
    /\ found' = [found EXCEPT ![c] = accounts]
    /\ Goto(c, "checking")
    /\ UNCHANGED <<isClient, tokenUsed, verified, rows, checking, attempt, named>>

Seen(c, type) == {a \in found[c] : a.type = type}

(* A missing account is created, a present one is left alone. *)
EnsureChecking(c) ==
    /\ At(c, "checking")
    /\ \/ \E a \in Seen(c, "checking") :
            /\ checking' = [checking EXCEPT ![c] = {a}]
            /\ UNCHANGED accounts
       \/ /\ Seen(c, "checking") = {}
          /\ LET a == [by |-> c, type |-> "checking"]
             IN /\ accounts' = accounts \cup {a}
                /\ checking' = [checking EXCEPT ![c] = {a}]
    /\ attempt' = [attempt EXCEPT ![c] = 0]
    /\ Goto(c, "savings")
    /\ UNCHANGED <<isClient, tokenUsed, verified, investments, cards, link, found, named>>

\* Mutant: an INSERT that failed is taken for done.
NeedsSavingsOnce(c) == Seen(c, "savings") = {} /\ attempt[c] = 0

NeedsSavings(c) == Seen(c, "savings") = {}

EnsureSavings(c) ==
    /\ At(c, "savings")
    /\ accounts' = IF NeedsSavings(c)
                   THEN accounts \cup {[by |-> c, type |-> "savings"]}
                   ELSE accounts
    /\ attempt' = [attempt EXCEPT ![c] = 0]
    /\ Goto(c, "investments")
    /\ UNCHANGED <<isClient, tokenUsed, verified, investments, cards, link, found, checking, named>>

ListInvestments(c) ==
    /\ At(c, "investments")
    /\ Goto(c, IF investments = {} THEN "investment" ELSE "cards")
    /\ UNCHANGED <<isClient, tokenUsed, verified, rows, locals>>

CreateInvestment(c) ==
    /\ At(c, "investment")
    /\ investments' = investments \cup {c}
    /\ Goto(c, "cards")
    /\ UNCHANGED <<isClient, tokenUsed, verified, accounts, cards, link, locals>>

ListCards(c) ==
    /\ At(c, "cards")
    /\ Goto(c, IF \E k \in cards : k.account \in checking[c] THEN "advisor" ELSE "card")
    /\ UNCHANGED <<isClient, tokenUsed, verified, rows, locals>>

CardAccounts(c) == checking[c]

CreateCard(c) ==
    /\ At(c, "card")
    /\ cards' = cards \cup [by : {c}, account : CardAccounts(c)]
    /\ Goto(c, "advisor")
    /\ UNCHANGED <<isClient, tokenUsed, verified, accounts, investments, link, locals>>

(* assignAdvisor: keep the advisor, else choose one, else report none. *)
FindAdvisor(c) ==
    /\ At(c, "advisor")
    /\ named' = [named EXCEPT ![c] = link]
    /\ IF link = NoAdvisor THEN Goto(c, "advisors") ELSE End(c, "onboarded")
    /\ UNCHANGED <<isClient, tokenUsed, verified, rows, found, checking, attempt>>

ChooseAdvisor(c) ==
    /\ At(c, "advisors")
    /\ \/ /\ Advisors = {}
          /\ End(c, "onboarded")
          /\ UNCHANGED named
       \/ \E a \in Advisors :
            /\ named' = [named EXCEPT ![c] = a]
            /\ Goto(c, "link")
    /\ UNCHANGED <<isClient, tokenUsed, verified, rows, found, checking, attempt>>

Unlinked == link = NoAdvisor

(* The unique index on client_id decides between two calls. *)
Link(c) ==
    /\ At(c, "link")
    /\ IF Unlinked
       THEN link' = named[c] /\ End(c, "onboarded")
       ELSE Goto(c, "winner") /\ UNCHANGED link
    /\ UNCHANGED <<isClient, tokenUsed, verified, accounts, investments, cards, locals>>

ReadWinner(c) ==
    /\ At(c, "winner")
    /\ named' = [named EXCEPT ![c] = link]
    /\ End(c, "onboarded")
    /\ UNCHANGED <<isClient, tokenUsed, verified, rows, found, checking, attempt>>

-----------------------------------------------------------------------------
(* Failures. *)

LastTry(c) == attempt[c] + 1 = Attempts

(* A statement fails: inside createBankAccount it is tried again, at the     *)
(* link the winner is read, in the rest of the dossier the controller logs   *)
(* and answers success, and before it the request is refused.                *)
StatementFails(c) ==
    /\ "statement" \in Faults
    /\ pc[c] # "done"
    /\ \/ /\ pc[c] \in VerifyStages
          /\ End(c, "error")
          /\ UNCHANGED attempt
       \/ /\ pc[c] \in {"checking", "savings"}
          /\ Seen(c, pc[c]) = {}
          /\ attempt' = [attempt EXCEPT ![c] = @ + 1]
          /\ IF LastTry(c) THEN End(c, "logged") ELSE UNCHANGED <<pc, outcome>>
       \/ /\ pc[c] \in DossierStages \ {"checking", "savings", "link"}
          /\ End(c, "logged")
          /\ UNCHANGED attempt
       \/ /\ pc[c] = "link"
          /\ Goto(c, "winner")
          /\ UNCHANGED attempt
    /\ UNCHANGED <<isClient, tokenUsed, verified, rows, found, checking, named>>

(* The replica that runs the call dies. *)
ReplicaDies(c) ==
    /\ "replica" \in Faults
    /\ Cardinality({d \in Calls : outcome[d] = "lost"}) < MaxDeaths
    /\ pc[c] # "done"
    /\ End(c, "lost")
    /\ UNCHANGED <<isClient, tokenUsed, verified, rows, locals>>

Statement(c) ==
    \/ FindToken(c)
    \/ SaveToken(c)
    \/ SaveUser(c)
    \/ LoadUser(c)
    \/ ListAccounts(c)
    \/ EnsureChecking(c)
    \/ EnsureSavings(c)
    \/ ListInvestments(c)
    \/ CreateInvestment(c)
    \/ ListCards(c)
    \/ CreateCard(c)
    \/ FindAdvisor(c)
    \/ ChooseAdvisor(c)
    \/ Link(c)
    \/ ReadWinner(c)

Next == \E c \in Calls : Statement(c) \/ StatementFails(c) \/ ReplicaDies(c)

Spec == Init /\ [][Next]_vars

(* Node runs the continuation of every statement that returned, and the      *)
(* database answers, so a call that is not interrupted goes on.              *)
FairSpec == Spec /\ \A c \in Calls : WF_vars(Statement(c))

-----------------------------------------------------------------------------
(* Properties. *)

(* The shape of the rows and of the local variables; a failed INSERT is      *)
(* counted up to the bound of createBankAccount's loop.                      *)
TypeOK ==
    /\ isClient \in BOOLEAN /\ tokenUsed \in BOOLEAN /\ verified \in BOOLEAN
    /\ accounts \subseteq Account /\ investments \subseteq Calls /\ cards \subseteq Card
    /\ link \in Advisors \cup {NoAdvisor}
    /\ pc \in [Calls -> Stages]
    /\ found \in [Calls -> SUBSET Account]
    /\ checking \in [Calls -> SUBSET Account]
    /\ attempt \in [Calls -> 0..Attempts]
    /\ outcome \in [Calls -> Outcomes]
    /\ named \in [Calls -> Advisors \cup {NoAdvisor}]

(* A dossier is complete when each account type is there and a card hangs on *)
(* the checking account.                                                     *)
Complete ==
    /\ OfType("checking") # {}
    /\ OfType("savings") # {}
    /\ investments # {}
    /\ \E k \in cards : k.account \in OfType("checking")

(* A call that reports initialized = true leaves a complete dossier, also    *)
(* when it found part of it made by another call, and when inserts failed    *)
(* and were tried again on the way; the advisor it reports is the one the    *)
(* client has, also when it lost the race for the link.                      *)
CompleteWhenAnswered ==
    \A c \in Calls :
        outcome[c] = "onboarded" => Complete /\ named[c] \in {link, NoAdvisor}

(* Check-then-create: two accounts of one type exist only if each call had   *)
(* listed the accounts before the other one inserted its own.  In particular *)
(* a call that starts after another one ended creates nothing again.         *)
DuplicatesNeedOverlap ==
    \A x, y \in accounts :
        x.type = y.type /\ x # y => x \notin found[y.by] /\ y \notin found[x.by]

(* The dossier of a verified client gets complete unless the call was cut    *)
(* off by an error or by the death of its replica; no overlap of two calls   *)
(* leaves it half made.                                                      *)
DossierUnlessCutOff ==
    (verified /\ isClient)
        ~> (Complete \/ \E c \in Calls : outcome[c] \in {"logged", "lost", "error"})

(* A verified client gets a complete dossier.  The comment of the use case   *)
(* promises it after a partial failure too ("pas d'etat incoherent durable", *)
(* accents left out), because the next call completes what is missing.       *)
DossierCompleted == (verified /\ isClient) ~> Complete
=============================================================================
