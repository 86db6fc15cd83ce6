---------------------------- MODULE Registration ----------------------------
(***************************************************************************)
(* Becoming and being a client: the user behind an address, from registration *)
(* to deletion (UserAccounts), the dossier, which verifyEmail fills statement *)
(* by statement (Onboarding), and the advisor the client gets and may later be *)
(* given instead (AdvisorAssignment).                                        *)
(*                                                                         *)
(* Each looks at one client from its side: UserAccounts has the row and its    *)
(* links, Onboarding all the statements after the verification and takes any    *)
(* advisor, AdvisorAssignment the choice and the link against reassignments.    *)
(* They share no state here: a behaviour is one of the side that side names.   *)
(***************************************************************************)
EXTENDS AdvisorAssignment

CONSTANTS
    Calls, NoAdvisor, Faults, MaxDeaths, Attempts,                  \* of Onboarding
    Changes, ChangeKinds, Start, RoleSets, MaxAttempts, LockFor, LinkFor, Horizon

VARIABLES
    side,
    isClient, tokenUsed, verified, accounts, investments, cards, attached, statement, found,
    checking, attempt, outcome, named,
    row, mailed, clock, kind, step, now, copy, diff, using, marked, answer, changed

Dossier == INSTANCE Onboarding WITH link <- attached, pc <- statement

\* Changes are the requests about the address.
Account == INSTANCE UserAccounts
    WITH Requests <- Changes, Kinds <- ChangeKinds, link <- mailed, pc <- step

ASSUME RegistrationAssumption ==
    Dossier!OnboardingAssumption /\ Account!UserAccountsAssumption

dossierVars == <<isClient, tokenUsed, verified, accounts, investments, cards, attached,
                 statement, found, checking, attempt, outcome, named>>
accountVars == <<row, mailed, clock, kind, step, now, copy, diff, using, marked, answer, changed>>
registrationVars == <<side, vars, dossierVars, accountVars>>

\* The sides a behaviour does not show start in one state.
RegistrationInit ==
    /\ side \in {"account", "dossier", "advisor"}
    /\ Init /\ Dossier!Init /\ Account!Init
    /\ side # "dossier" => isClient
    /\ side # "account" => row = Nobody

AdvisorStep(r) ==
    side = "advisor" /\ (Reassign(r) \/ Assign(r)) /\ UNCHANGED <<side, dossierVars, accountVars>>
DossierStep(c) ==
    side = "dossier" /\ Dossier!Statement(c) /\ UNCHANGED <<side, vars, accountVars>>

RegistrationNext ==
    \/ side = "account" /\ Account!Next /\ UNCHANGED <<side, vars, dossierVars>>
    \/ side = "dossier" /\ Dossier!Next /\ UNCHANGED <<side, vars, accountVars>>
    \/ side = "advisor" /\ Next /\ UNCHANGED <<side, dossierVars, accountVars>>

\* As in AdvisorAssignment and Onboarding: statements end and continuations go on.
RegistrationSpec ==
    /\ RegistrationInit /\ [][RegistrationNext]_registrationVars
    /\ \A r \in Requests : WF_registrationVars(AdvisorStep(r))
    /\ \A c \in Calls : WF_registrationVars(DossierStep(c))

-----------------------------------------------------------------------------
\* A verification call that reports initialized = true leaves a complete dossier and
\* names the client's advisor, also when another call or a retry made part of it; two
\* accounts of one type come only from calls of which each listed the accounts before
\* the other inserted its own (InitializeClientUseCase, check then create).
DossierHolds ==
    Dossier!TypeOK /\ Dossier!CompleteWhenAnswered /\ Dossier!DuplicatesNeedOverlap

\* The whole-row save writes back a column its request is not about only if somebody
\* else wrote it meanwhile (UserRepository.save).
AccountRowHolds == Account!TypeOK /\ Account!SaveKeepsWhatItRead

\* A reset that answered success has spent its link and the others of the user, and two
\* links of one user work at once only if their requests overlapped
\* (ResetPasswordUseCase, RequestPasswordResetUseCase).
LinksAreSpent == Account!ResetSpendsLinks /\ Account!TwoLinksNeedOverlap

\* No reassignment or onboarding of an advisor waits forever, and a verified client's
\* dossier gets complete unless its call was cut off.
RegistrationSettles == EveryRequestEnds /\ Dossier!DossierUnlessCutOff

\* The comment of the use case promises a complete dossier after a partial failure too
\* (Onboarding); a ban stays in the row until somebody lifts it (UserAccounts).
DossierCompleted == Dossier!DossierCompleted
BanHolds == Account!BanHolds
=============================================================================
