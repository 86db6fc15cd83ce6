---------------------------- MODULE UserAccounts ----------------------------
(***************************************************************************)
(* One e-mail address and the row of users behind it: registration, login,  *)
(* password reset, e-mail verification, ban, roles, second factor and       *)
(* deletion.  Every one of these requests loads the user, changes it in     *)
(* memory and calls UserRepository.save, which hands ALL columns back to    *)
(* TypeORM; no transaction and no lock spans the request.                   *)
(*                                                                         *)
(* TypeORM's save is two steps: it reads the row again by id, then writes   *)
(* the columns that differ from what it just read, or inserts the row when  *)
(* it is not there.  Dates and names are left out; a password is named by   *)
(* the request that chose it, a secret by the request that generated it and *)
(* a mailed link by the request that issued it.                             *)
(***************************************************************************)
EXTENDS Naturals

CONSTANTS Requests,    \* requests about the address
          Kinds,       \* Kinds[r]: what r may be
          Seed,        \* who made the row and the link that exist at the start
          Nobody,      \* null
          Start,       \* the rows the system may start with
          RoleSets,    \* the sets of roles a user may have
          MaxAttempts, \* MAX_ATTEMPTS of LoginUserUseCase
          LockFor,     \* LOCK_MS, in ticks
          LinkFor,     \* how long a mailed link works, in ticks
          Horizon      \* bound: the last tick

AllKinds == {"register", "login", "forgot", "reset", "verify", "ban", "unban", "roles",
             "setup", "enable", "disable", "delete", "deleteMe"}
Columns == {"password", "verified", "banned", "failures", "lockUntil", "secret",
            "enabled", "roles"}
Makers == Requests \cup {Seed}
Maybe(S) == S \cup {Nobody}

Row == [id : Makers, password : Makers, verified : BOOLEAN, banned : BOOLEAN,
        failures : Nat, lockUntil : Nat, secret : Maybe(Makers), enabled : BOOLEAN,
        roles : RoleSets]
Link == [purpose : {"reset", "verify"}, user : Makers, expires : Nat, used : BOOLEAN]
LinkUse == [by : Makers, user : Makers]

\* Assumed where the module is used (Registration).
UserAccountsAssumption ==
    /\ Kinds \in [Requests -> SUBSET AllKinds]
    /\ Seed \notin Requests
    /\ Nobody \notin Makers \cup Row \cup Link \cup LinkUse
    /\ Start \subseteq Row
    /\ {"CLIENT"} \in RoleSets
    /\ MaxAttempts \in Nat \ {0} /\ LockFor \in Nat \ {0} /\ LinkFor \in Nat \ {0}
    /\ Horizon \in Nat

VARIABLES
    row,     \* the row with the address, or Nobody
    link,    \* link[m]: the token that m issued
    clock,
    kind,    \* what each request is
    pc,      \* its next statement
    now,     \* the date it took
    copy,    \* its domain object User, as changed in memory
    diff,    \* the columns its save is about to write, "id" for an INSERT
    using,   \* the link it was called with: who issued it, for which user
    marked,  \* the links that existed when it marked the links of its user used
    answer,  \* how it ends
    changed  \* auxiliary: the columns written by others since it read the user

locals == <<kind, now, copy, using, marked>>
vars == <<row, link, clock, kind, pc, now, copy, diff, using, marked, answer, changed>>

Stages == {"idle", "exists", "candidate", "allowed", "guard", "findLink", "read", "useFirst",
           "load", "write", "use", "mark", "issue", "mail", "delete", "done"}
Answers == {"none", "ok", "refused", "error"}

FirstStep ==
    [k \in AllKinds |->
        CASE k = "register" -> "exists"
          [] k = "login" -> "candidate"
          [] k \in {"ban", "unban"} -> "allowed"
          [] k \in {"reset", "verify"} -> "findLink"
          [] k = "deleteMe" -> "guard"
          [] OTHER -> "read"]

At(r, stage) == pc[r] = stage
Goto(r, stage) == pc' = [pc EXCEPT ![r] = stage]
End(r, result) ==
    /\ Goto(r, "done")
    /\ answer' = [answer EXCEPT ![r] = result]
Hold(r, user) == copy' = [copy EXCEPT ![r] = user]

-----------------------------------------------------------------------------

Init ==
    /\ row \in Maybe(Start)
    /\ link \in [Makers -> Maybe({[purpose |-> p, user |-> Seed, expires |-> LinkFor, used |-> FALSE] :
                                      p \in {"reset", "verify"}})]
    /\ \A m \in Requests : link[m] = Nobody
    /\ row = Nobody => link[Seed] = Nobody
    /\ clock = 0
    /\ kind = [r \in Requests |-> Nobody]
    /\ pc = [r \in Requests |-> "idle"]
    /\ now = [r \in Requests |-> 0]
    /\ copy = [r \in Requests |-> Nobody]
    /\ diff = [r \in Requests |-> {}]
    /\ using = [r \in Requests |-> Nobody]
    /\ marked = [r \in Requests |-> {}]
    /\ answer = [r \in Requests |-> "none"]
    /\ changed = [r \in Requests |-> {}]

Submit(r) ==
    /\ At(r, "idle")
    /\ \E k \in Kinds[r] :
        /\ kind' = [kind EXCEPT ![r] = k]
        /\ Goto(r, FirstStep[k])
    /\ UNCHANGED <<row, link, clock, now, copy, diff, using, marked, answer, changed>>

-----------------------------------------------------------------------------
(* The user in memory (packages/domain .../User.ts). *)

Locked(user, at) == user.lockUntil > at

RecordFailedLogin(user, at) ==
    [user EXCEPT !.failures = @ + 1,
                 !.lockUntil = IF user.failures + 1 >= MaxAttempts THEN at + LockFor ELSE @]

MarkLogin(user) == [user EXCEPT !.failures = 0, !.lockUntil = 0]
ChangePassword(user, r) ==
    [user EXCEPT !.password = r, !.failures = 0, !.lockUntil = 0]
BeginTwoFactorSetup(user, r) == [user EXCEPT !.secret = r, !.enabled = FALSE]

DisableTwoFactor(user) == [user EXCEPT !.secret = Nobody, !.enabled = FALSE]

NewUser(r) ==
    [id |-> r, password |-> r, verified |-> FALSE, banned |-> FALSE, failures |-> 0,
     lockUntil |-> 0, secret |-> Nobody, enabled |-> FALSE, roles |-> {"CLIENT"}]

(* What a request of each kind is about. *)
Own(k) ==
    CASE k = "login" -> {"failures", "lockUntil"}
      [] k = "reset" -> {"password", "failures", "lockUntil"}
      [] k = "verify" -> {"verified"}
      [] k \in {"ban", "unban"} -> {"banned"}
      [] k = "roles" -> {"roles"}
      [] k \in {"setup", "enable", "disable"} -> {"secret", "enabled"}
      [] k = "register" -> Columns \cup {"id"}
      [] OTHER -> {}

-----------------------------------------------------------------------------
(* Reading the user. *)

Usable(m) == link[m] # Nobody /\ ~link[m].used /\ link[m].expires > clock

\* RegisterUserUseCase: existsByEmail, then the new user.
Exists(r) ==
    /\ At(r, "exists")
    /\ now' = [now EXCEPT ![r] = clock]
    /\ IF row = Nobody
       THEN Hold(r, NewUser(r)) /\ Goto(r, "load") /\ UNCHANGED answer
       ELSE End(r, "refused") /\ UNCHANGED copy
    /\ changed' = [changed EXCEPT ![r] = {}]
    /\ UNCHANGED <<row, link, clock, kind, diff, using, marked>>

\* AuthController.login: a banned candidate is refused; a failing read is not.
Candidate(r) ==
    /\ At(r, "candidate")
    /\ now' = [now EXCEPT ![r] = clock]
    /\ \/ Goto(r, "read") /\ UNCHANGED answer
       \/ row # Nobody /\ row.banned /\ End(r, "refused")
    /\ UNCHANGED <<row, link, clock, kind, copy, diff, using, marked, changed>>

BanMatrix(actor, target) ==
    IF actor = "ADMIN" THEN "ADMIN" \notin target
    ELSE target \cap {"ADMIN", "DIRECTOR"} = {}

\* UsersController.assertBanAllowed.
Allowed(r) ==
    /\ At(r, "allowed")
    /\ \E actor \in {"ADMIN", "DIRECTOR"} :
        IF row # Nobody /\ BanMatrix(actor, row.roles)
        THEN Goto(r, "read") /\ UNCHANGED answer
        ELSE End(r, "refused")
    /\ UNCHANGED <<row, link, clock, locals, diff, changed>>

\* RolesGuard, where the actor is the user himself.
Guard(r) ==
    /\ At(r, "guard")
    /\ IF row # Nobody /\ ~row.banned
       THEN Goto(r, "read") /\ UNCHANGED answer
       ELSE End(r, "refused")
    /\ UNCHANGED <<row, link, clock, locals, diff, changed>>

FindLink(r) ==
    /\ At(r, "findLink")
    /\ \/ \E m \in Makers :
            /\ Usable(m) /\ link[m].purpose = kind[r]
            /\ using' = [using EXCEPT ![r] = [by |-> m, user |-> link[m].user]]
            /\ Goto(r, "read")
            /\ UNCHANGED answer
       \/ End(r, "refused") /\ UNCHANGED using
    /\ UNCHANGED <<row, link, clock, kind, now, copy, diff, marked, changed>>

\* findById or findByEmail, and what the request does with the user.
Found(r) ==
    /\ row # Nobody
    /\ kind[r] \in {"reset", "verify"} => row.id = using[r].user

Refused(r, user) ==
    \/ kind[r] \in {"forgot", "reset"} /\ user.banned
    \/ kind[r] = "login" /\ Locked(user, now[r])
    \/ kind[r] = "setup" /\ user.enabled
    \/ kind[r] = "enable" /\ user.secret = Nobody
    \/ kind[r] = "disable" /\ (~user.enabled \/ user.secret = Nobody)

Outcomes(r, user) ==
    CASE kind[r] = "login" ->
            {[user |-> RecordFailedLogin(user, now[r]), answer |-> "refused"]} \cup
            (IF user.verified /\ (user.enabled => user.secret # Nobody)
             THEN {[user |-> MarkLogin(user), answer |-> "ok"]} ELSE {})
      [] kind[r] = "reset" -> {[user |-> ChangePassword(user, r), answer |-> "ok"]}
      [] kind[r] = "verify" -> {[user |-> [user EXCEPT !.verified = TRUE], answer |-> "ok"]}
      [] kind[r] = "ban" -> {[user |-> [user EXCEPT !.banned = TRUE], answer |-> "ok"]}
      [] kind[r] = "unban" -> {[user |-> [user EXCEPT !.banned = FALSE], answer |-> "ok"]}
      [] kind[r] = "roles" ->
            {[user |-> [user EXCEPT !.roles = s], answer |-> "ok"] : s \in RoleSets}
      [] kind[r] = "setup" -> {[user |-> BeginTwoFactorSetup(user, r), answer |-> "ok"]}
      [] kind[r] = "enable" -> {[user |-> [user EXCEPT !.enabled = TRUE], answer |-> "ok"]}
      [] kind[r] = "disable" -> {[user |-> DisableTwoFactor(user), answer |-> "ok"]}
      [] OTHER -> {[user |-> user, answer |-> "ok"]}

AfterRead ==
    [k \in AllKinds |->
        CASE k = "verify" -> "useFirst"
          [] k = "forgot" -> "mark"
          [] k \in {"delete", "deleteMe"} -> "delete"
          [] OTHER -> "load"]

\* A request may also end without touching the user: not found, locked,
\* unverified, missing or wrong code, the acting user himself (forgot says
\* success all the same).
Read(r) ==
    /\ At(r, "read")
    /\ \/ /\ Found(r)
          /\ ~Refused(r, row)
          /\ \E o \in Outcomes(r, row) :
                Hold(r, o.user) /\ answer' = [answer EXCEPT ![r] = o.answer]
          /\ Goto(r, AfterRead[kind[r]])
       \/ /\ Found(r) =>
                kind[r] \in {"login", "enable", "disable", "delete", "roles"} \/ Refused(r, row)
          /\ End(r, "refused")
          /\ UNCHANGED copy
    /\ changed' = [changed EXCEPT ![r] = {}]
    /\ UNCHANGED <<row, link, clock, kind, now, diff, using, marked>>

-----------------------------------------------------------------------------
(* UserRepository.save. *)

\* Mutant: the second factor is missing among the columns handed to TypeORM.
SavedWithoutSecret(user) == [user EXCEPT !.secret = Nobody]

Saved(user) == user

Loaded(r) == IF row # Nobody /\ row.id = copy[r].id THEN row ELSE Nobody

Load(r) ==
    /\ At(r, "load")
    /\ diff' = [diff EXCEPT ![r] =
            IF Loaded(r) = Nobody THEN Columns \cup {"id"}
            ELSE {k \in Columns : Loaded(r)[k] # Saved(copy[r])[k]}]
    /\ Goto(r, "write")
    /\ UNCHANGED <<row, link, clock, locals, answer, changed>>

AfterSave ==
    [k \in AllKinds |-> CASE k = "reset" -> "use" [] k = "register" -> "mark" [] OTHER -> "done"]

Wrote(r, columns) ==
    changed' = [q \in Requests |-> IF q = r THEN changed[q] ELSE changed[q] \cup columns]

\* An UPDATE of a row that is gone changes nothing and is no error.
Update(r) ==
    /\ At(r, "write")
    /\ "id" \notin diff[r]
    /\ row' = IF Loaded(r) = Nobody THEN row
              ELSE [k \in DOMAIN row |-> IF k \in diff[r] THEN Saved(copy[r])[k] ELSE row[k]]
    /\ Wrote(r, diff[r])
    /\ Goto(r, AfterSave[kind[r]])
    /\ UNCHANGED <<link, clock, locals, diff, answer>>

\* The unique address refuses a second row.
Insert(r) ==
    /\ At(r, "write")
    /\ "id" \in diff[r]
    /\ IF row = Nobody
       THEN /\ row' = Saved(copy[r])
            /\ Wrote(r, diff[r])
            /\ Goto(r, AfterSave[kind[r]])
            /\ UNCHANGED answer
       ELSE End(r, "error") /\ UNCHANGED <<row, changed>>
    /\ UNCHANGED <<link, clock, locals, diff>>

-----------------------------------------------------------------------------
(* The mailed links. *)

UserExists(id) == row # Nobody /\ row.id = id

\* resetTokens.save, verificationTokens.save of a token just used; the row of
\* a deleted user takes its links along, and the INSERT that follows fails.
UseLink(r) ==
    /\ pc[r] \in {"use", "useFirst"}
    /\ IF link[using[r].by] = Nobody
       THEN End(r, "error") /\ UNCHANGED link
       ELSE /\ link' = [link EXCEPT ![using[r].by].used = TRUE]
            /\ Goto(r, IF kind[r] = "reset" THEN "mark" ELSE "load")
            /\ UNCHANGED answer
    /\ UNCHANGED <<row, clock, locals, diff, changed>>

Purpose(r) == IF kind[r] = "register" THEN "verify" ELSE "reset"
LinksOf(id, purpose) ==
    {m \in Makers : link[m] # Nobody /\ link[m].user = id /\ link[m].purpose = purpose}

\* Mutant: the links are left as they are.
UsedUpNone(S) == link

UsedUp(S) == [m \in Makers |-> IF m \in S THEN [link[m] EXCEPT !.used = TRUE] ELSE link[m]]

\* markUserTokensUsed: every unused link of the user, in one UPDATE.
MarkLinks(r) ==
    /\ At(r, "mark")
    /\ LET S == LinksOf(copy[r].id, Purpose(r)) IN
        /\ marked' = [marked EXCEPT ![r] = S]
        /\ link' = UsedUp(S)
    /\ now' = [now EXCEPT ![r] = IF kind[r] = "forgot" THEN clock ELSE @]
    /\ Goto(r, IF kind[r] = "reset" THEN "done" ELSE "issue")
    /\ UNCHANGED <<row, clock, kind, copy, diff, using, answer, changed>>

\* The new link; the foreign key refuses the link of a deleted user.
IssueLink(r) ==
    /\ At(r, "issue")
    /\ IF UserExists(copy[r].id)
       THEN /\ link' = [link EXCEPT ![r] = [purpose |-> Purpose(r), user |-> copy[r].id,
                                            expires |-> now[r] + LinkFor, used |-> FALSE]]
            /\ Goto(r, "mail")
            /\ UNCHANGED answer
       ELSE End(r, "error") /\ UNCHANGED link
    /\ UNCHANGED <<row, clock, locals, diff, changed>>

Mail(r) ==
    /\ At(r, "mail")
    /\ End(r, "ok")
    /\ UNCHANGED <<row, link, clock, locals, diff, changed>>

-----------------------------------------------------------------------------
(* Deletion, failures and time. *)

\* DELETE, with its cascade.
Delete(r) ==
    /\ At(r, "delete")
    /\ IF UserExists(copy[r].id)
       THEN /\ row' = Nobody
            /\ link' = [m \in Makers |->
                    IF link[m] # Nobody /\ link[m].user = copy[r].id THEN Nobody ELSE link[m]]
            /\ Wrote(r, Columns \cup {"id"})
       ELSE UNCHANGED <<row, link, changed>>
    /\ Goto(r, "done")
    /\ UNCHANGED <<clock, locals, diff, answer>>

\* A statement or the mail server fails, or the replica dies.
Fails(r) ==
    /\ pc[r] \notin {"idle", "done"}
    /\ End(r, "error")
    /\ UNCHANGED <<row, link, clock, locals, diff, changed>>

Tick ==
    /\ clock < Horizon
    /\ clock' = clock + 1
    /\ UNCHANGED <<row, link, locals, pc, diff, answer, changed>>

Step(r) ==
    \/ Exists(r)
    \/ Candidate(r)
    \/ Allowed(r)
    \/ Guard(r)
    \/ FindLink(r)
    \/ Read(r)
    \/ Load(r)
    \/ Update(r)
    \/ Insert(r)
    \/ UseLink(r)
    \/ MarkLinks(r)
    \/ IssueLink(r)
    \/ Mail(r)
    \/ Delete(r)

Next ==
    \/ \E r \in Requests : Submit(r) \/ Step(r) \/ Fails(r)
    \/ Tick

Spec == Init /\ [][Next]_vars

-----------------------------------------------------------------------------
(* Properties. *)

(* The shape of the row, of the links and of the local variables.            *)
TypeOK ==
    /\ row \in Maybe(Row)
    /\ link \in [Makers -> Maybe(Link)]
    /\ clock \in Nat
    /\ kind \in [Requests -> Maybe(AllKinds)]
    /\ pc \in [Requests -> Stages]
    /\ now \in [Requests -> Nat]
    /\ copy \in [Requests -> Maybe(Row)]
    /\ diff \in [Requests -> SUBSET (Columns \cup {"id"})]
    /\ using \in [Requests -> Maybe(LinkUse)]
    /\ marked \in [Requests -> SUBSET Makers]
    /\ answer \in [Requests -> Answers]
    /\ changed \in [Requests -> SUBSET (Columns \cup {"id"})]

(* The whole-row save loses an update only to an overlap: a column a request *)
(* is not about is written back only if somebody else wrote it after the     *)
(* request had read the user, and a row that is inserted again was deleted   *)
(* meanwhile.                                                                *)
SaveKeepsWhatItRead ==
    \A r \in Requests : At(r, "write") => diff[r] \subseteq Own(kind[r]) \cup changed[r]

(* A reset that answered success has spent its link and every other link of  *)
(* the user that existed when it came to mark them, however many requests    *)
(* for new links and resets overlap with it.                                 *)
ResetSpendsLinks ==
    \A r \in Requests :
        At(r, "done") /\ answer[r] = "ok" /\ kind[r] = "reset" =>
            \A m \in marked[r] \cup {using[r].by} : link[m] = Nobody \/ link[m].used

(* A new link replaces the earlier ones: two links of one user work at once  *)
(* only if neither request had issued its link when the other one looked.    *)
TwoLinksNeedOverlap ==
    \A p, q \in Requests :
        /\ p # q /\ Usable(p) /\ Usable(q)
        /\ link[p].user = link[q].user /\ link[p].purpose = link[q].purpose
        => p \notin marked[q] /\ q \notin marked[p]

(* "les requetes HTTP suivantes sont rejetees par les guards (etat banni     *)
(* relu en base)" (UsersController.ban): a ban stays in the row until        *)
(* somebody lifts it or the user is deleted.                                 *)
BanHolds ==
    [][row # Nobody /\ row.banned /\ row' # Nobody /\ ~row'.banned =>
          \E r \in Requests : At(r, "write") /\ kind[r] = "unban"]_vars
=============================================================================
