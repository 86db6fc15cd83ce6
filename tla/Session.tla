------------------------------- MODULE Session -------------------------------
(***************************************************************************)
(* One tab of the web client and who it takes the user for (AuthProvider,   *)
(* ProtectedLayout, DashboardShell, the login page, the middleware), with   *)
(* the two cookies all tabs share: access_token, which the server sets, and *)
(* is_banned, which the pages set and the middleware reads.                 *)
(*                                                                         *)
(* AuthProvider outlives every navigation: it asks /auth/me again on each   *)
(* new path and shows the user it had meanwhile.  router.push names a path  *)
(* the tab reaches a while later, unless another push comes first.          *)
(***************************************************************************)
EXTENDS Naturals, FiniteSets

CONSTANTS
    SessionBounds,  \* bounds: clicks, logins, changes made elsewhere, troubles
    NoPath          \* nothing pushed, nothing checked, no answer yet

ASSUME NoPathAssumption == NoPath \notin {"landing", "banned", "login", "dashboard", "cards",
                                         "nobody", "user"}

VARIABLES
    jar,        \* cookies: token, of this user; flag, is_banned = 1
    isBanned,   \* users.is_banned
    tab,        \* path, the path pushed, and the state of the components
    errands,    \* requests of the tab and the timer of a login
    sessionLog  \* history, and what is left of the bounds

sessionVars == <<jar, isBanned, tab, errands, sessionLog>>

Inside == {"dashboard", "cards"}        \* under ProtectedLayout
OpenToBanned == {"landing", "banned"}
Paths == Inside \cup OpenToBanned \cup {"login"}

Pay(what) ==
    /\ sessionLog.left[what] > 0
    /\ sessionLog' = [sessionLog EXCEPT !.left[what] = @ - 1, !.welcome = FALSE]

\* "current": no check began after it (requestSeq, and the effect of its path).
Errand(kind) == [kind |-> kind, path |-> tab.path, current |-> TRUE, got |-> NoPath]

\* isLoading: no user, and the path not checked yet.
Loading == ~tab.user /\ (tab.asking \/ tab.checked # tab.path)

-----------------------------------------------------------------------------
(* Moving *)

\* A link: on a dashboard page only the shell has some, and it needs the user.
Follow(p) ==
    /\ p # tab.path /\ (tab.path \in Inside => tab.user)
    /\ Pay("clicks")
    /\ tab' = [tab EXCEPT !.going = p]
    /\ UNCHANGED <<jar, isBanned, errands>>

\* The middleware, then the page: its components render before their effects run.
Arrive ==
    /\ tab.going # NoPath /\ ~tab.due
    /\ LET p == IF jar.flag /\ tab.going \notin OpenToBanned THEN "banned" ELSE tab.going
       IN  tab' = [tab EXCEPT !.path = p, !.going = NoPath, !.due = p # tab.path,
                     !.guarded = @ /\ tab.path \in Inside /\ p \in Inside]
    /\ UNCHANGED <<jar, isBanned, errands, sessionLog>>

\* The effect of ProtectedLayout, which runs before that of AuthProvider around it.
GuardSends == tab.path \in Inside /\ ~Loading /\ tab.authed = "no" /\ ~tab.guarded

SendToLogin ==
    /\ GuardSends
    /\ tab' = [tab EXCEPT !.guarded = TRUE, !.going = "login"]
    /\ UNCHANGED <<jar, isBanned, errands, sessionLog>>

\* The effect of AuthProvider on the new path, and that of the login page.
StartCheck ==
    /\ tab.due /\ ~GuardSends
    /\ tab' = [tab EXCEPT !.due = FALSE, !.asking = TRUE]
    /\ errands' = {[e EXCEPT !.current = @ /\ e.kind # "me"] : e \in errands}
                  \cup {Errand("me")}
                  \cup IF tab.path = "login" THEN {Errand("peek")} ELSE {}
    /\ UNCHANGED <<jar, isBanned, sessionLog>>

\* The page is loaded again: everything but the cookies begins anew.
LoadAgain ==
    /\ Pay("troubles")
    /\ tab' = [path |-> IF jar.flag /\ tab.path \notin OpenToBanned THEN "banned" ELSE tab.path,
               going |-> NoPath, due |-> TRUE, user |-> FALSE, authed |-> "unknown",
               asking |-> TRUE, checked |-> NoPath, sentOut |-> FALSE, guarded |-> FALSE]
    /\ errands' = {}
    /\ UNCHANGED <<jar, isBanned>>

-----------------------------------------------------------------------------
(* Checking *)

\* GET /auth/me, with the token the browser has now.
ServeMe(e) ==
    /\ e \in errands /\ e.kind \in {"me", "peek"} /\ e.got = NoPath
    /\ errands' = (errands \ {e}) \cup
          {[e EXCEPT !.got = IF ~jar.token THEN "nobody" ELSE IF isBanned THEN "banned" ELSE "user"]}
    /\ sessionLog' = IF e.kind = "me" /\ e.current THEN [sessionLog EXCEPT !.changed = FALSE]
                     ELSE sessionLog
    /\ UNCHANGED <<jar, isBanned, tab>>

\* Mutant: an answer counts although a later check has begun.
AnswerAny(e, got) ==
    tab' = [tab EXCEPT !.user = got = "user", !.authed = IF got = "user" THEN "yes" ELSE "no",
              !.asking = FALSE, !.checked = e.path]

\* checkAuth goes on: what the page takes the user for.
Answer(e, got) ==
    IF ~e.current THEN UNCHANGED tab
    ELSE LET out == got = "banned" /\ e.path \notin OpenToBanned /\ ~tab.sentOut
         IN  tab' = [tab EXCEPT
                !.user = got = "user", !.authed = IF got = "user" THEN "yes" ELSE "no",
                !.asking = FALSE, !.checked = e.path,
                !.sentOut = IF got = "user" THEN FALSE ELSE @ \/ out,
                !.going = IF out THEN "banned" ELSE @]

ArriveMe(e) ==
    /\ e \in errands /\ e.kind = "me" /\ e.got # NoPath
    /\ Answer(e, e.got)
    /\ jar' = IF e.current THEN [jar EXCEPT !.flag = e.got = "banned"] ELSE jar
    /\ sessionLog' = IF e.current
                     THEN [sessionLog EXCEPT !.failed = FALSE, !.said = e.got,
                              !.again = e.got = "banned" /\ tab.sentOut]
                     ELSE sessionLog
    /\ errands' = errands \ {e}
    /\ UNCHANGED isBanned

\* No answer, or an error of the proxy: taken for "not authenticated".
FailMe(e) ==
    /\ e \in errands /\ e.kind = "me" /\ e.current
    /\ sessionLog.left["troubles"] > 0
    /\ sessionLog' = [sessionLog EXCEPT !.left["troubles"] = @ - 1, !.welcome = FALSE,
                                        !.failed = TRUE]
    /\ tab' = [tab EXCEPT !.user = FALSE, !.authed = "no", !.asking = FALSE, !.checked = e.path]
    /\ jar' = [jar EXCEPT !.flag = FALSE]
    /\ errands' = errands \ {e}
    /\ UNCHANGED isBanned

\* The login page finds that somebody is logged in, even when it has been left since.
ArrivePeek(e) ==
    /\ e \in errands /\ e.kind = "peek" /\ e.got # NoPath
    /\ errands' = errands \ {e}
    /\ tab' = IF e.got = "user" THEN [tab EXCEPT !.going = "dashboard"] ELSE tab
    /\ UNCHANGED <<jar, isBanned, sessionLog>>

-----------------------------------------------------------------------------
(* Logging in and out *)

SubmitLogin ==
    /\ tab.path = "login" /\ ~\E e \in errands : e.kind = "login"
    /\ Pay("logins")
    /\ errands' = errands \cup {Errand("login")}
    /\ UNCHANGED <<jar, isBanned, tab>>

\* AuthController.login: banned, refused (password, code, lock, mail), or a token.
ServeLogin(e) ==
    /\ e \in errands /\ e.kind = "login" /\ e.got = NoPath
    /\ \E got \in IF isBanned THEN {"banned"} ELSE {"user", "nobody"} :
          errands' = (errands \ {e}) \cup {[e EXCEPT !.got = got]}
    /\ UNCHANGED <<jar, isBanned, tab, sessionLog>>

\* The cookie comes with the answer; the dashboard is pushed half a second later.
ArriveLogin(e) ==
    /\ e \in errands /\ e.kind = "login" /\ e.got # NoPath
    /\ \/ /\ e.got = "user"
          /\ jar' = [jar EXCEPT !.token = TRUE]
          /\ errands' = (errands \ {e}) \cup {Errand("timer")}
          /\ sessionLog' = [sessionLog EXCEPT !.changed = TRUE]
          /\ UNCHANGED tab
       \/ /\ e.got = "banned"
          /\ jar' = [jar EXCEPT !.flag = TRUE]
          /\ errands' = errands \ {e}
          /\ tab' = [tab EXCEPT !.going = "banned"]
          /\ sessionLog' = [sessionLog EXCEPT !.changed = TRUE]
       \/ /\ e.got = "nobody"
          /\ errands' = errands \ {e}
          /\ UNCHANGED <<jar, tab, sessionLog>>
    /\ UNCHANGED isBanned

TimerPushes(e) ==
    /\ e \in errands /\ e.kind = "timer"
    /\ errands' = errands \ {e}
    /\ tab' = [tab EXCEPT !.going = "dashboard"]
    /\ sessionLog' = [sessionLog EXCEPT !.welcome =
          /\ tab.path = "login" /\ tab.going = NoPath
          /\ jar.token /\ ~isBanned /\ ~jar.flag
          /\ \A x \in errands : x.got # "banned"]
    /\ UNCHANGED <<jar, isBanned>>

\* handleLogout: the login page follows whether the cookie was cleared or not.
Logout ==
    /\ tab.path \in Inside /\ tab.user
    /\ Pay("clicks")
    /\ errands' = errands \cup {Errand("logout")}
    /\ UNCHANGED <<jar, isBanned, tab>>

EndLogout(e) ==
    /\ e \in errands /\ e.kind = "logout"
    /\ errands' = errands \ {e}
    /\ tab' = [tab EXCEPT !.going = "login"]
    /\ \/ /\ jar' = [jar EXCEPT !.token = FALSE]
          /\ sessionLog' = [sessionLog EXCEPT !.changed = TRUE, !.welcome = FALSE]
       \/ Pay("troubles") /\ UNCHANGED jar
    /\ UNCHANGED isBanned

\* Another tab logs in or out, the token expires, or the staff bans or pardons.
ChangeElsewhere ==
    /\ sessionLog.left["changes"] > 0
    /\ sessionLog' = [sessionLog EXCEPT !.left["changes"] = @ - 1, !.changed = TRUE,
                                        !.welcome = FALSE]
    /\ \/ jar' = [jar EXCEPT !.token = ~@] /\ UNCHANGED isBanned
       \/ isBanned' = ~isBanned /\ UNCHANGED jar
    /\ UNCHANGED <<tab, errands>>

-----------------------------------------------------------------------------
SessionInit ==
    /\ jar = [token |-> FALSE, flag |-> FALSE]
    /\ isBanned = FALSE
    /\ tab = [path |-> "login", going |-> NoPath, due |-> TRUE, user |-> FALSE,
              authed |-> "unknown", asking |-> TRUE, checked |-> NoPath,
              sentOut |-> FALSE, guarded |-> FALSE]
    /\ errands = {}
    /\ \E b \in SessionBounds :
          sessionLog = [left |-> b, changed |-> FALSE, failed |-> FALSE, said |-> "nobody",
                        again |-> FALSE, welcome |-> FALSE]

SessionNext ==
    \/ \E p \in Paths : Follow(p)
    \/ \E e \in errands :
          \/ ServeMe(e) \/ ArriveMe(e) \/ FailMe(e) \/ ArrivePeek(e)
          \/ ServeLogin(e) \/ ArriveLogin(e) \/ TimerPushes(e) \/ EndLogout(e)
    \/ Arrive \/ SendToLogin \/ StartCheck \/ LoadAgain \/ SubmitLogin \/ Logout \/ ChangeElsewhere

-----------------------------------------------------------------------------
Quiet == errands = {} /\ tab.going = NoPath /\ ~tab.due /\ ~GuardSends

\* Once nothing is under way, the tab takes the user for who the cookie says he is and
\* is_banned for what the server says of him, unless that changed since the tab last
\* asked or the last check failed.
SessionIsShown ==
    Quiet /\ ~sessionLog.changed /\ ~sessionLog.failed =>
        /\ tab.user <=> jar.token /\ ~isBanned
        /\ jar.flag <=> jar.token /\ isBanned

\* A user a check has found banned is on the landing page or on /banned, but when he
\* had been sent there before and a check that failed let him out: didRedirect stays
\* set until a check succeeds.
BannedIsKeptOut ==
    Quiet /\ sessionLog.said = "banned" /\ ~sessionLog.failed =>
        tab.path \in OpenToBanned \/ sessionLog.again

\* A login ends on the dashboard: the page it leads to does not send the user back to
\* the login page on the strength of a check made before it; only an answer that found
\* him banned and has not arrived yet leads elsewhere.
LoginEndsInside ==
    Quiet /\ sessionLog.welcome => tab.path = "dashboard" /\ tab.user

\* What AuthProvider, ProtectedLayout and the login page make of the cookies is right
\* once nothing is under way: who is logged in, who is kept out, and where a login ends.
SessionHolds == SessionIsShown /\ BannedIsKeptOut /\ LoginEndsInside

-----------------------------------------------------------------------------
(* The inductive invariant, from which ScreensProofs has the properties *)

Checks(e) == e.kind = "me" /\ e.current
Checking == \E e \in errands : Checks(e)

SessionTypeOK ==
    /\ DOMAIN jar = {"token", "flag"} /\ jar.token \in BOOLEAN /\ jar.flag \in BOOLEAN
    /\ isBanned \in BOOLEAN
    /\ DOMAIN tab = {"path", "going", "due", "user", "authed", "asking", "checked", "sentOut",
                     "guarded"}
    /\ tab.due \in BOOLEAN /\ tab.user \in BOOLEAN /\ tab.asking \in BOOLEAN
    /\ \A e \in errands : DOMAIN e = {"kind", "path", "current", "got"} /\ e.current \in BOOLEAN
    /\ DOMAIN sessionLog = {"left", "changed", "failed", "said", "again", "welcome"}
    /\ sessionLog.changed \in BOOLEAN /\ sessionLog.failed \in BOOLEAN
    /\ sessionLog.welcome \in BOOLEAN

\* One check counts at a time; it is of the page shown, unless the effect of a new one is due.
OneCheck ==
    /\ \A e, f \in errands : Checks(e) /\ Checks(f) => e = f
    /\ \A e \in errands : Checks(e) => (tab.due \/ e.path = tab.path) /\ tab.asking
    /\ ~tab.due /\ ~Checking => ~tab.asking /\ tab.checked = tab.path

Verdict == IF ~jar.token THEN "nobody" ELSE IF isBanned THEN "banned" ELSE "user"

\* The answer on its way is right unless something has changed since.
AnswersRight ==
    ~sessionLog.changed => \A e \in errands : Checks(e) => e.got \in {NoPath, Verdict}

\* What the tab shows is right unless a check is under way.
ShownRight ==
    \/ tab.due \/ Checking \/ sessionLog.changed \/ sessionLog.failed
    \/ (tab.user <=> Verdict = "user") /\ (jar.flag <=> Verdict = "banned")

\* Who was found banned has the cookie that says so, and is on his way out.
OnTheWayOut ==
    sessionLog.said = "banned" /\ ~sessionLog.failed =>
        /\ jar.flag
        /\ \/ tab.path \in OpenToBanned \/ tab.going # NoPath \/ tab.due \/ Checking
           \/ sessionLog.again

\* Whoever has just logged in is on his way to the dashboard, or there, and the check made
\* of the login page does not count there.
OnTheWayIn ==
    sessionLog.welcome =>
        /\ jar.token /\ ~isBanned /\ ~jar.flag
        /\ \A e \in errands : e.got # "banned"
        /\ \/ tab.path = "login" /\ tab.going = "dashboard"
           \/ /\ tab.path = "dashboard" /\ tab.going \in {NoPath, "dashboard"}
              /\ tab.due =>
                    /\ tab.user \/ tab.asking \/ tab.checked # "dashboard"
                    /\ \A e \in errands : Checks(e) => e.path # "dashboard"
              /\ ~tab.due =>
                    /\ \A e \in errands : Checks(e) => e.got \in {NoPath, "user"}
                    /\ tab.user \/ Checking

SessionInv ==
    /\ SessionTypeOK /\ OneCheck /\ AnswersRight /\ ShownRight /\ OnTheWayOut /\ OnTheWayIn
    /\ tab.user => tab.authed = "yes"
=============================================================================
