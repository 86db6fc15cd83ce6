---------------------------- MODULE SecondFactor ----------------------------
(***************************************************************************)
(* The security page in the tabs of one user, and the requests behind it     *)
(* (AuthController's 2fa routes), which read the user, change the two columns  *)
(* of the second factor in memory and save the user: TypeORM reads the row    *)
(* again and writes the columns that differ.  UserAccounts has the other       *)
(* requests about the row.                                                   *)
(*                                                                         *)
(* A secret is the number of the setup that made it; a code is named by the   *)
(* secret it was computed from.                                              *)
(***************************************************************************)
EXTENDS Naturals

CONSTANTS
    Tabs,
    FactorBounds,   \* bounds: setups, other gestures, troubles
    Unknown         \* no status yet, no answer yet

ASSUME UnknownAssumption == Unknown \notin BOOLEAN

VARIABLES
    factor,     \* users.two_factor_secret (0: null) and two_factor_enabled
    tabs,       \* what each page shows
    app,        \* the secrets the authenticator application was shown
    requests,   \* requests under way
    factorLog   \* history, and what is left of the bounds

factorVars == <<factor, tabs, app, requests, factorLog>>

Page0 == [enabled |-> Unknown, setup |-> 0, loading |-> FALSE]
Request(t, kind, code) ==
    [tab |-> t, kind |-> kind, code |-> code, stage |-> "asked", copy |-> Unknown,
     columns |-> {}, heard |-> TRUE]
Pass2FA(c, d) == requests' = (requests \ {c}) \cup {d}
Use(what) ==
    /\ factorLog.left[what] > 0
    /\ factorLog' = [factorLog EXCEPT !.left[what] = @ - 1]

-----------------------------------------------------------------------------
(* The page *)

\* request(): the buttons are disabled until it ends.
Request2FA(t, kind, code) ==
    /\ ~tabs[t].loading
    /\ tabs' = [tabs EXCEPT ![t].loading = TRUE]
    /\ requests' = requests \cup {Request(t, kind, code)}
    /\ UNCHANGED <<factor, app>>

StartSetup(t) ==
    /\ tabs[t].enabled = FALSE /\ tabs[t].setup = 0
    /\ Use("setups") /\ Request2FA(t, "setup", factorLog.left.setups)

ConfirmSetup(t, code) ==
    /\ tabs[t].setup # 0
    /\ Use("gestures") /\ Request2FA(t, "enable", code)

DisableFactor(t, code) ==
    /\ tabs[t].enabled = TRUE
    /\ Use("gestures") /\ Request2FA(t, "disable", code)

\* The effect of the page, when it is opened or loaded again; what it waited for goes on.
OpenPage(t) ==
    /\ Use("troubles")
    /\ tabs' = [tabs EXCEPT ![t] = Page0]
    /\ requests' = {IF c.tab = t THEN [c EXCEPT !.heard = FALSE] ELSE c : c \in requests}
                       \cup {Request(t, "status", 0)}
    /\ UNCHANGED <<factor, app>>

Show2FA(page, c) ==
    CASE c.kind = "status" -> [page EXCEPT !.enabled = c.copy.enabled]
      [] c.kind = "setup" -> [page EXCEPT !.setup = c.copy.secret, !.loading = FALSE]
      [] c.kind = "enable" -> [page EXCEPT !.enabled = TRUE, !.setup = 0, !.loading = FALSE]
      [] c.kind = "disable" -> [page EXCEPT !.enabled = FALSE, !.loading = FALSE]

\* The user scans the code of a setup that is shown.
ArriveFactor(c) ==
    /\ c.stage = "saved" /\ c.heard
    /\ tabs' = [tabs EXCEPT ![c.tab] = Show2FA(@, c)]
    /\ app' = IF c.kind = "setup" THEN app \cup {c.copy.secret} ELSE app
    /\ requests' = requests \ {c}
    /\ UNCHANGED <<factor, factorLog>>

\* Refused by the server; the page stays as it is.
ArriveRefusal(c) ==
    /\ c.stage = "refused" /\ c.heard
    /\ tabs' = [tabs EXCEPT ![c.tab].loading = FALSE]
    /\ requests' = requests \ {c}
    /\ UNCHANGED <<factor, app, factorLog>>

\* The connection breaks: an error, whether the request is served or not.
BreakOff(c) ==
    /\ c.heard /\ factorLog.left.troubles > 0
    /\ tabs' = [tabs EXCEPT ![c.tab].loading = FALSE]
    /\ factorLog' = [factorLog EXCEPT !.left.troubles = @ - 1,
                        !.stale = IF c.stage = "saved" THEN @ \cup {c.tab} ELSE @]
    /\ Pass2FA(c, [c EXCEPT !.heard = FALSE])
    /\ UNCHANGED <<factor, app>>

\* Nobody waits for the end, or the server dies before it.
Forget(c) ==
    /\ ~c.heard
    /\ requests' = requests \ {c}
    /\ UNCHANGED <<factor, tabs, app, factorLog>>

-----------------------------------------------------------------------------
(* The server *)

Rejected(c) ==
    CASE c.kind = "setup" -> factor.enabled
      [] c.kind = "enable" -> factor.secret = 0 \/ c.code # factor.secret
      [] c.kind = "disable" -> ~factor.enabled \/ c.code # factor.secret
      [] OTHER -> FALSE

AsChanged(c) ==
    CASE c.kind = "setup" -> [secret |-> c.code, enabled |-> FALSE]
      [] c.kind = "enable" -> [factor EXCEPT !.enabled = TRUE]
      [] c.kind = "disable" -> [secret |-> 0, enabled |-> FALSE]
      [] OTHER -> factor

Saving(c) == c.stage \in {"read", "compared"}

\* authenticatedUser, the checks and the change in memory.
ReadUser(c) ==
    /\ c.stage = "asked"
    /\ IF Rejected(c)
       THEN Pass2FA(c, [c EXCEPT !.stage = "refused"]) /\ UNCHANGED factorLog
       ELSE /\ Pass2FA(c, [c EXCEPT !.copy = AsChanged(c),
                                 !.stage = IF c.kind = "status" THEN "saved" ELSE "read"])
            /\ factorLog' = [factorLog EXCEPT
                  !.overlap = @ \/ (c.kind # "status" /\ \E d \in requests : Saving(d)),
                  !.stale = IF c.kind = "status" /\ c.heard THEN @ \ {c.tab} ELSE @]
    /\ UNCHANGED <<factor, tabs, app>>

\* UserRepository.save: the columns that differ ...
CompareColumns(c) ==
    /\ c.stage = "read"
    /\ Pass2FA(c, [c EXCEPT !.stage = "compared",
                  !.columns = {k \in DOMAIN factor : factor[k] # c.copy[k]}])
    /\ UNCHANGED <<factor, tabs, app, factorLog>>

\* ... and their UPDATE.
WriteColumns(c) ==
    /\ c.stage = "compared"
    /\ factor' = [k \in DOMAIN factor |-> IF k \in c.columns THEN c.copy[k] ELSE factor[k]]
    /\ Pass2FA(c, [c EXCEPT !.stage = "saved", !.columns = {}])
    /\ factorLog' = [factorLog EXCEPT
          !.stale = @ \cup {t \in Tabs : t # c.tab \/ ~c.heard}]
    /\ UNCHANGED <<tabs, app>>

-----------------------------------------------------------------------------
FactorInit ==
    /\ \E set \in BOOLEAN :
          /\ factor = [secret |-> IF set THEN 9 ELSE 0, enabled |-> set]
          /\ app = IF set THEN {9} ELSE {}
    /\ tabs = [t \in Tabs |-> Page0]
    /\ requests = {Request(t, "status", 0) : t \in Tabs}
    /\ \E b \in FactorBounds : factorLog = [left |-> b, stale |-> {}, overlap |-> FALSE]

FactorNext ==
    \/ \E t \in Tabs :
          \/ StartSetup(t) \/ OpenPage(t)
          \/ \E code \in app : ConfirmSetup(t, code) \/ DisableFactor(t, code)
    \/ \E c \in requests :
          \/ ReadUser(c) \/ CompareColumns(c) \/ WriteColumns(c)
          \/ ArriveFactor(c) \/ ArriveRefusal(c) \/ BreakOff(c) \/ Forget(c)

FactorSpec == FactorInit /\ [][FactorNext]_factorVars

-----------------------------------------------------------------------------
\* A second factor that logins ask for is one the user can give a code of, although a
\* setup replaces the secret of the one before and its answer may be lost; unless two of
\* these requests held the row at once, when the secret may be of one and "enabled" of
\* the other.
NotLockedOut == factor.enabled /\ ~factorLog.overlap => factor.secret \in app

\* What a page that waits for nothing tells is so: unless another tab, or a request whose
\* answer was lost, has changed it since.
FactorIsTold ==
    \A t \in Tabs \ factorLog.stale :
        /\ tabs[t].enabled # Unknown
        /\ \A c \in requests : c.tab # t
        => tabs[t].enabled = factor.enabled

-----------------------------------------------------------------------------
(* The inductive invariant, from which ScreensProofs has the properties *)

Columns == {"secret", "enabled"}
RequestRecord(c) ==
    /\ c = [tab |-> c.tab, kind |-> c.kind, code |-> c.code, stage |-> c.stage, copy |-> c.copy,
            columns |-> c.columns, heard |-> c.heard]
    /\ c.tab \in Tabs /\ c.heard \in BOOLEAN
    /\ c.kind \in {"status", "setup", "enable", "disable"}
    /\ c.stage \in {"asked", "read", "compared", "saved", "refused"}
    /\ c.kind = "status" => ~Saving(c)
    /\ Saving(c) \/ c.stage = "saved" => c.copy.enabled \in BOOLEAN
    /\ c.kind = "enable" => c.code \in app

PageRecord(p) ==
    /\ p = [enabled |-> p.enabled, setup |-> p.setup, loading |-> p.loading]
    /\ p.enabled \in BOOLEAN \cup {Unknown} /\ p.loading \in BOOLEAN

FactorTypeOK ==
    /\ DOMAIN factor = Columns /\ factor = [k \in Columns |-> factor[k]]
    /\ factor.enabled \in BOOLEAN
    /\ tabs = [t \in Tabs |-> tabs[t]] /\ \A t \in Tabs : PageRecord(tabs[t])
    /\ \A c \in requests : RequestRecord(c)
    /\ factorLog = [left |-> factorLog.left, stale |-> factorLog.stale, overlap |-> factorLog.overlap]
    /\ factorLog.stale \subseteq Tabs /\ factorLog.overlap \in BOOLEAN

\* A request that holds the row, and the row as it was when it read it.
RowAsRead(c) ==
    /\ ~Rejected(c) /\ c.copy = AsChanged(c)
    /\ c.stage = "compared" => c.columns = {k \in Columns : factor[k] # c.copy[k]}

\* Nothing else holds the row, so a request finds it as it read it.
OneHolds ==
    factorLog.overlap \/
        /\ \A c, d \in requests : Saving(c) /\ Saving(d) => c = d
        /\ \A c \in requests : Saving(c) => RowAsRead(c)

\* A tab waits for one request at most, and shows what it showed when it sent it.
OneHeard ==
    /\ \A c, d \in requests : c.heard /\ d.heard /\ c.tab = d.tab => c = d
    /\ \A c \in requests : c.heard /\ c.kind # "status" => tabs[c.tab].loading = TRUE
    /\ \A c \in requests : c.heard /\ c.kind = "status" =>
          tabs[c.tab].enabled = Unknown /\ tabs[c.tab].setup = 0
    /\ \A c \in requests : c.heard /\ c.kind = "setup" => tabs[c.tab].enabled = FALSE

\* What a tab shows is so, or comes with the answer it waits for.
Tells(c) ==
    CASE c.kind = "status" -> c.copy.enabled
      [] c.kind = "enable" -> TRUE
      [] OTHER -> FALSE
TabKnows(t) ==
    /\ \A c \in requests : c.tab = t /\ c.heard /\ Saving(c) => RowAsRead(c)
    /\ \A c \in requests : c.tab = t /\ c.heard /\ c.stage = "saved" => factor.enabled = Tells(c)
    /\ \/ tabs[t].enabled \in {Unknown, factor.enabled}
       \/ \E c \in requests : c.tab = t /\ c.heard /\ c.stage = "saved" /\ c.kind # "setup"

FactorInv ==
    /\ FactorTypeOK /\ OneHolds /\ OneHeard
    /\ \A t \in Tabs \ factorLog.stale : TabKnows(t)
    /\ NotLockedOut
=============================================================================
