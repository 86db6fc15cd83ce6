----------------------------- MODULE StaffPages -----------------------------
(***************************************************************************)
(* The users page of an advisor or a director: the list of clients with its  *)
(* search (UserSection), the one modal that stacks the views opened in it     *)
(* (UserDetailsModal): the sheet of a user (UserDetailsView), the lines of an *)
(* account (AccountTransactionsView), the choice of another advisor           *)
(* (ReassignAdvisorModal) and the request of a ban (RequestBanModal).         *)
(*                                                                         *)
(* A view keeps its state while the view on top is of its type: from one     *)
(* sheet to another the component stays, with the answers it still waits     *)
(* for.  What another staff member changes meanwhile is not told to the page. *)
(* Equal requests under way at once count as one, and getUserDetails reads at *)
(* one instant what it reads in several queries.                             *)
(***************************************************************************)
EXTENDS Naturals, Sequences, SequencesExt, FiniteSets

CONSTANTS
    Clients, Advisors,
    ThisAdvisor,             \* the advisor who uses the page, unless a director does
    StaffBounds,    \* bounds: moves, changes, searches, troubles; who the actor may be
    NoSheet         \* nothing loaded, no answer yet

ASSUME StaffAssumption == NoSheet \notin Clients

VARIABLES
    held,       \* users.is_banned, advisor_clients, and the pending ban requests of ThisAdvisor
    modal,      \* stack of views, the view on top by its number and state, and the number
                \* of the first one since the modal was opened
    section,    \* search typed, timer, rows
    staffCalls,      \* requests under way
    staffLog    \* actor, history, and what is left of the bounds

staffVars == <<held, modal, section, staffCalls, staffLog>>

Views == {"user", "account", "reassign", "request"}
View(type, user) == [type |-> type, user |-> user, advisor |-> NoSheet]
Top == Last(modal.stack)
Open == modal.stack # <<>>
Ranges == {"all", "period"}
Terms == {"", "name"}

\* The clients the server returns: those of an advisor, and of those the ones whose name
\* the term matches.
Named == CHOOSE c \in Clients : TRUE
InDirectory(term, advisor) ==
    {c \in Clients : /\ term = "name" => c = Named
                     /\ staffLog.actor = "advisor" => advisor[c] = ThisAdvisor}

Spend(what) ==
    /\ staffLog.left[what] > 0
    /\ staffLog' = [staffLog EXCEPT !.left[what] = @ - 1]

StaffCall(kind, user, what) ==
    [kind |-> kind, user |-> user, what |-> what, inst |-> modal.inst, depth |-> Len(modal.stack),
     reload |-> FALSE, got |-> NoSheet, rows |-> NoSheet]

\* The loads a view may have under way: one that begins during another one overlaps it.
Loads == {"details", "accounts", "lines"}
IsLoad(c) == c.kind \in Loads /\ c.inst = modal.inst

-----------------------------------------------------------------------------
(* The list *)

\* UserSection.load, on mount, on a new refreshKey and when the timer fires.
ListCall(term) == [StaffCall("list", ThisAdvisor, term) EXCEPT !.inst = 0]
Listing(cs) == \E c \in cs : c.kind = "list"
LoadList(cs, term) ==
    /\ staffCalls' = cs \cup {ListCall(term)}
    /\ section' = [section EXCEPT !.overlap = Listing(cs), !.error = FALSE]

TypeTerm(term) ==
    /\ term # section.term
    /\ Spend("searches")
    /\ section' = [section EXCEPT !.term = term, !.timer = TRUE]
    /\ UNCHANGED <<held, modal, staffCalls>>

\* 300 ms after the last key.
SearchTimer ==
    /\ section.timer
    /\ staffCalls' = staffCalls \cup {ListCall(section.term)}
    /\ section' = [section EXCEPT !.timer = FALSE, !.overlap = Listing(staffCalls), !.error = FALSE]
    /\ UNCHANGED <<held, modal, staffLog>>

\* listDirectory.
ServeDirectory(c) ==
    /\ c.kind = "list" /\ c.rows = NoSheet
    /\ staffCalls' = (staffCalls \ {c}) \cup
          {[c EXCEPT !.rows = [u \in InDirectory(c.what, held.advisor) |->
                                 [banned |-> held.banned[u], advisor |-> held.advisor[u]]]]}
    /\ staffLog' = [staffLog EXCEPT !.unlisted = {}]
    /\ UNCHANGED <<held, modal, section>>

ArriveDirectory(c) ==
    /\ c.kind = "list" /\ c.rows # NoSheet
    /\ section' = [section EXCEPT !.rows = c.rows]
    /\ staffCalls' = staffCalls \ {c}
    /\ UNCHANGED <<held, modal, staffLog>>

FailDirectory(c) ==
    /\ c.kind = "list" /\ Spend("troubles")
    /\ section' = [section EXCEPT !.rows = [u \in {} |-> NoSheet], !.error = TRUE]
    /\ staffCalls' = staffCalls \ {c}
    /\ UNCHANGED <<held, modal>>

-----------------------------------------------------------------------------
(* The views *)

Blank == [details |-> NoSheet, accounts |-> NoSheet, items |-> NoSheet, range |-> "all",
          loading |-> FALSE, error |-> FALSE, acting |-> FALSE, overlap |-> FALSE]

\* The stack becomes s: the component on top stays if its type does, and loads what its
\* properties now name.
Show(s, cs) ==
    LET top == Last(s)
        stays == Open /\ s # <<>> /\ top.type = Top.type
        inst == IF stays THEN modal.inst ELSE modal.inst + 1
        base == IF Open THEN modal.base ELSE inst
        old == IF stays THEN modal.view ELSE Blank
        load == s # <<>> /\ top.type \in {"user", "account"} /\ ~(stays /\ top.user = Top.user)
        kind == IF top.type = "user" THEN "details" ELSE "lines"
    IN  IF ~load
        THEN /\ modal' = [stack |-> s, inst |-> inst, base |-> base, view |-> old]
             /\ staffCalls' = cs
        ELSE /\ modal' = [stack |-> s, inst |-> inst, base |-> base,
                          view |-> [old EXCEPT !.loading = TRUE, !.error = FALSE,
                                      !.overlap = \E c \in cs : c.kind \in Loads /\ c.inst = inst]]
             /\ staffCalls' = cs \cup {[StaffCall(kind, top.user, "all") EXCEPT !.inst = inst,
                                                                     !.depth = Len(s)]}

\* What the view on top lets its user act on.
Shown == Open /\ ~modal.view.loading /\ ~modal.view.error
Sheet == modal.view.details
SheetShown == Shown /\ Top.type = "user" /\ Sheet # NoSheet
IsClient(u) == u \in Clients

OpenSheet(u) ==
    /\ ~Open /\ u \in DOMAIN section.rows
    /\ Spend("moves") /\ Show(<<View("user", u)>>, staffCalls)
    /\ UNCHANGED <<held, section>>

\* The advisor of the client shown, or a client of the advisor shown.
OpenUser(u) ==
    /\ SheetShown /\ u \in Sheet.links
    /\ Spend("moves") /\ Show(Append(modal.stack, View("user", u)), staffCalls)
    /\ UNCHANGED <<held, section>>

OpenAccount ==
    /\ SheetShown /\ IsClient(Sheet.id) /\ modal.view.accounts # NoSheet
    /\ Spend("moves") /\ Show(Append(modal.stack, View("account", modal.view.accounts)), staffCalls)
    /\ UNCHANGED <<held, section>>

\* The buttons of the sheet: a director's, or those of the client's own advisor.
OpenChange(type) ==
    /\ SheetShown /\ ~modal.view.acting /\ IsClient(Sheet.id)
    /\ \/ type = "reassign" /\ staffLog.actor = "director"
       \/ /\ type = "request" /\ staffLog.actor = "advisor"
          /\ ~Sheet.banned /\ Sheet.advisor = ThisAdvisor /\ ~Sheet.pending
    /\ Spend("moves")
    /\ Show(Append(modal.stack, [View(type, Sheet.id) EXCEPT !.advisor = Sheet.advisor]), staffCalls)
    /\ UNCHANGED <<held, section>>

Back ==
    /\ Len(modal.stack) > 1
    /\ Spend("moves") /\ Show(Front(modal.stack), staffCalls)
    /\ UNCHANGED <<held, section>>

CloseSheet ==
    /\ Open
    /\ Spend("moves") /\ Show(<<>>, staffCalls)
    /\ UNCHANGED <<held, section>>

-----------------------------------------------------------------------------
(* Loading a view *)

\* assertCanViewUser, assertCanViewClientBanking.
MayView(u) ==
    \/ staffLog.actor = "director"
    \/ u = ThisAdvisor
    \/ IsClient(u) /\ held.advisor[u] = ThisAdvisor

\* getUserDetails.
ServeDetails(c) ==
    /\ c.kind = "details" /\ c.got = NoSheet /\ MayView(c.user)
    /\ staffCalls' = (staffCalls \ {c}) \cup
          {[c EXCEPT !.got =
              IF IsClient(c.user)
              THEN [id |-> c.user, banned |-> held.banned[c.user], advisor |-> held.advisor[c.user],
                    pending |-> c.user \in held.pending, links |-> {held.advisor[c.user]}]
              ELSE [id |-> c.user, banned |-> FALSE, advisor |-> NoSheet, pending |-> FALSE,
                    links |-> {u \in Clients : held.advisor[u] = c.user}]]}
    /\ staffLog' = IF c.inst = modal.inst THEN [staffLog EXCEPT !.unread = @ \ {c.user}]
                   ELSE staffLog
    /\ UNCHANGED <<held, modal, section>>

\* The load of the sheet goes on with the accounts of a client; a load that follows a
\* change ends with onDataChanged.
AfterLoad(cs, c) ==
    IF c.reload THEN LoadList(cs, section.term)
    ELSE staffCalls' = cs /\ UNCHANGED section

ArriveDetails(c) ==
    /\ c.kind = "details" /\ c.got # NoSheet
    /\ LET mine == c.inst = modal.inst
           rest == staffCalls \ {c}
       IN  IF IsClient(c.user)
           THEN /\ staffCalls' = rest \cup {[c EXCEPT !.kind = "accounts", !.got = NoSheet]}
                /\ modal' = IF mine THEN [modal EXCEPT !.view.details = c.got] ELSE modal
                /\ UNCHANGED section
           ELSE /\ modal' = IF mine THEN [modal EXCEPT !.view.details = c.got,
                                                       !.view.loading = FALSE,
                                                       !.view.acting = @ /\ ~c.reload]
                            ELSE modal
                /\ AfterLoad(rest, c)
    /\ UNCHANGED <<held, staffLog>>

\* The accounts of a client, or the lines of an account in a range, which nothing the
\* page knows of changes: served when they arrive.
ArriveContents(c) ==
    /\ c.kind \in {"accounts", "lines"} /\ MayView(c.user)
    /\ modal' = IF c.inst # modal.inst THEN modal
                ELSE IF c.kind = "accounts"
                THEN [modal EXCEPT !.view.accounts = c.user, !.view.loading = FALSE,
                                   !.view.acting = @ /\ ~c.reload]
                ELSE [modal EXCEPT !.view.items = c.what, !.view.loading = FALSE]
    /\ AfterLoad(staffCalls \ {c}, c)
    /\ UNCHANGED <<held, staffLog>>

\* A load fails, or the client is no longer the advisor's: an error instead of the sheet or
\* the lines, no accounts.
FailLoad(c) ==
    /\ c.kind \in Loads
    /\ \/ Spend("troubles")
       \/ c.got = NoSheet /\ ~MayView(c.user) /\ UNCHANGED staffLog
    /\ modal' = IF c.inst # modal.inst THEN modal
                ELSE [modal EXCEPT !.view.loading = FALSE, !.view.acting = @ /\ ~c.reload,
                        !.view.error = c.kind # "accounts" \/ @,
                        !.view.accounts = IF c.kind = "accounts" THEN NoSheet ELSE @]
    /\ AfterLoad(staffCalls \ {c}, c)
    /\ UNCHANGED held

\* Another period of the lines: loaded at once, whatever is under way.
SelectRange(r) ==
    /\ Open /\ Top.type = "account" /\ r # modal.view.range
    /\ Spend("searches")
    /\ modal' = [modal EXCEPT !.view.range = r, !.view.loading = TRUE, !.view.error = FALSE,
                              !.view.overlap = \E c \in staffCalls : IsLoad(c)]
    /\ staffCalls' = staffCalls \cup {StaffCall("lines", Top.user, r)}
    /\ UNCHANGED <<held, section>>

-----------------------------------------------------------------------------
(* Changing *)

Own == {"ban", "unban", "reassign", "request"}

\* toggleBan, of a client: which of the two is said by the sheet.
ToggleBan ==
    /\ SheetShown /\ ~modal.view.acting /\ staffLog.actor = "director" /\ IsClient(Sheet.id)
    /\ Spend("changes")
    /\ modal' = [modal EXCEPT !.view.acting = TRUE]
    /\ staffCalls' = staffCalls \cup {StaffCall(IF Sheet.banned THEN "unban" ELSE "ban", Sheet.id, Top.user)}
    /\ UNCHANGED <<held, section>>

\* choose and submit; the candidates leave out the advisor the sheet showed.
SubmitChange(advisor) ==
    /\ Open /\ ~modal.view.acting
    /\ \/ Top.type = "reassign" /\ advisor # Top.advisor
       \/ Top.type = "request" /\ advisor = ThisAdvisor
    /\ Spend("changes")
    /\ modal' = [modal EXCEPT !.view.acting = TRUE]
    /\ staffCalls' = staffCalls \cup {StaffCall(Top.type, Top.user, advisor)}
    /\ UNCHANGED <<held, section>>

Changed(u) == [staffLog EXCEPT !.unread = @ \cup {u}, !.unlisted = @ \cup {u}]

\* A request of a ban is pending already, or the client is banned or another's; or the
\* advisor chosen is his advisor already.
Denied(c) ==
    \/ /\ c.kind = "request"
       /\ c.user \in held.pending \/ held.banned[c.user] \/ held.advisor[c.user] # ThisAdvisor
    \/ c.kind = "reassign" /\ held.advisor[c.user] = c.what

\* BanUserUseCase, UnbanUserUseCase, reassign, BanRequestsService.create.
ServeOwn(c) ==
    /\ c.kind \in Own /\ c.got = NoSheet
    /\ ~Denied(c)
    /\ held' = CASE c.kind = "ban" -> [held EXCEPT !.banned[c.user] = TRUE]
                 [] c.kind = "unban" -> [held EXCEPT !.banned[c.user] = FALSE]
                 [] c.kind = "reassign" -> [held EXCEPT !.advisor[c.user] = c.what]
                 [] c.kind = "request" -> [held EXCEPT !.pending = @ \cup {c.user}]
    /\ staffCalls' = (staffCalls \ {c}) \cup {[c EXCEPT !.got = c.user]}
    /\ UNCHANGED <<modal, section, staffLog>>

\* After a ban: load(), of the user the sheet was opened for, then onDataChanged.
ArriveBan(c) ==
    /\ c.kind \in {"ban", "unban"} /\ c.got # NoSheet
    /\ LET rest == staffCalls \ {c}
       IN  /\ staffCalls' = rest \cup {[c EXCEPT !.kind = "details", !.user = c.what, !.what = "all",
                                            !.reload = TRUE, !.got = NoSheet]}
           /\ modal' = IF c.inst # modal.inst THEN modal
                       ELSE [modal EXCEPT !.view.loading = TRUE, !.view.error = FALSE,
                              !.view.overlap = c.what # Top.user \/ \E d \in rest : IsLoad(d)]
    /\ staffLog' = IF c.inst = modal.inst /\ c.user = c.what THEN staffLog ELSE Changed(c.user)
    /\ UNCHANGED <<held, section>>

\* onDone: onDataChanged, and pop(), of whatever view is on top by then if the modal has
\* not been closed.
ArriveDone(c) ==
    /\ c.kind \in {"reassign", "request"} /\ c.got # NoSheet
    /\ LET rest == (staffCalls \ {c}) \cup {ListCall(section.term)}
       IN  IF Len(modal.stack) > 1 /\ c.inst >= modal.base THEN Show(Front(modal.stack), rest)
           ELSE staffCalls' = rest /\ UNCHANGED modal
    /\ section' = [section EXCEPT !.overlap = Listing(staffCalls), !.error = FALSE]
    /\ staffLog' = IF c.inst = modal.inst THEN staffLog
                   ELSE [staffLog EXCEPT !.unread = @ \cup {c.user}]
    /\ UNCHANGED held

\* Failed, or done with the answer lost: an error, and the view as it was.
FailOwn(c) ==
    /\ c.kind \in Own
    /\ staffLog.left.troubles > 0
    /\ modal' = IF c.inst = modal.inst THEN [modal EXCEPT !.view.acting = FALSE] ELSE modal
    /\ staffCalls' = staffCalls \ {c}
    /\ staffLog' = [Changed(c.user) EXCEPT !.left.troubles = @ - 1]
    /\ UNCHANGED <<held, section>>

RefuseOwn(c) ==
    /\ c.kind \in Own /\ c.got = NoSheet /\ Denied(c)
    /\ modal' = IF c.inst = modal.inst THEN [modal EXCEPT !.view.acting = FALSE] ELSE modal
    /\ staffCalls' = staffCalls \ {c}
    /\ UNCHANGED <<held, section, staffLog>>

\* Another director or administrator, or the director who decides the request.
ChangedElsewhere(u) ==
    /\ staffLog.left.troubles > 0
    /\ \/ held' = [held EXCEPT !.banned[u] = ~@, !.pending = @ \ {u}]
       \/ \E a \in Advisors \ {held.advisor[u]} : held' = [held EXCEPT !.advisor[u] = a]
    /\ staffLog' = [Changed(u) EXCEPT !.left.troubles = @ - 1]
    /\ UNCHANGED <<modal, section, staffCalls>>

-----------------------------------------------------------------------------
StaffInit ==
    /\ held = [banned |-> [u \in Clients |-> FALSE], advisor |-> [u \in Clients |-> ThisAdvisor],
               pending |-> {}]
    /\ modal = [stack |-> <<>>, inst |-> 1, base |-> 1, view |-> Blank]
    /\ section = [term |-> "", timer |-> FALSE, rows |-> [u \in {} |-> NoSheet],
                  overlap |-> FALSE, error |-> FALSE]
    /\ staffCalls = {ListCall("")}
    /\ \E b \in StaffBounds, actor \in {"advisor", "director"} :
          /\ actor \in b.actors
          /\ staffLog = [actor |-> actor, left |-> b, unread |-> {}, unlisted |-> {}]

StaffNext ==
    \/ \E t \in Terms : TypeTerm(t)
    \/ SearchTimer
    \/ \E u \in Clients \cup Advisors : OpenSheet(u) \/ OpenUser(u)
    \/ OpenAccount \/ Back \/ CloseSheet
    \/ \E type \in {"reassign", "request"} : OpenChange(type)
    \/ \E r \in Ranges : SelectRange(r)
    \/ ToggleBan
    \/ \E a \in Advisors : SubmitChange(a)
    \/ \E c \in staffCalls :
          \/ ServeDirectory(c) \/ ArriveDirectory(c) \/ FailDirectory(c)
          \/ ServeDetails(c) \/ ArriveDetails(c) \/ ArriveContents(c) \/ FailLoad(c)
          \/ ServeOwn(c) \/ ArriveBan(c) \/ ArriveDone(c) \/ FailOwn(c) \/ RefuseOwn(c)
    \/ \E u \in Clients : ChangedElsewhere(u)

StaffSpec == StaffInit /\ [][StaffNext]_staffVars

-----------------------------------------------------------------------------
\* What a director or advisor can act on is what its title names: the sheet and the
\* accounts are those of the user it was opened for and the lines those of the period
\* chosen, unless one load of the view began during another, or followed a ban asked for
\* on the sheet before.
ViewsAreOfTheirUser ==
    Shown /\ ~modal.view.overlap =>
        /\ Top.type = "user" => /\ Sheet.id = Top.user
                                /\ IsClient(Sheet.id) => modal.view.accounts \in {Sheet.id, NoSheet}
        /\ Top.type = "account" => modal.view.items = modal.view.range

\* Once all is answered, a sheet tells the ban, the advisor and the pending request that
\* the server holds, after the actor's own changes too; unless the change was made by
\* somebody else, its answer was lost, or it came when the view it was asked from was left.
SheetIsCurrent ==
    staffCalls = {} /\ SheetShown /\ ~modal.view.overlap /\ IsClient(Sheet.id)
    /\ Sheet.id \notin staffLog.unread =>
        /\ Sheet.banned = held.banned[Sheet.id] /\ Sheet.advisor = held.advisor[Sheet.id]
        /\ Sheet.pending <=> Sheet.id \in held.pending

\* So does the list, of the clients the search names, unless two loads of it overlapped.
ListIsCurrent ==
    staffCalls = {} /\ ~section.timer /\ ~section.error /\ ~section.overlap /\ staffLog.unlisted = {} =>
        /\ DOMAIN section.rows = InDirectory(section.term, held.advisor)
        /\ \A u \in DOMAIN section.rows : section.rows[u].banned = held.banned[u]

StaffPagesCatchUp == ViewsAreOfTheirUser /\ SheetIsCurrent /\ ListIsCurrent

-----------------------------------------------------------------------------
(* The inductive invariant, from which ScreensProofs has the properties *)

CallFields == {"kind", "user", "what", "inst", "depth", "reload", "got", "rows"}
SheetFields == {"details", "accounts", "items", "range", "loading", "error", "acting", "overlap"}
SectionFields == {"term", "timer", "rows", "overlap", "error"}
StaffLogFields == {"actor", "left", "unread", "unlisted"}

Users == Clients \cup Advisors \cup {ThisAdvisor}
AdvisorOrNone == Advisors \cup {ThisAdvisor, NoSheet}
ViewRows == [type : Views, user : Users, advisor : AdvisorOrNone]

\* The type of the view from which a request of this kind is made.
ViewOf(kind) ==
    IF kind \in {"details", "accounts", "ban", "unban"} THEN "user"
    ELSE IF kind = "lines" THEN "account" ELSE kind

CallOK(c) ==
    /\ DOMAIN c = CallFields /\ c.inst \in Nat /\ c.inst <= modal.inst
    /\ c.kind \in {"list", "details", "accounts", "lines"} \cup Own
    /\ c.kind = "list" => c.inst = 0
    /\ c.reload => c.kind \in {"details", "accounts"}
    /\ c.kind \in Own \cup {"accounts"} => c.user \in Clients
    /\ c.kind = "reassign" => c.what \in Advisors
    /\ c.kind = "details" /\ c.got # NoSheet => c.got.id = c.user /\ c.got.advisor \in AdvisorOrNone
    /\ c.inst = modal.inst => Open /\ Top.type = ViewOf(c.kind)

\* Only a sheet is below another view; a change is of a client.
Stacked(s) ==
    /\ s \in Seq(ViewRows)
    /\ \A i \in 1..Len(s) : i = 1 \/ i < Len(s) => s[i].type = "user"
    /\ \A i \in 1..Len(s) : s[i].type \in {"reassign", "request"} => s[i].user \in Clients
StackOK ==
    /\ Stacked(modal.stack)
    /\ modal.inst \in Nat /\ modal.inst > 0 /\ modal.base \in Nat
    /\ Open => modal.base <= modal.inst

HeldOK ==
    /\ DOMAIN held = {"banned", "advisor", "pending"}
    /\ DOMAIN held.banned = Clients
    /\ held.advisor \in [Clients -> Advisors \cup {ThisAdvisor}]

StaffTypeOK ==
    /\ HeldOK /\ StackOK
    /\ DOMAIN modal = {"stack", "inst", "base", "view"} /\ DOMAIN modal.view = SheetFields
    /\ modal.view.accounts \in Clients \cup {NoSheet}
    /\ modal.view.details # NoSheet => modal.view.details.advisor \in AdvisorOrNone
    /\ DOMAIN section = SectionFields /\ DOMAIN staffLog = StaffLogFields
    /\ \A c \in staffCalls : CallOK(c)

\* The one load under way, if none overlapped it, is of the view on top; without one the
\* view shows what it is of.
LoadsOne(c) ==
    /\ modal.view.loading
    /\ \A d \in staffCalls : IsLoad(d) => d = c
    /\ c.kind = "lines" => c.what = modal.view.range
    /\ c.kind \in {"details", "accounts"} => c.user = Top.user
    /\ c.kind = "accounts" => Sheet.id = c.user
ContentsOfTop ==
    /\ Top.type = "user" =>
          /\ Sheet.id = Top.user
          /\ IsClient(Sheet.id) => modal.view.accounts \in {Sheet.id, NoSheet}
    /\ Top.type = "account" => modal.view.items = modal.view.range
SheetLoads ==
    Open /\ ~modal.view.overlap =>
        /\ \A c \in staffCalls : IsLoad(c) => LoadsOne(c)
        /\ ~modal.view.loading /\ ~modal.view.error => ContentsOfTop

\* The sheet, the answer with the sheet or the one to come is of what the server holds, or
\* the user was changed since in a way that is known of.
SheetTells(s, u) ==
    /\ s.banned = held.banned[u] /\ s.advisor = held.advisor[u]
    /\ s.pending <=> u \in held.pending
ChangeKnown(u) ==
    \/ u \in staffLog.unread
    \/ \E d \in staffCalls : d.kind \in Own /\ d.user = u /\ d.got # NoSheet
LoadsSheet(c) == c.kind = "details" /\ c.inst = modal.inst
SheetComes ==
    Open /\ ~modal.view.overlap /\ Top.type = "user" /\ Top.user \in Clients =>
        \/ ChangeKnown(Top.user)
        \/ \E c \in staffCalls : LoadsSheet(c) /\ (c.got = NoSheet \/ SheetTells(c.got, Top.user))
        \/ /\ \A c \in staffCalls : ~LoadsSheet(c)
           /\ modal.view.error \/ SheetTells(Sheet, Top.user)

\* So with the list; a load of it follows a change when its answer has come.
Lists(rows) ==
    /\ DOMAIN rows = InDirectory(section.term, held.advisor)
    /\ \A u \in DOMAIN rows : rows[u].banned = held.banned[u]
ListToCome(c) == (c.kind \in Own /\ c.got # NoSheet) \/ c.reload
DirectoryComes ==
    ~section.overlap =>
        /\ \A c, d \in staffCalls : c.kind = "list" /\ d.kind = "list" => c = d
        /\ \A c \in staffCalls : c.kind = "list" => section.timer \/ c.what = section.term
        /\ \/ section.timer \/ section.error \/ staffLog.unlisted # {}
           \/ \E c \in staffCalls : ListToCome(c)
           \/ \E c \in staffCalls :
                 c.kind = "list" /\ c.what = section.term /\ (c.rows = NoSheet \/ Lists(c.rows))
           \/ ~Listing(staffCalls) /\ Lists(section.rows)

StaffInv == StaffTypeOK /\ SheetLoads /\ SheetComes /\ DirectoryComes
=============================================================================
