------------------------- MODULE ConversationsPage -------------------------
(***************************************************************************)
(* The list of conversations beside the display (ChatPageContainer,         *)
(* ConversationsList, NewGroupModal) and the use cases behind it: listing,  *)
(* hiding, opening a private conversation and creating a group, which       *)
(* writes the conversation and its members one row after the other; and     *)
(* messages of others, of which only the bell of this tab tells the page.   *)
(*                                                                         *)
(* The selection lives in the URL: router.replace changes it a while after  *)
(* it was called, and the list is read again by requests that nothing       *)
(* orders.  listByUser has no ORDER BY, so "the first" conversation is any. *)
(***************************************************************************)
EXTENDS Naturals, FiniteSets

CONSTANTS
    Me, Friends,       \* this user; who is put into a group
    Known, Fresh,      \* private conversations: in the list already; not yet opened
    Groups,            \* bound: groups that can be created
    MaxGestures,       \* bound: what this user and the others do
    MaxFailures,       \* bound: requests and statements that fail
    Nobody

ConversationIds == Known \cup {Fresh} \cup Groups

\* Nobody is neither a conversation, nor a hiding under way, nor an answer of the server.
ASSUME NobodyAssumption ==
    /\ Nobody \notin ConversationIds
    /\ Nobody \notin [conv : ConversationIds, sel : ConversationIds \cup {Nobody},
                     list : SUBSET ConversationIds, served : BOOLEAN]
    /\ Nobody \notin [list : SUBSET ConversationIds]

VARIABLES
    members,   \* conversation_participants, {} when the conversation has none
    hidden,    \* conversations this user has hidden
    page,      \* sel, nav: the URL, where it is going if it is; list: what is shown
    asking,    \* list requests, by what made them
    doing,     \* hide, open, group: what is under way of each
    notices,   \* sending: messages whose recipients are still to be notified; unread: a
               \* notification the bell has not found yet; seen: its first poll is over
    tale       \* history: bounds used, and what explains a list that is behind

pageVars == <<members, hidden, page, asking, doing, notices, tale>>

\* ListConversationsByUserUseCase: those he takes part in and has not hidden.
Visible == {c \in ConversationIds : Me \in members[c]} \ hidden

\* Both effects on the selection: none is replaced by the first conversation, and
\* so is one that is not in the list.
Reselect(p) ==
    IF p.list # {} /\ p.sel \notin p.list
    THEN \E c \in p.list : page' = [p EXCEPT !.nav = {c}]
    ELSE page' = p

Asking(by, then) == [by |-> by, then |-> then, got |-> Nobody, nth |-> 0]
CanAsk(by) == \A a \in asking : a.by # by

Gesture == tale.gestures < MaxGestures /\ tale' = [tale EXCEPT !.gestures = @ + 1]
\* Something fails, and the list is not read again by the one who asked.
Failure ==
    /\ tale.failures < MaxFailures
    /\ tale' = [tale EXCEPT !.failures = @ + 1, !.unaware = TRUE]

-----------------------------------------------------------------------------
(* The list and the URL *)

\* The router reaches the URL asked for last.
Navigate ==
    /\ page.nav # {}
    /\ Reselect([page EXCEPT !.sel = CHOOSE c \in page.nav : TRUE, !.nav = {}])
    /\ UNCHANGED <<members, hidden, asking, doing, tale, notices>>

ServeConversations(a) ==
    /\ a \in asking /\ a.got = Nobody
    /\ tale' = [tale EXCEPT !.served = @ + 1, !.unaware = FALSE]
    /\ asking' = (asking \ {a}) \cup
          {[a EXCEPT !.got = [list |-> Visible], !.nth = tale.served + 1]}
    /\ UNCHANGED <<members, hidden, page, doing, notices>>

\* refreshConversations goes on; the creation of a group then selects it.
ArriveConversations(a) ==
    /\ a \in asking /\ a.got # Nobody
    /\ asking' = asking \ {a}
    /\ LET p == [page EXCEPT !.list = a.got.list]
       IN  IF a.then = Nobody THEN Reselect(p) ELSE page' = [p EXCEPT !.nav = {a.then}]
    /\ tale' = [tale EXCEPT !.shown = a.nth]
    /\ UNCHANGED <<members, hidden, doing, notices>>

\* The error is logged and swallowed: what follows the refresh still happens.
FailConversations(a) ==
    /\ a \in asking /\ Failure
    /\ asking' = asking \ {a}
    /\ page' = IF a.then = Nobody THEN page ELSE [page EXCEPT !.nav = {a.then}]
    /\ UNCHANGED <<members, hidden, doing, notices>>

Select(c) ==
    /\ Gesture /\ c \in page.list
    /\ page' = [page EXCEPT !.nav = {c}]
    /\ UNCHANGED <<members, hidden, asking, doing, notices>>

\* Something the list shows changed and no event tells this page.
Untold ==
    /\ tale.gestures < MaxGestures
    /\ tale' = [tale EXCEPT !.gestures = @ + 1, !.unaware = TRUE]

\* Another tab of the user hides one, or he gets another advisor.
HiddenElsewhere(c) ==
    /\ Untold /\ c \in Visible
    /\ hidden' = hidden \cup {c}
    /\ UNCHANGED <<members, page, asking, doing, notices>>

\* Another tab opens it again, or a ban request that needs it does.
ShownElsewhere(c) ==
    /\ Untold /\ c \in hidden
    /\ hidden' = hidden \ {c}
    /\ UNCHANGED <<members, page, asking, doing, notices>>

\* Somebody else opens the conversation with him, or puts him into a group.
AddedByOthers(c) ==
    /\ Untold /\ members[c] = {} /\ c # doing.group
    /\ members' = [members EXCEPT ![c] = {Me}]
    /\ UNCHANGED <<hidden, page, asking, doing, notices>>

\* chat:read and a change of the mute read the list again.
ReadAgain ==
    /\ Gesture /\ CanAsk("event")
    /\ asking' = asking \cup {Asking("event", Nobody)}
    /\ UNCHANGED <<members, hidden, page, doing, notices>>

-----------------------------------------------------------------------------
(* A message of somebody else, and the bell of this tab, which polls *)

\* SendMessageUseCase shows the conversation again to all who had hidden it, ...
MessageComes(c) ==
    /\ Gesture /\ Me \in members[c] /\ c \notin notices.sending
    /\ hidden' = hidden \ {c}
    /\ notices' = [notices EXCEPT !.sending = @ \cup {c}]
    /\ UNCHANGED <<members, page, asking, doing>>

\* ... and then notifies this user, ...
NotifyRecipient(c) ==
    /\ c \in notices.sending
    /\ notices' = [notices EXCEPT !.sending = @ \ {c}, !.unread = TRUE]
    /\ UNCHANGED <<members, hidden, page, asking, doing, tale>>

\* ... unless he has muted the conversation, or a statement in between fails.
SkipRecipient(c) ==
    /\ c \in notices.sending
    /\ notices' = [notices EXCEPT !.sending = @ \ {c}]
    /\ tale' = [tale EXCEPT !.unaware = TRUE]
    /\ UNCHANGED <<members, hidden, page, asking, doing>>

\* fetchNotifications: the first poll only remembers what there is, a later one that
\* finds a count it does not remember emits chat:conversations-changed.
PollBell ==
    /\ notices.unread \/ ~notices.seen
    /\ notices' = [notices EXCEPT !.unread = FALSE, !.seen = TRUE]
    /\ IF notices.seen
       THEN /\ CanAsk("event") /\ asking' = asking \cup {Asking("event", Nobody)}
            /\ UNCHANGED tale
       ELSE /\ tale' = [tale EXCEPT !.unaware = IF notices.unread THEN TRUE ELSE @]
            /\ UNCHANGED asking
    /\ UNCHANGED <<members, hidden, page, doing>>

\* The notification is read, in another tab, before a poll of this one finds it.
ReadElsewhere ==
    /\ Untold /\ notices.unread
    /\ notices' = [notices EXCEPT !.unread = FALSE]
    /\ UNCHANGED <<members, hidden, page, asking, doing>>

-----------------------------------------------------------------------------
(* Hiding: PATCH hide, then the next visible conversation, then the list *)

AskHide(c) ==
    /\ Gesture /\ doing.hide = Nobody /\ c \in page.list
    /\ doing' = [doing EXCEPT !.hide =
          [conv |-> c, sel |-> page.sel, list |-> page.list, served |-> FALSE]]
    /\ UNCHANGED <<members, hidden, page, asking, notices>>

ServeHide ==
    /\ doing.hide # Nobody /\ ~doing.hide.served
    /\ hidden' = hidden \cup {doing.hide.conv}
    /\ doing' = [doing EXCEPT !.hide.served = TRUE]
    /\ UNCHANGED <<members, page, asking, tale, notices>>

\* handleHideConversation goes on with the selection and the list of the click.
EndHide ==
    /\ doing.hide # Nobody /\ doing.hide.served /\ CanAsk("hide")
    /\ LET others == doing.hide.list \ {doing.hide.conv}
       IN  IF doing.hide.conv # doing.hide.sel THEN UNCHANGED page
           ELSE \E c \in IF others = {} THEN {Nobody} ELSE others :
                  page' = [page EXCEPT !.nav = {c}]
    /\ asking' = asking \cup {Asking("hide", Nobody)}
    /\ doing' = [doing EXCEPT !.hide = Nobody]
    /\ UNCHANGED <<members, hidden, tale, notices>>

\* An error or a lost answer: neither the selection nor the list is touched.
FailHide ==
    /\ doing.hide # Nobody /\ Failure
    /\ doing' = [doing EXCEPT !.hide = Nobody]
    /\ UNCHANGED <<members, hidden, page, asking, notices>>

-----------------------------------------------------------------------------
(* Opening the conversation with a contact; a lock keeps it single *)

AskOpen ==
    /\ Gesture /\ doing.open = "no"
    /\ doing' = [doing EXCEPT !.open = "asked"]
    /\ UNCHANGED <<members, hidden, page, asking, notices>>

\* OpenPrivateConversationUseCase creates it, or finds and unhides it.
ServeOpen ==
    /\ doing.open = "asked"
    /\ doing' = [doing EXCEPT !.open = "served"]
    /\ members' = [members EXCEPT ![Fresh] = {Me}]
    /\ hidden' = hidden \ {Fresh}
    /\ UNCHANGED <<page, asking, tale, notices>>

\* onSuccess selects it first, the list is read again afterwards: the selection
\* may reach the URL while the list still lacks the conversation.
EndOpen ==
    /\ doing.open = "served" /\ CanAsk("contact")
    /\ doing' = [doing EXCEPT !.open = "no"]
    /\ page' = [page EXCEPT !.nav = {Fresh}]
    /\ asking' = asking \cup {Asking("contact", Nobody)}
    /\ UNCHANGED <<members, hidden, tale, notices>>

FailOpen ==
    /\ doing.open # "no" /\ Failure
    /\ doing' = [doing EXCEPT !.open = "no"]
    /\ UNCHANGED <<members, hidden, page, asking, notices>>

-----------------------------------------------------------------------------
(* Creating a group of this user and all Friends *)

AskGroup(g) ==
    /\ Gesture /\ doing.group = Nobody /\ members[g] = {}
    /\ doing' = [doing EXCEPT !.group = g, !.left = {Me} \cup Friends]
    /\ UNCHANGED <<members, hidden, page, asking, notices>>

\* One INSERT each: the creator first, in no transaction.
AddParticipant(u) ==
    /\ u \in doing.left
    /\ Me \in doing.left => u = Me
    /\ members' = [members EXCEPT ![doing.group] = @ \cup {u}]
    /\ doing' = [doing EXCEPT !.left = @ \ {u}]
    /\ UNCHANGED <<hidden, page, asking, tale, notices>>

\* A statement fails or the answer is lost: what was written stays, the dialog
\* stays open and the user may submit again, for a second group.
FailGroup ==
    /\ doing.group # Nobody /\ Failure
    /\ doing' = [doing EXCEPT !.group = Nobody, !.left = {}]
    /\ UNCHANGED <<members, hidden, page, asking, notices>>

\* handleCreateGroup: the event and the call itself both read the list again.
EndGroup ==
    /\ doing.group # Nobody /\ doing.left = {} /\ CanAsk("event") /\ CanAsk("group")
    /\ asking' = asking \cup {Asking("event", Nobody), Asking("group", doing.group)}
    /\ doing' = [doing EXCEPT !.group = Nobody]
    /\ UNCHANGED <<members, hidden, page, tale, notices>>

-----------------------------------------------------------------------------
PageInit ==
    /\ members = [c \in ConversationIds |-> IF c \in Known THEN {Me} ELSE {}]
    /\ hidden \in SUBSET Known
    /\ page = [sel |-> Nobody, nav |-> {}, list |-> {}]
    /\ asking = {Asking("mount", Nobody)}
    /\ doing = [hide |-> Nobody, open |-> "no", group |-> Nobody, left |-> {}]
    /\ notices = [sending |-> {}, unread |-> FALSE, seen |-> FALSE]
    /\ tale = [gestures |-> 0, failures |-> 0, unaware |-> FALSE, served |-> 0, shown |-> 0]

PageNext ==
    \/ Navigate \/ ServeHide \/ EndHide \/ FailHide \/ AskOpen \/ ServeOpen \/ EndOpen
    \/ FailOpen \/ FailGroup \/ EndGroup \/ ReadAgain \/ PollBell \/ ReadElsewhere
    \/ \E a \in asking :
          ServeConversations(a) \/ ArriveConversations(a) \/ FailConversations(a)
    \/ \E c \in ConversationIds :
          \/ Select(c) \/ AskHide(c)
          \/ HiddenElsewhere(c) \/ ShownElsewhere(c) \/ AddedByOthers(c)
          \/ MessageComes(c) \/ NotifyRecipient(c) \/ SkipRecipient(c)
    \/ \E g \in Groups : AskGroup(g)
    \/ \E u \in doing.left : AddParticipant(u)

PageSpec == PageInit /\ [][PageNext]_pageVars

-----------------------------------------------------------------------------
AtRest ==
    /\ page.nav = {} /\ asking = {}
    /\ doing.hide = Nobody /\ doing.open = "no" /\ doing.group = Nobody
    /\ notices.sending = {} /\ ~notices.unread

\* Once nothing is under way, and the bell has polled, a conversation of the list is
\* selected, or the list is empty, and the list is the server's: what the user did, and
\* a message that brought a conversation back, is in it.  But for an older answer that
\* arrived last, a request that failed, and what nothing tells this page since the
\* server last read the list: another tab, a reassignment, what others open, a message
\* of a muted conversation or one whose notification no poll found to be new.
PageCatchesUp ==
    AtRest =>
        /\ page.list # {} => page.sel \in page.list
        /\ \/ page.list = Visible
           \/ tale.shown < tale.served
           \/ tale.unaware

-----------------------------------------------------------------------------
(* The inductive invariant, from which ScreensProofs has the properties *)

\* What is under way of a hiding; what the server answers.
HideCalls ==
    [conv : ConversationIds, sel : ConversationIds \cup {Nobody}, list : SUBSET ConversationIds,
     served : BOOLEAN]
ListAnswers == [list : SUBSET ConversationIds]

AskRecord(a) ==
    /\ DOMAIN a = {"by", "then", "got", "nth"}
    /\ a.then \in ConversationIds \cup {Nobody}
    /\ a.got = Nobody \/ a.got \in ListAnswers
    /\ a.nth \in Nat

ListTypeOK ==
    /\ hidden \subseteq ConversationIds
    /\ DOMAIN page = {"sel", "nav", "list"}
    /\ page.sel \in ConversationIds \cup {Nobody} /\ page.nav \subseteq ConversationIds \cup {Nobody}
    /\ page.list \subseteq ConversationIds
    /\ \A a \in asking : AskRecord(a) /\ a.nth <= tale.served
    /\ DOMAIN doing = {"hide", "open", "group", "left"}
    /\ doing.hide = Nobody \/ doing.hide \in HideCalls
    /\ doing.group \in Groups \cup {Nobody} /\ (doing.group = Nobody => doing.left = {})
    /\ DOMAIN notices = {"sending", "unread", "seen"}
    /\ DOMAIN tale = {"gestures", "failures", "unaware", "served", "shown"}
    /\ tale.served \in Nat /\ tale.shown \in Nat /\ tale.shown <= tale.served

\* A conversation of the list is selected, or the URL is going to one.
OneSelected == page.list # {} /\ page.nav = {} => page.sel \in page.list

\* The list will be read again, or the page does not know that it should.
ToBeRead ==
    \/ tale.unaware
    \/ \E a \in asking : a.got = Nobody
    \/ doing.hide # Nobody \/ doing.open # "no" \/ doing.group # Nobody
    \/ notices.sending # {} \/ notices.unread

\* Otherwise the last answer, shown or on its way, is the list of the server.
LastIsCurrent ==
    \/ ToBeRead
    \/ /\ \A a \in asking : a.nth = tale.served => a.got.list = Visible
       /\ tale.shown = tale.served => page.list = Visible

ListInv == ListTypeOK /\ OneSelected /\ LastIsCurrent
=============================================================================
