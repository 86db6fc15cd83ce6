------------------------------ MODULE ChatView ------------------------------
(***************************************************************************)
(* One browser with the conversations page open (useChat, useWebSocket,     *)
(* ChatDisplay, MessageComposer) against the messages in the tables and the *)
(* rooms of its socket.  The user looks at one conversation and may change; *)
(* the display is not keyed by the conversation, so what is shown, the      *)
(* socket and the text being written all stay.  Other members send too.     *)
(*                                                                         *)
(* Events of the socket arrive in order; requests and their answers do not. *)
(***************************************************************************)
EXTENDS Naturals, Sequences, FiniteSets, SequencesExt

CONSTANTS
    Conversations, First,   \* First is selected when the page opens
    Budgets,  \* bounds: messages, switches, failures and texts, and which
              \* conversations are frozen
    NoOne

ASSUME FirstAssumption == First \in Conversations

VARIABLES
    room,   \* server: messages stored, rooms of the socket, read pointers
    line,   \* emits, events, list requests and PATCHes on their way
    view,   \* the page
    past,   \* history of what explains a difference between them
    budget  \* what is left of the bounds

viewVars == <<room, line, view, past, budget>>

IsShown(m) == \E i \in DOMAIN view.shown : view.shown[i] = m
InOrder(S) ==
    [i \in 1..Cardinality(S) |-> CHOOSE m \in S : Cardinality({a \in S : a.n <= m.n}) = i]

\* Mutant: also while the tab is hidden.
MarkReadHidden(v) ==
    IF v.shown # <<>> /\ Last(v.shown).n # v.marked
    THEN {[conv |-> v.sel, n |-> Last(v.shown).n, served |-> FALSE]}
    ELSE {}

\* The effect of useChat that marks the conversation read, run when the messages
\* or the conversation change and when the tab becomes visible.
MarkRead(v) ==
    IF v.visible /\ v.shown # <<>> /\ Last(v.shown).n # v.marked
    THEN {[conv |-> v.sel, n |-> Last(v.shown).n, served |-> FALSE]}
    ELSE {}

\* History: what the user has had before his eyes.
Seen(v) == IF v.visible THEN {v.shown[i] : i \in DOMAIN v.shown} ELSE {}

\* The page after a change of what it shows, with that effect.
Render(v, l) ==
    /\ view' = v
    /\ line' = [l EXCEPT !.marks = @ \cup MarkRead(v)]
    /\ past' = [past EXCEPT !.seen = @ \cup Seen(v)]

-----------------------------------------------------------------------------
(* Looking *)

\* Another conversation is selected: its list is requested and, on line, its room joined.
\* (The emit of useWebSocket is a new function at each render, so the effect joins again
\* after every one: a join of a room already joined changes nothing modelled here.)
SwitchTo(c) ==
    /\ budget.switches > 0 /\ c # view.sel
    /\ budget' = [budget EXCEPT !.switches = @ - 1]
    /\ LET v == [view EXCEPT !.sel = c]
           l == [line EXCEPT
                   !.loads = @ \cup {[conv |-> c, got |-> NoOne]},
                   !.up = IF view.on THEN @ \cup {[do |-> "join", conv |-> c]} ELSE @]
       IN  Render(v, l)
    /\ UNCHANGED room

\* GET messages: the server reads, in the order of created_at.
ServeList(l) ==
    /\ l \in line.loads /\ l.got = NoOne
    /\ line' = [line EXCEPT !.loads =
          (@ \ {l}) \cup {[l EXCEPT !.got = InOrder({m \in room.store : m.conv = l.conv})]}]
    /\ UNCHANGED <<room, view, past, budget>>

\* loadMessages goes on: the list replaces what is shown, whatever is selected now.
ArriveList(l) ==
    /\ l \in line.loads /\ l.got # NoOne
    /\ LET v == [view EXCEPT !.shown = l.got]
           lost == {view.shown[i] : i \in DOMAIN view.shown} \ {l.got[i] : i \in DOMAIN l.got}
       IN  /\ view' = v
           /\ line' = [line EXCEPT !.loads = @ \ {l}, !.marks = @ \cup MarkRead(v)]
           /\ past' = [past EXCEPT !.seen = @ \cup Seen(v),
                                   !.gap = @ \cup lost]
    /\ UNCHANGED <<room, budget>>

\* The request fails, or its answer does: nothing is shown.
FailList(l) ==
    /\ l \in line.loads /\ budget.troubles > 0
    /\ budget' = [budget EXCEPT !.troubles = @ - 1]
    /\ view' = [view EXCEPT !.shown = <<>>]
    /\ line' = [line EXCEPT !.loads = @ \ {l}]
    /\ past' = [past EXCEPT !.gap = @ \cup {m \in room.store : m.conv = l.conv \/ IsShown(m)}]
    /\ UNCHANGED room

\* new_message: appended unless already there, whatever its conversation.
ArriveMessage ==
    /\ line.down # <<>>
    /\ LET m == Head(line.down)
           v == [view EXCEPT !.shown = IF IsShown(m) THEN @ ELSE Append(@, m)]
       IN  Render(v, [line EXCEPT !.down = Tail(@)])
    /\ UNCHANGED <<room, budget>>

HideTab ==
    /\ view.visible /\ budget.troubles > 0
    /\ budget' = [budget EXCEPT !.troubles = @ - 1]
    /\ view' = [view EXCEPT !.visible = FALSE]
    /\ UNCHANGED <<room, line, past>>

ShowTab ==
    /\ ~view.visible
    /\ Render([view EXCEPT !.visible = TRUE], line)
    /\ UNCHANGED <<room, budget>>

\* PATCH state: the pointer is written as it comes, even when it goes back and
\* even when the message is of another conversation.
ServeMark(k) ==
    /\ k \in line.marks /\ ~k.served
    /\ room' = [room EXCEPT !.read[k.conv] = k.n]
    /\ line' = [line EXCEPT !.marks = (@ \ {k}) \cup {[k EXCEPT !.served = TRUE]}]
    /\ past' = [past EXCEPT !.astray =
          IF \E m \in room.store : m.n = k.n /\ m.conv # k.conv THEN @ \cup {k.conv} ELSE @]
    /\ UNCHANGED <<view, budget>>

ArriveMark(k) ==
    /\ k \in line.marks /\ k.served
    /\ view' = [view EXCEPT !.marked = k.n]
    /\ line' = [line EXCEPT !.marks = @ \ {k}]
    /\ UNCHANGED <<room, past, budget>>

\* The request fails or its answer is lost: the reference is not moved, and the next
\* message or the return to the tab tries again.
LoseMark(k) ==
    /\ k \in line.marks /\ budget.troubles > 0
    /\ budget' = [budget EXCEPT !.troubles = @ - 1]
    /\ line' = [line EXCEPT !.marks = @ \ {k}]
    /\ UNCHANGED <<room, view, past>>

-----------------------------------------------------------------------------
(* The socket *)

\* Mutant: the room is not joined again.
ConnectOnly ==
    /\ ~view.on
    /\ view' = [view EXCEPT !.on = TRUE]
    /\ UNCHANGED <<room, line, past, budget>>

\* 'connect': the room of the selected conversation is joined.
ConnectSocket ==
    /\ ~view.on
    /\ view' = [view EXCEPT !.on = TRUE]
    /\ line' = [line EXCEPT !.up = @ \cup {[do |-> "join", conv |-> view.sel]}]
    /\ UNCHANGED <<room, past, budget>>

\* The connection breaks: events and emits on their way are lost.
DropSocket ==
    /\ view.on /\ budget.troubles > 0
    /\ budget' = [budget EXCEPT !.troubles = @ - 1]
    /\ view' = [view EXCEPT !.on = FALSE]
    /\ room' = [room EXCEPT !.rooms = {}]
    /\ line' = [line EXCEPT !.up = {}, !.down = <<>>]
    /\ past' = [past EXCEPT
          !.gap = @ \cup {line.down[i] : i \in DOMAIN line.down},
          !.dropped = \/ @ \/ \E e \in line.up : e.do = "send"]

ServeJoin(c) ==
    /\ view.on /\ [do |-> "join", conv |-> c] \in line.up
    /\ room' = [room EXCEPT !.rooms = @ \cup {c}]
    /\ line' = [line EXCEPT !.up = @ \ {[do |-> "join", conv |-> c]}]
    /\ UNCHANGED <<view, past, budget>>

\* A message is stored and emitted to the room.  History: it is missed when the
\* browser is not listening and could not be: offline, joining, or elsewhere.
Stored(m, l) ==
    LET inRoom == m.conv \in room.rooms
        excused == \/ ~view.on
                   \/ m.conv # view.sel
                   \/ [do |-> "join", conv |-> m.conv] \in line.up
    IN  /\ room' = [room EXCEPT !.store = @ \cup {m}]
        /\ line' = IF inRoom THEN [l EXCEPT !.down = Append(@, m)] ELSE l
        /\ past' = IF ~inRoom /\ excused THEN [past EXCEPT !.gap = @ \cup {m}] ELSE past

NextMessage(c, own) == [n |-> Cardinality(room.store) + 1, conv |-> c, own |-> own]

OtherSends(c) ==
    /\ Cardinality(room.store) < budget.messages /\ c \notin budget.frozen
    /\ Stored(NextMessage(c, FALSE), line)
    /\ UNCHANGED <<view, budget>>

-----------------------------------------------------------------------------
(* Writing *)

\* The text area is disabled only while files are being uploaded.
Write ==
    /\ view.text = "none" /\ view.sending = NoOne
    /\ budget.texts > 0
    /\ budget' = [budget EXCEPT !.texts = @ - 1]
    /\ view' = [view EXCEPT !.text = "typed"]
    /\ UNCHANGED <<room, line, past>>

\* Each emit is one of its own, also of the same text to the same conversation.
Emitted(c) == [line EXCEPT !.up = @ \cup {[do |-> "send", conv |-> c, nth |-> past.cleared]}]

\* handleSend without files: emitted at once and the composer is cleared.
SendText ==
    /\ view.text = "typed" /\ view.sending = NoOne /\ view.on
    /\ line' = Emitted(view.sel)
    /\ view' = [view EXCEPT !.text = "none"]
    /\ past' = [past EXCEPT !.cleared = @ + 1]
    /\ UNCHANGED <<room, budget>>

\* handleSend with files: the upload is awaited with the conversation of the click.
StartUpload ==
    /\ view.text = "typed" /\ view.sending = NoOne /\ view.on
    /\ view' = [view EXCEPT !.sending = view.sel]
    /\ UNCHANGED <<room, line, past, budget>>

EndUpload ==
    /\ view.sending # NoOne
    /\ line' = Emitted(view.sending)
    /\ view' = [view EXCEPT !.text = "none", !.sending = NoOne]
    /\ past' = [past EXCEPT !.cleared = @ + 1]
    /\ UNCHANGED <<room, budget>>

FailUpload ==
    /\ view.sending # NoOne /\ budget.troubles > 0
    /\ budget' = [budget EXCEPT !.troubles = @ - 1]
    /\ view' = [view EXCEPT !.sending = NoOne]
    /\ UNCHANGED <<room, line, past>>

\* handleSendMessage on the server; the answer to the emit is not read.
ServeSend(e) ==
    /\ view.on /\ e \in line.up /\ e.do = "send"
    /\ Cardinality(room.store) < budget.messages
    /\ LET l == [line EXCEPT !.up = @ \ {e}]
       IN  IF e.conv \in budget.frozen
           THEN /\ line' = l
                /\ past' = [past EXCEPT !.refused = @ + 1]
                /\ UNCHANGED room
           ELSE Stored(NextMessage(e.conv, TRUE), l)
    /\ UNCHANGED <<view, budget>>

-----------------------------------------------------------------------------
ViewInit ==
    /\ room = [store |-> {}, rooms |-> {}, read |-> [c \in Conversations |-> 0]]
    /\ line = [up |-> {}, down |-> <<>>, marks |-> {},
               loads |-> {[conv |-> First, got |-> NoOne]}]
    /\ view = [sel |-> First, shown |-> <<>>, on |-> FALSE, visible |-> TRUE,
               marked |-> 0, text |-> "none", sending |-> NoOne]
    /\ past = [seen |-> {}, gap |-> {}, astray |-> {}, dropped |-> FALSE,
               cleared |-> 0, refused |-> 0]
    /\ budget \in Budgets

ViewNext ==
    \/ \E c \in Conversations :
          SwitchTo(c) \/ ServeJoin(c) \/ OtherSends(c)
    \/ \E e \in line.up : ServeSend(e)
    \/ \E l \in line.loads : ServeList(l) \/ ArriveList(l) \/ FailList(l)
    \/ \E k \in line.marks : ServeMark(k) \/ ArriveMark(k) \/ LoseMark(k)
    \/ ArriveMessage \/ HideTab \/ ShowTab \/ ConnectSocket \/ DropSocket
    \/ Write \/ SendText \/ StartUpload \/ EndUpload \/ FailUpload

ViewSpec == ViewInit /\ [][ViewNext]_viewVars

-----------------------------------------------------------------------------
Settled ==
    /\ view.on /\ line.down = <<>> /\ line.loads = {}
    /\ \A e \in line.up : e.do # "join"

\* Once nothing is on its way, every stored message of the selected conversation
\* is shown, unless it was emitted while this browser was offline, joining or in
\* another conversation, or a list read before it replaced it.
ViewMissesOnlyGaps ==
    Settled => \A m \in room.store :
        m.conv = view.sel => IsShown(m) \/ m \in past.gap

\* A message counts as read only when it was on the page: the unread badge never
\* hides a message nobody could see, but for those emitted in a gap and for a
\* pointer that a message of another conversation set.
ReadWasShown ==
    \A m \in room.store :
        ~m.own /\ m.n <= room.read[m.conv] =>
            m \in past.seen \/ m \in past.gap \/ m.conv \in past.astray

\* What the composer cleared was stored, is on its way, was refused by the server
\* or was lost with the connection: the answer to the emit is never read.
ClearedWasSent ==
    past.cleared = Cardinality({m \in room.store : m.own}) + past.refused
                   + Cardinality({e \in line.up : e.do = "send"})
    \/ past.dropped

-----------------------------------------------------------------------------
(* The inductive invariant, from which ScreensProofs has the properties *)

Numbered(S) ==
    /\ IsFiniteSet(S)
    /\ \A m \in S : m.n \in Nat
    /\ \A m, x \in S : m.n = x.n => m = x

ViewTypeOK ==
    /\ DOMAIN room = {"store", "rooms", "read"}
    /\ Numbered(room.store)
    /\ \A m \in room.store : m.conv \in Conversations /\ m.n <= Cardinality(room.store)
    /\ room.read \in [Conversations -> Nat]
    /\ \A c \in Conversations : room.read[c] <= Cardinality(room.store)
    /\ DOMAIN line = {"up", "down", "marks", "loads"}
    /\ line.down \in Seq(room.store)
    /\ \A l \in line.loads :
          /\ l = [conv |-> l.conv, got |-> l.got]
          /\ l.got # NoOne => l.got \in Seq(room.store)
    /\ DOMAIN view = {"sel", "shown", "on", "visible", "marked", "text", "sending"}
    /\ view.sel \in Conversations /\ view.on \in BOOLEAN /\ view.visible \in BOOLEAN
    /\ view.shown \in Seq(room.store)
    /\ DOMAIN past = {"seen", "gap", "astray", "dropped", "cleared", "refused"}

\* The socket is in the room of the conversation selected, or is joining it.
InRoomOrJoining ==
    view.on => view.sel \in room.rooms \/ [do |-> "join", conv |-> view.sel] \in line.up

\* A stored message is shown, on its way, or was missed in a gap.
StoredIsKnown == room.store \subseteq past.gap \cup Range(view.shown) \cup Range(line.down)

\* Events keep the order of the messages ...
EventsInOrder == \A i, j \in DOMAIN line.down : i < j => line.down[i].n < line.down[j].n

\* ... so one that is older than a message shown is shown too, ...
NothingBehind ==
    \A i \in DOMAIN view.shown, j \in DOMAIN line.down :
        line.down[j].conv = view.shown[i].conv /\ line.down[j].n < view.shown[i].n
            => line.down[j] \in Range(view.shown)

\* ... and a list has all that is older than one of its messages.
ListsAreFull ==
    \A l \in line.loads :
        l.got # NoOne =>
            \A x \in Range(l.got), m \in room.store :
                m.conv = x.conv /\ m.n < x.n => m \in Range(l.got)

\* A pointer on its way is that of a message, and if it is of its conversation what is
\* older was shown or missed in a gap.
Covers(k, known) ==
    /\ k = [conv |-> k.conv, n |-> k.n, served |-> k.served] /\ k.conv \in Conversations
    /\ \E x \in room.store : x.n = k.n
    /\ \A x, m \in room.store :
          x.n = k.n /\ x.conv = k.conv /\ m.conv = k.conv /\ m.n <= k.n => m \in known

MarksCover == \A k \in line.marks : Covers(k, past.seen \cup past.gap)

ViewInv ==
    ViewTypeOK /\ InRoomOrJoining /\ StoredIsKnown /\ EventsInOrder /\ NothingBehind
    /\ ListsAreFull /\ MarksCover /\ ReadWasShown
=============================================================================
