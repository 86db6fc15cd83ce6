-------------------------------- MODULE Bell --------------------------------
(***************************************************************************)
(* The notification centre (useNotifications, NotificationCenter), the      *)
(* pages that mark notifications read by what they show                     *)
(* (useClearNotificationsByTarget), and the rows behind them                *)
(* (NotificationsController, NotificationRepository).                       *)
(*                                                                         *)
(* The centre polls, with nothing that orders the answers, and marks read   *)
(* on the page after the server has answered, whatever it answered.  It is  *)
(* the only one to notice that a message has come: it then tells the list   *)
(* of conversations to read itself again.                                   *)
(***************************************************************************)
EXTENDS Naturals, FiniteSets

CONSTANTS
    MessageNotes, NewsNotes,  \* notifications of messages; of one news
    BellBounds,               \* bounds: notifications, gestures, troubles
    NoAnswer

ASSUME BellAssumption == BellBounds \subseteq [notes : Nat, gestures : Nat, troubles : Nat]

NoteIds == MessageNotes \cup NewsNotes

VARIABLES
    noteRow,    \* notifications: count 0 when the row is not there
    centre,     \* the list on the page and seenRef
    bellLine,   \* polls and requests under way
    bellLog     \* history, and what is left of the bounds

bellVars == <<noteRow, centre, bellLine, bellLog>>

Absent == [count |-> 0, read |-> FALSE]
Deleted == [count |-> 0, read |-> TRUE]   \* its id never comes back
Unread(list) == {n \in NoteIds : list[n].count > 0 /\ ~list[n].read}
MarkedRead(list, S) == [n \in NoteIds |-> IF n \in S THEN [list[n] EXCEPT !.read = TRUE] ELSE list[n]]

Use(what) ==
    /\ bellLog.left[what] > 0
    /\ bellLog' = [bellLog EXCEPT !.left[what] = @ - 1]

-----------------------------------------------------------------------------
(* Notifications come: a message adds to the one that is still unread *)

Notified(n) ==
    /\ Use("notes")
    /\ noteRow[n] = Absent \/ (n \in MessageNotes /\ n \in Unread(noteRow))
    /\ n \in MessageNotes => Unread(noteRow) \cap MessageNotes \subseteq {n}
    /\ noteRow' = [noteRow EXCEPT ![n].count = @ + 1]
    /\ UNCHANGED <<centre, bellLine>>

-----------------------------------------------------------------------------
(* Polling *)

Poll(by) == [by |-> by, got |-> NoAnswer]

\* Every ten seconds.
StartPoll ==
    /\ \A p \in bellLine.polls : p.by # "timer"
    /\ bellLine' = [bellLine EXCEPT !.polls = @ \cup {Poll("timer")}]
    /\ UNCHANGED <<noteRow, centre, bellLog>>

ServePoll(p) ==
    /\ p \in bellLine.polls /\ p.got = NoAnswer
    /\ bellLine' = [bellLine EXCEPT !.polls = (@ \ {p}) \cup {[p EXCEPT !.got = [list |-> noteRow]]}]
    /\ UNCHANGED <<noteRow, centre, bellLog>>

\* Mutant: a message added to a notification already seen is not noticed.
NewIds(list) ==
    IF centre.seen = NoAnswer THEN {}
    ELSE {n \in Unread(list) \cap MessageNotes : centre.seen.count[n] = 0}

\* fetchNotifications: a message notification that is new, or whose counter moved, is
\* told to the list of conversations; the first list tells nothing.
News2Tell(list) ==
    IF centre.seen = NoAnswer THEN {}
    ELSE {n \in Unread(list) \cap MessageNotes : centre.seen.count[n] # list[n].count}

ArrivePoll(p) ==
    /\ p \in bellLine.polls /\ p.got # NoAnswer
    /\ LET list == p.got.list
           at(n) == [note |-> n, count |-> list[n].count]
           known == IF centre.seen = NoAnswer THEN NoteIds ELSE {n \in NoteIds : list[n].read}
       IN  /\ centre' = [list |-> list, seen |-> [count |-> [n \in NoteIds |-> list[n].count]]]
           /\ bellLog' = [bellLog EXCEPT
                 !.told = @ \cup {at(n) : n \in (IF News2Tell(list) = {} THEN {} ELSE Unread(list))},
                 !.known = @ \cup {at(n) : n \in known}]
    /\ bellLine' = [bellLine EXCEPT !.polls = @ \ {p}]
    /\ UNCHANGED noteRow

\* An error of any kind is swallowed.
LosePoll(p) ==
    /\ p \in bellLine.polls /\ Use("troubles")
    /\ bellLine' = [bellLine EXCEPT !.polls = @ \ {p}]
    /\ UNCHANGED <<noteRow, centre>>

-----------------------------------------------------------------------------
(* Gestures: one, all, delete, and looking at the news itself *)

Request(what, S) == [do |-> what, notes |-> S, stage |-> "asked", hit |-> FALSE]

\* Bound: one request of a kind at a time.
Clicking(r) ==
    /\ Use("gestures")
    /\ \A q \in bellLine.acts : q.do # r.do
    /\ bellLine' = [bellLine EXCEPT !.acts = @ \cup {r}]
    /\ UNCHANGED <<noteRow, centre>>

MarkOne(n) == n \in Unread(centre.list) /\ Clicking(Request("one", {n}))
MarkAll == Unread(centre.list) # {} /\ Clicking(Request("all", NoteIds))
DeleteNote(n) == n \in Unread(centre.list) /\ Clicking(Request("delete", {n}))
\* The popup of the news is opened, from the feed or from a link.
LookAtNews == Clicking(Request("target", NewsNotes))

ServeRequest(r) ==
    /\ r \in bellLine.acts /\ r.stage = "asked"
    /\ LET hit == Unread(noteRow) \cap r.notes
       IN  /\ noteRow' = IF r.do = "delete"
                         THEN [n \in NoteIds |-> IF n \in r.notes THEN Deleted ELSE noteRow[n]]
                         ELSE MarkedRead(noteRow, hit)
           /\ bellLine' = [bellLine EXCEPT
                 !.acts = (@ \ {r}) \cup {[r EXCEPT !.stage = "done", !.hit = hit # {}]}]
    /\ UNCHANGED <<centre, bellLog>>

\* The answer, even one of an error: the page follows the gesture, for every
\* notification it shows now; a target that was marked makes the centre poll.
EndRequest(r) ==
    /\ r \in bellLine.acts /\ r.stage = "done"
    /\ centre' = CASE r.do = "target" -> centre
                   [] r.do = "delete" -> [centre EXCEPT !.list =
                        [n \in NoteIds |-> IF n \in r.notes THEN Deleted ELSE @[n]]]
                   [] OTHER -> [centre EXCEPT !.list = MarkedRead(@, {n \in r.notes : @[n].count > 0})]
    /\ bellLine' = [polls |-> bellLine.polls \cup (IF r.do = "target" /\ r.hit THEN {Poll("event")} ELSE {}),
                    acts |-> bellLine.acts \ {r}]
    /\ UNCHANGED <<noteRow, bellLog>>

\* An HTTP error, which the centre takes for an answer.
FailRequest(r) ==
    /\ r \in bellLine.acts /\ r.stage = "asked" /\ Use("troubles")
    /\ bellLine' = [bellLine EXCEPT !.acts = (@ \ {r}) \cup {[r EXCEPT !.stage = "done"]}]
    /\ UNCHANGED <<noteRow, centre>>

\* The network fails, before or after: the page does nothing.
LoseRequest(r) ==
    /\ r \in bellLine.acts /\ Use("troubles")
    /\ bellLine' = [bellLine EXCEPT !.acts = @ \ {r}]
    /\ UNCHANGED <<noteRow, centre>>

-----------------------------------------------------------------------------
BellInit ==
    /\ noteRow = [n \in NoteIds |-> Absent]
    /\ centre = [list |-> [n \in NoteIds |-> Absent], seen |-> NoAnswer]
    /\ bellLine = [polls |-> {}, acts |-> {}]
    /\ \E b \in BellBounds : bellLog = [left |-> b, told |-> {}, known |-> {}]

BellNext ==
    \/ \E n \in NoteIds : Notified(n) \/ MarkOne(n) \/ DeleteNote(n)
    \/ \E p \in bellLine.polls : ServePoll(p) \/ ArrivePoll(p) \/ LosePoll(p)
    \/ \E r \in bellLine.acts :
          ServeRequest(r) \/ EndRequest(r) \/ FailRequest(r) \/ LoseRequest(r)
    \/ StartPoll \/ MarkAll \/ LookAtNews

-----------------------------------------------------------------------------
\* No message slips by the list of conversations: what the centre shows as an unread
\* message was told to it, but what the first list held and what was once seen read.
MessagesAreTold ==
    \A n \in Unread(centre.list) \cap MessageNotes :
        [note |-> n, count |-> centre.list[n].count] \in bellLog.told \cup bellLog.known

\* What polling brings about in the end, although marking all read also marks what came
\* since the click, an error counts as an answer and polls cross.
CentreShowsRows == centre.list = noteRow
=============================================================================
