------------------------------- MODULE Typing -------------------------------
(***************************************************************************)
(* The typing indicator between two members of the same conversations: the  *)
(* composer of the one who writes (notifyTyping), the typing sets of his    *)
(* gateway, and the set useChat keeps in the browser of the one who reads.  *)
(*                                                                         *)
(* Neither the composer nor useChat is made anew when another conversation  *)
(* is selected: the text, the flag that "start" was sent, the timer of      *)
(* "stop" and the indicator shown outlive it.  Rooms once joined are not    *)
(* left either.                                                             *)
(*                                                                         *)
(* Events keep their order here, as they do within one gateway; the bus     *)
(* between two of them may change it (ChatCluster).                         *)
(***************************************************************************)
EXTENDS Naturals, Sequences

CONSTANTS
    Talks, FirstTalk,   \* conversations both take part in; both select one first
    TypingBounds,       \* bounds: keys, switches, troubles
    NoTalk              \* no timer is set

ASSUME TalksAssumption == FirstTalk \in Talks /\ NoTalk \notin Talks

VARIABLES
    typist,     \* talk selected, on line, text written, start sent, conversation
                \* the timer will stop
    typingUsers,\* his gateway: for each talk no set yet, or whether he is in it
    watcher,    \* talk selected, on line, rooms joined, joins sent, indicator shown
    typingLine, \* emits of the typist and events to the watcher, both in order
    typingLog   \* history, and what is left of the bounds

typingVars == <<typist, typingUsers, watcher, typingLine, typingLog>>

Spending(what) ==
    /\ typingLog.left[what] > 0
    /\ typingLog' = [typingLog EXCEPT !.left[what] = @ - 1]
Emits(es) == typingLine' = [typingLine EXCEPT !.up = @ \o es]
TypingStart(c) == [do |-> "start", talk |-> c]
TypingStop(c) == [do |-> "stop", talk |-> c]

\* History: the start of one conversation, whose timer gives way to another's.
Elsewhere == typist.timer \notin {NoTalk, typist.talk}

-----------------------------------------------------------------------------
(* The one who writes; the composer is disabled while he is off line *)

\* notifyTyping: start once, unless the text is blank, and one more second before the
\* stop, which is that of the conversation of this key.
TypeKey(text) ==
    /\ typist.on /\ typingLog.left["keys"] > 0
    /\ typingLog' = [typingLog EXCEPT !.left["keys"] = @ - 1, !.abandoned = @ \/ Elsewhere]
    /\ Emits(IF text /\ ~typist.started THEN <<TypingStart(typist.talk)>> ELSE <<>>)
    /\ typist' = [typist EXCEPT !.text = text, !.started = @ \/ text, !.timer = typist.talk]
    /\ UNCHANGED <<typingUsers, watcher>>

\* The second has passed, on line or not: Socket.IO keeps an emit until it is.
TimerStops ==
    /\ typist.timer # NoTalk
    /\ Emits(<<TypingStop(typist.timer)>>)
    /\ typist' = [typist EXCEPT !.started = FALSE, !.timer = NoTalk]
    /\ UNCHANGED <<typingUsers, watcher, typingLog>>

\* handleSend.
SendLine ==
    /\ typist.on /\ typist.text
    /\ Emits(<<[do |-> "send", talk |-> typist.talk], TypingStop(typist.talk)>>)
    /\ typist' = [typist EXCEPT !.text = FALSE, !.started = FALSE, !.timer = NoTalk]
    /\ typingLog' = [typingLog EXCEPT !.abandoned = @ \/ Elsewhere]
    /\ UNCHANGED <<typingUsers, watcher>>

TypistSwitches(c) ==
    /\ c # typist.talk /\ Spending("switches")
    /\ typist' = [typist EXCEPT !.talk = c]
    /\ UNCHANGED <<typingUsers, watcher, typingLine>>

\* The conversation selected turns out to be frozen: the composer gives way to a banner
\* and its timer is cleared.
UnmountComposer ==
    /\ typist.text \/ typist.timer # NoTalk
    /\ typingLog.left["troubles"] > 0
    /\ typingLog' = [typingLog EXCEPT !.left["troubles"] = @ - 1,
                                      !.lost = @ \/ typist.timer # NoTalk]
    /\ typist' = [typist EXCEPT !.text = FALSE, !.started = FALSE, !.timer = NoTalk]
    /\ UNCHANGED <<typingUsers, watcher, typingLine>>

\* Mutant: the sets are deleted with the last who typed, and a later stop tells nobody.
DropAndDelete ==
    /\ typist.on /\ typingLog.left["troubles"] > 0
    /\ typingLog' = [typingLog EXCEPT !.left["troubles"] = @ - 1,
                                      !.lost = @ \/ typingLine.up # <<>>]
    /\ typist' = [typist EXCEPT !.on = FALSE]
    /\ typingUsers' = [c \in Talks |-> "none"]
    /\ typingLine' = [typingLine EXCEPT !.up = <<>>]
    /\ UNCHANGED watcher

\* handleDisconnect forgets that he types and tells nobody; what was on its way is lost.
DropTypist ==
    /\ typist.on /\ typingLog.left["troubles"] > 0
    /\ typingLog' = [typingLog EXCEPT !.left["troubles"] = @ - 1,
                                      !.lost = @ \/ typingLine.up # <<>>]
    /\ typist' = [typist EXCEPT !.on = FALSE]
    /\ typingUsers' = [c \in Talks |->
          IF typingUsers[c] = "typing" THEN "empty" ELSE typingUsers[c]]
    /\ typingLine' = [typingLine EXCEPT !.up = <<>>]
    /\ UNCHANGED watcher

\* To the gateway he was on, or to another, which has no set yet.
ConnectTypist ==
    /\ ~typist.on
    /\ typist' = [typist EXCEPT !.on = TRUE]
    /\ \/ UNCHANGED <<typingUsers, typingLog>>
       \/ /\ typingUsers' = [c \in Talks |-> "none"]
          /\ typingLog' = [typingLog EXCEPT !.lost = TRUE]
    /\ UNCHANGED <<watcher, typingLine>>

-----------------------------------------------------------------------------
(* The gateway *)

\* To the watcher's socket when it is in the room, on this gateway or by the bus.
Told(e, c) ==
    IF watcher.on /\ c \in watcher.rooms
    THEN [up |-> Tail(typingLine.up), down |-> Append(typingLine.down, e)]
    ELSE [typingLine EXCEPT !.up = Tail(@)]

handleTypingStart(c) ==
    /\ typingUsers' = [typingUsers EXCEPT ![c] = "typing"]
    /\ typingLine' = Told("user_typing", c)

\* Told to the room when there is a set, whether he is in it or not.
clearTyping(c) ==
    IF typingUsers[c] = "none"
    THEN UNCHANGED typingUsers /\ typingLine' = [typingLine EXCEPT !.up = Tail(@)]
    ELSE /\ typingUsers' = [typingUsers EXCEPT ![c] = "empty"]
         /\ typingLine' = Told("user_stopped_typing", c)

ServeEmit ==
    /\ typist.on /\ typingLine.up # <<>>
    /\ LET e == Head(typingLine.up)
       IN  \/ e.do = "start" /\ handleTypingStart(e.talk)
           \/ e.do \in {"stop", "send"} /\ clearTyping(e.talk)
    /\ UNCHANGED <<typist, watcher, typingLog>>

-----------------------------------------------------------------------------
(* The one who reads *)

\* handleUserTyping and handleUserStoppedTyping: whatever the conversation.
ArriveTyping ==
    /\ typingLine.down # <<>>
    /\ watcher' = [watcher EXCEPT !.shows = Head(typingLine.down) = "user_typing"]
    /\ typingLine' = [typingLine EXCEPT !.down = Tail(@)]
    /\ UNCHANGED <<typist, typingUsers, typingLog>>

WatcherSwitches(c) ==
    /\ c # watcher.talk /\ Spending("switches")
    /\ watcher' = [watcher EXCEPT !.talk = c, !.joins = IF watcher.on THEN @ \cup {c} ELSE @]
    /\ UNCHANGED <<typist, typingUsers, typingLine>>

ServeJoining(c) ==
    /\ c \in watcher.joins
    /\ watcher' = [watcher EXCEPT !.joins = @ \ {c}, !.rooms = @ \cup {c}]
    /\ UNCHANGED <<typist, typingUsers, typingLine, typingLog>>

DropWatcher ==
    /\ watcher.on /\ typingLog.left["troubles"] > 0
    /\ typingLog' = [typingLog EXCEPT !.left["troubles"] = @ - 1, !.deaf = TRUE]
    /\ watcher' = [watcher EXCEPT !.on = FALSE, !.rooms = {}, !.joins = {}]
    /\ typingLine' = [typingLine EXCEPT !.down = <<>>]
    /\ UNCHANGED <<typist, typingUsers>>

ConnectWatcher ==
    /\ ~watcher.on
    /\ watcher' = [watcher EXCEPT !.on = TRUE, !.joins = {watcher.talk}]
    /\ UNCHANGED <<typist, typingUsers, typingLine, typingLog>>

-----------------------------------------------------------------------------
TypingInit ==
    /\ typist = [talk |-> FirstTalk, on |-> TRUE, text |-> FALSE, started |-> FALSE,
                 timer |-> NoTalk]
    /\ typingUsers = [c \in Talks |-> "none"]
    /\ watcher = [talk |-> FirstTalk, on |-> FALSE, rooms |-> {}, joins |-> {}, shows |-> FALSE]
    /\ typingLine = [up |-> <<>>, down |-> <<>>]
    /\ \E b \in TypingBounds :
          typingLog = [left |-> b, abandoned |-> FALSE, lost |-> FALSE, deaf |-> FALSE]

TypingNext ==
    \/ TypeKey(TRUE) \/ TypeKey(FALSE) \/ TimerStops \/ SendLine \/ UnmountComposer \/ DropTypist \/ ConnectTypist
    \/ ServeEmit \/ ArriveTyping \/ DropWatcher \/ ConnectWatcher
    \/ \E c \in Talks : TypistSwitches(c) \/ WatcherSwitches(c) \/ ServeJoining(c)

TypingSpec == TypingInit /\ [][TypingNext]_typingVars

-----------------------------------------------------------------------------
AllTold ==
    /\ typist.timer = NoTalk /\ typist.on
    /\ typingLine.up = <<>> /\ typingLine.down = <<>>

\* Nobody is shown as typing for ever: once the stop is out and nothing is on its way the
\* indicator is gone, whatever both have selected since, but when the typist went on in
\* another conversation before the second had passed, when his composer was unmounted or
\* his connection lost what it carried, or when the reader was off line meanwhile.
TypingEnds ==
    AllTold /\ watcher.shows => typingLog.abandoned \/ typingLog.lost \/ typingLog.deaf

-----------------------------------------------------------------------------
(* The inductive invariant, from which ScreensProofs has the properties *)

TypingEmits == [do : {"start", "stop", "send"}, talk : Talks]
TypingEvents == {"user_typing", "user_stopped_typing"}

TypingTypeOK ==
    /\ DOMAIN typist = {"talk", "on", "text", "started", "timer"}
    /\ typist.talk \in Talks /\ typist.timer \in Talks \cup {NoTalk}
    /\ DOMAIN typingUsers = Talks
    /\ DOMAIN watcher = {"talk", "on", "rooms", "joins", "shows"}
    /\ watcher.on \in BOOLEAN /\ watcher.shows \in BOOLEAN
    /\ DOMAIN typingLine = {"up", "down"}
    /\ typingLine.up \in Seq(TypingEmits) /\ typingLine.down \in Seq(TypingEvents)
    /\ DOMAIN typingLog = {"left", "abandoned", "lost", "deaf"}
    /\ typingLog.abandoned \in BOOLEAN /\ typingLog.lost \in BOOLEAN /\ typingLog.deaf \in BOOLEAN

TypingExcused == typingLog.abandoned \/ typingLog.lost \/ typingLog.deaf

\* What the watcher will show once the events on their way have arrived.
WillShow ==
    IF typingLine.down = <<>> THEN watcher.shows
    ELSE typingLine.down[Len(typingLine.down)] = "user_typing"

\* The room of c has a set, and the watcher hears it.
Hears(c) == typingUsers[c] # "none" /\ watcher.on /\ c \in watcher.rooms

StopFrom(i, c) ==
    \E j \in DOMAIN typingLine.up :
        j >= i /\ typingLine.up[j].do \in {"stop", "send"} /\ typingLine.up[j].talk = c

\* A stop will be sent or is on its way, for what is shown ...
ShownEnds ==
    WillShow => \E c \in Talks : Hears(c) /\ (typist.timer = c \/ StopFrom(1, c))

\* ... and for each start behind which it comes.
StartsEnd ==
    \A i \in DOMAIN typingLine.up :
        typingLine.up[i].do = "start" =>
            \/ typist.timer = typingLine.up[i].talk
            \/ StopFrom(i, typingLine.up[i].talk)

TypingInv == TypingTypeOK /\ (TypingExcused \/ (ShownEnds /\ StartsEnd))
=============================================================================
