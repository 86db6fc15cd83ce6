------------------------------ MODULE Messages ------------------------------
(***************************************************************************)
(* One conversation of the chat in the tables: its messages, what each      *)
(* member has read and hidden (conversation_user_state), who muted it, and  *)
(* the notifications that announce its messages.                            *)
(*                                                                         *)
(* Several requests write the same rows without a transaction: sending a    *)
(* message (ChatGateway.handleSendMessage and SendMessageUseCase), marking  *)
(* the conversation read, hiding it, opening it again, muting it, and the   *)
(* side effects of a reassignment, which hide the frozen conversation of a  *)
(* client and his former advisor.  Each step below is one statement.        *)
(* TypeORM's save is two, a SELECT by id and an UPDATE of the columns that  *)
(* differ from the loaded entity, so that a stale entity writes back what   *)
(* it loaded.                                                               *)
(***************************************************************************)
EXTENDS Naturals, FiniteSets

CONSTANTS Users,    \* the members of a group
          Pair,     \* those of a private conversation, a client and his advisor
          Client,   \* the client
          Actors,   \* the members who call; the others only receive
          Settings, \* what may happen: in which conversation, failures, use of the bell
          Requests, \* executions
          Kinds,    \* what they do
          Nobody    \* null: no row, no date, no request

Request == [do : Kinds, user : Users]
StateRow == [read : Nat, hidden : Requests \cup {Nobody}]
MuteRow == [muted : BOOLEAN]
NoteId == [by : Requests, user : Users]
Note == [count : Nat, read : BOOLEAN]

ASSUME MessagesAssumption ==
    /\ Client \in Users /\ \E advisor \in Users \ {Client} : Pair = {Client, advisor}
    /\ Kinds \subseteq {"send", "read", "hide", "open", "mute", "unmute", "reassign"}
    /\ Actors \subseteq Users
    /\ Settings \subseteq [private : BOOLEAN, calls : Nat, failures : Nat, ringing : SUBSET Users]
    /\ Nobody \notin Requests \cup Users \cup Request \cup StateRow \cup MuteRow \cup NoteId \cup Note

VARIABLES
    setting,  \* bound: the private conversation of an advisor and a client or a group, how
              \* many requests come, how many of them may fail in the middle, who uses the
              \* bell; never changed
    assigned, \* advisor_clients still links them
    clock,    \* created_at of the last message begun
    at,       \* created_at of the message of each send, 0 when there is none
    messages, \* the sends whose message is committed
    state,    \* conversation_user_state of each member
    mute,     \* conversation_notification_settings of each member
    notes,    \* the notifications, by the send that created them and their owner
    req,      \* what each request asks for
    pc,       \* its next statement
    seen,     \* the row its last SELECT returned
    dirty,    \* the columns its save found different, or "insert"
    mine,     \* the entity it saves
    whom,     \* the member whose rows it is working on
    left,     \* the recipients a send has not come to
    outcome,  \* how it ended
    before,   \* pairs of requests of which one ended before the other came
    bell      \* members who read or deleted notifications in the bell

tables == <<assigned, clock, at, messages, state, mute, notes>>
locals == <<seen, dirty, mine, whom, left>>
history == <<outcome, before, bell>>
vars == <<setting, tables, req, pc, locals, history>>

private == setting.private
Members == IF private THEN Pair ELSE Users

Maybe(S) == S \cup {Nobody}
Columns == {"read", "hidden"}
SendStages == {"writable", "stamp", "insert", "clear", "settings", "find", "notify"}
SaveStages == {"allowed", "unlink", "load", "select", "write"}
ReadStages == {"findNote", "markNote"}
MuteStages == {"loadMute", "writeMute"}
Stages == {"idle", "done"} \cup SendStages \cup SaveStages \cup ReadStages \cup MuteStages

User(r) == req[r].user
At(r, stage) == pc[r] = stage
Goto(r, stage) == pc' = [pc EXCEPT ![r] = stage]

\* The request ends; what it had in memory goes with it.
End(r, how) ==
    /\ pc' = [pc EXCEPT ![r] = "done"]
    /\ outcome' = [outcome EXCEPT ![r] = how]
    /\ seen' = [seen EXCEPT ![r] = Nobody]
    /\ dirty' = [dirty EXCEPT ![r] = {}]
    /\ mine' = [mine EXCEPT ![r] = Nobody]
    /\ whom' = [whom EXCEPT ![r] = Nobody]
    /\ left' = [left EXCEPT ![r] = {}]
    /\ UNCHANGED <<req, before, bell>>

\* It goes on, keeping what it has in memory.
GoOn(r, stage) == Goto(r, stage) /\ UNCHANGED <<req, locals, history>>

-----------------------------------------------------------------------------

Init ==
    /\ setting \in Settings
    /\ assigned = TRUE
    /\ clock = 0
    /\ at = [r \in Requests |-> 0]
    /\ messages = {}
    /\ state = [u \in Users |-> Nobody]
    /\ mute = [u \in Users |-> Nobody]
    /\ notes = [n \in NoteId |-> Nobody]
    /\ req = [r \in Requests |-> Nobody]
    /\ pc = [r \in Requests |-> "idle"]
    /\ seen = [r \in Requests |-> Nobody]
    /\ dirty = [r \in Requests |-> {}]
    /\ mine = [r \in Requests |-> Nobody]
    /\ whom = [r \in Requests |-> Nobody]
    /\ left = [r \in Requests |-> {}]
    /\ outcome = [r \in Requests |-> "none"]
    /\ before = {}
    /\ bell = {}

FirstStage(do) ==
    CASE do = "send" -> "writable"
      [] do \in {"read", "hide"} -> "load"
      [] do = "open" -> "allowed"
      [] do = "reassign" -> "unlink"
      [] do \in {"mute", "unmute"} -> "loadMute"

\* Only groups are muted, only an advisor's client is reassigned; opening is
\* for private conversations.
Offered(q) ==
    /\ q.user \in Members \cap Actors
    /\ q.do \in {"mute", "unmute"} => ~private
    /\ q.do \in {"open", "reassign"} => private
    /\ q.do = "reassign" => q.user = Client

Submit(r) ==
    /\ At(r, "idle")
    /\ Cardinality({p \in Requests : ~At(p, "idle")}) < setting.calls
    /\ \E q \in Request :
        /\ Offered(q)
        /\ req' = [req EXCEPT ![r] = q]
        /\ Goto(r, FirstStage(q.do))
        /\ whom' = [whom EXCEPT ![r] = q.user]
    /\ before' = before \cup {<<p, r>> : p \in {p \in Requests : At(p, "done")}}
    /\ UNCHANGED <<setting, tables, seen, dirty, mine, left, outcome, bell>>

-----------------------------------------------------------------------------
(* Sending: the gateway's checks, then SendMessageUseCase. *)

Writable == private => assigned

CheckWritable(r) ==
    /\ At(r, "writable")
    /\ IF Writable THEN GoOn(r, "stamp") ELSE End(r, "refused")
    /\ UNCHANGED <<setting, tables>>

\* MessageRepository.create: created_at is the beginning of its transaction.
Stamp(r) ==
    /\ At(r, "stamp")
    /\ clock' = clock + 1
    /\ at' = [at EXCEPT ![r] = clock']
    /\ GoOn(r, "insert")
    /\ UNCHANGED <<setting, assigned, messages, state, mute, notes>>

Insert(r) ==
    /\ At(r, "insert")
    /\ messages' = messages \cup {r}
    /\ GoOn(r, "clear")
    /\ UNCHANGED <<setting, assigned, clock, at, state, mute, notes>>

\* Mutant: the new message leaves the conversation hidden.
ClearedNever == state

Cleared ==
    [u \in Users |-> IF state[u] = Nobody THEN Nobody
                       ELSE [state[u] EXCEPT !.hidden = Nobody]]

\* clearHiddenForConversation, then the list of participants.
ClearHidden(r) ==
    /\ At(r, "clear")
    /\ state' = Cleared
    /\ left' = [left EXCEPT ![r] = Members \ {User(r)}]
    /\ Goto(r, "settings")
    /\ UNCHANGED <<setting, assigned, clock, at, messages, mute, notes, req, seen, dirty,
                   mine, whom, history>>

Muted(u) == mute[u] # Nobody /\ mute[u].muted

\* The next recipient: skipped when he muted the conversation.
CheckMuted(r) ==
    /\ At(r, "settings")
    /\ \E u \in left[r] :
        /\ whom' = [whom EXCEPT ![r] = u]
        /\ left' = [left EXCEPT ![r] = @ \ {u}]
        /\ Goto(r, IF Muted(u) THEN "settings" ELSE "find")
    /\ UNCHANGED <<setting, tables, req, seen, dirty, mine, history>>

\* Nobody left: the message goes to the sockets and the sender is answered.
Answer(r) ==
    /\ At(r, "settings")
    /\ left[r] = {}
    /\ End(r, "ok")
    /\ UNCHANGED <<setting, tables>>

NotesOf(u) == {n \in NoteId : n.user = u /\ notes[n] # Nobody}
UnreadNotes(u) == {n \in NotesOf(u) : notes[n].read = FALSE}

\* Mutant: read notifications of the conversation are found too.
GroupedEver(u) == NotesOf(u)

Grouped(u) == UnreadNotes(u)

\* findUnreadByGroupKey: any one of them, there is no ORDER BY.
FindNote(r, stage, next) ==
    /\ At(r, stage)
    /\ \/ Grouped(whom[r]) = {} /\ seen' = [seen EXCEPT ![r] = Nobody]
       \/ \E n \in Grouped(whom[r]) : seen' = [seen EXCEPT ![r] = n]
    /\ Goto(r, next)
    /\ UNCHANGED <<setting, tables, req, dirty, mine, whom, left, history>>

FindGrouped(r) == FindNote(r, "find", "notify")

\* Mutant: each message creates its own notification.
AnnouncedAlone(r) ==
    [notes EXCEPT ![[by |-> r, user |-> whom[r]]] = [count |-> 1, read |-> FALSE]]

\* incrementGrouped on the notification it found, read or deleted since or
\* not, or a new notification.
Announced(r) ==
    IF seen[r] = Nobody
    THEN [notes EXCEPT ![[by |-> r, user |-> whom[r]]] = [count |-> 1, read |-> FALSE]]
    ELSE [n \in NoteId |-> IF n = seen[r] /\ notes[n] # Nobody
                           THEN [notes[n] EXCEPT !.count = @ + 1] ELSE notes[n]]

Notify(r) ==
    /\ At(r, "notify")
    /\ notes' = Announced(r)
    /\ GoOn(r, "settings")
    /\ UNCHANGED <<setting, assigned, clock, at, messages, state, mute>>

-----------------------------------------------------------------------------
(* The row of a member: upsert (read) and setHidden (hide, open, reassign). *)

\* OpenPrivateConversation: only an allowed contact, here his own advisor.
CheckAllowed(r) ==
    /\ At(r, "allowed")
    /\ IF assigned THEN GoOn(r, "load") ELSE End(r, "refused")
    /\ UNCHANGED <<setting, tables>>

\* replaceAdvisor commits; a request that finds them unlinked hides nothing.
Unlink(r) ==
    /\ At(r, "unlink")
    /\ assigned' = FALSE
    /\ IF assigned THEN GoOn(r, "load") ELSE End(r, "refused")
    /\ UNCHANGED <<setting, clock, at, messages, state, mute, notes>>

Load(r) ==
    /\ At(r, "load")
    /\ seen' = [seen EXCEPT ![r] = state[whom[r]]]
    /\ Goto(r, "select")
    /\ UNCHANGED <<setting, tables, req, dirty, mine, whom, left, history>>

\* What the request makes of the entity it loaded, or of a new one.
Entity(r) ==
    LET row == IF seen[r] = Nobody THEN [read |-> 0, hidden |-> Nobody] ELSE seen[r]
    IN CASE req[r].do = "read" -> [row EXCEPT !.read = clock]
         [] req[r].do \in {"hide", "reassign"} -> [row EXCEPT !.hidden = r]
         [] req[r].do = "open" -> [row EXCEPT !.hidden = Nobody]

\* save: the new uuid of a new entity finds nothing and becomes an INSERT.
Select(r) ==
    /\ At(r, "select")
    /\ mine' = [mine EXCEPT ![r] = Entity(r)]
    /\ dirty' = [dirty EXCEPT ![r] =
                    IF seen[r] = Nobody THEN {"insert"}
                    ELSE {c \in Columns : mine'[r][c] # state[whom[r]][c]}]
    /\ Goto(r, "write")
    /\ UNCHANGED <<setting, tables, req, seen, whom, left, history>>

\* UNIQUE (user_id, conversation_id).
Clash(r) == "insert" \in dirty[r] /\ state[whom[r]] # Nobody

Saved(r) ==
    IF "insert" \in dirty[r] THEN mine[r]
    ELSE [c \in Columns |-> IF c \in dirty[r] THEN mine[r][c] ELSE state[whom[r]][c]]

NextStage(r) ==
    CASE req[r].do = "read" -> "findNote"
      [] req[r].do = "reassign" /\ whom[r] = Client -> "load"
      [] OTHER -> "done"

\* A reassignment goes on with the former advisor.
Write(r) ==
    /\ At(r, "write")
    /\ IF Clash(r)
       THEN End(r, "error") /\ UNCHANGED state
       ELSE /\ state' = [state EXCEPT ![whom[r]] = Saved(r)]
            /\ IF NextStage(r) = "done" THEN End(r, "ok")
               ELSE /\ Goto(r, NextStage(r))
                    /\ \E u \in IF req[r].do = "reassign" THEN Members \ {Client} ELSE {User(r)} :
                          whom' = [whom EXCEPT ![r] = u]
                    /\ seen' = [seen EXCEPT ![r] = Nobody]
                    /\ mine' = [mine EXCEPT ![r] = Nobody]
                    /\ dirty' = [dirty EXCEPT ![r] = {}]
                    /\ UNCHANGED <<req, left, history>>
    /\ UNCHANGED <<setting, assigned, clock, at, messages, mute, notes>>

(* Marking the conversation read ends with its notification. *)

FindRead(r) == FindNote(r, "findNote", "markNote")

MarkRead(S) ==
    [n \in NoteId |-> IF n \in S /\ notes[n] # Nobody
                      THEN [notes[n] EXCEPT !.read = TRUE] ELSE notes[n]]

MarkNote(r) ==
    /\ At(r, "markNote")
    /\ notes' = MarkRead({seen[r]})
    /\ End(r, "ok")
    /\ UNCHANGED <<setting, assigned, clock, at, messages, state, mute>>

-----------------------------------------------------------------------------
(* Muting: settingsRepository.upsert. *)

LoadMute(r) ==
    /\ At(r, "loadMute")
    /\ seen' = [seen EXCEPT ![r] = mute[User(r)]]
    /\ Goto(r, "writeMute")
    /\ UNCHANGED <<setting, tables, req, dirty, mine, whom, left, history>>

WriteMute(r) ==
    /\ At(r, "writeMute")
    /\ IF seen[r] = Nobody /\ mute[User(r)] # Nobody
       THEN End(r, "error") /\ UNCHANGED mute
       ELSE /\ mute' = [mute EXCEPT ![User(r)] = [muted |-> req[r].do = "mute"]]
            /\ End(r, "ok")
    /\ UNCHANGED <<setting, assigned, clock, at, messages, state, notes>>

\* mutedUntil passes.
MuteExpires(u) ==
    /\ Muted(u)
    /\ mute' = [mute EXCEPT ![u] = [muted |-> FALSE]]
    /\ UNCHANGED <<setting, assigned, clock, at, messages, state, notes, req, pc, locals,
                   history>>

-----------------------------------------------------------------------------
(* The bell: markAsRead, markAllAsRead and deleteById, one statement each. *)

ReadInBell(u) ==
    /\ \E S \in SUBSET UnreadNotes(u) : S # {} /\ notes' = MarkRead(S)
    /\ bell' = bell \cup {u}
    /\ UNCHANGED <<setting, assigned, clock, at, messages, state, mute, req, pc, locals,
                   outcome, before>>

DeleteInBell(u) ==
    /\ \E n \in NotesOf(u) : notes' = [notes EXCEPT ![n] = Nobody]
    /\ bell' = bell \cup {u}
    /\ UNCHANGED <<setting, assigned, clock, at, messages, state, mute, req, pc, locals,
                   outcome, before>>

\* A statement fails, or the replica dies.
Fail(r) ==
    /\ pc[r] \notin {"idle", "done"}
    /\ Cardinality({p \in Requests : outcome[p] = "error"}) < setting.failures
    /\ End(r, "error")
    /\ UNCHANGED <<setting, tables>>

Next ==
    \/ \E r \in Requests :
        \/ Submit(r)
        \/ CheckWritable(r)
        \/ Stamp(r)
        \/ Insert(r)
        \/ ClearHidden(r)
        \/ CheckMuted(r)
        \/ Answer(r)
        \/ FindGrouped(r)
        \/ Notify(r)
        \/ CheckAllowed(r)
        \/ Unlink(r)
        \/ Load(r)
        \/ Select(r)
        \/ Write(r)
        \/ FindRead(r)
        \/ MarkNote(r)
        \/ LoadMute(r)
        \/ WriteMute(r)
        \/ Fail(r)
    \/ \E u \in Users : MuteExpires(u)
    \/ \E u \in setting.ringing : ReadInBell(u) \/ DeleteInBell(u)

Spec == Init /\ [][Next]_vars

-----------------------------------------------------------------------------
(* Properties. *)

(* The shape of the tables and of what a request has in memory.              *)
TypeOK ==
    /\ setting \in Settings /\ assigned \in BOOLEAN
    /\ clock \in Nat /\ at \in [Requests -> 0..clock]
    /\ \A r \in messages : at[r] > 0
    /\ state \in [Users -> Maybe(StateRow)]
    /\ \A u \in Users : state[u] # Nobody => state[u].read <= clock
    /\ mute \in [Users -> Maybe(MuteRow)]
    /\ notes \in [NoteId -> Maybe(Note)]
    /\ req \in [Requests -> Maybe(Request)]
    /\ pc \in [Requests -> Stages]
    /\ \A r \in Requests : pc[r] # "idle" => req[r] # Nobody
    /\ seen \in [Requests -> Maybe(StateRow \cup MuteRow \cup NoteId)]
    /\ dirty \in [Requests -> SUBSET (Columns \cup {"insert"})]
    /\ mine \in [Requests -> Maybe(StateRow)]
    /\ whom \in [Requests -> Maybe(Users)]
    /\ left \in [Requests -> SUBSET Users]
    /\ outcome \in [Requests -> {"none", "ok", "error", "refused"}]
    /\ before \subseteq Requests \X Requests
    /\ bell \subseteq Users

Submitted == {r \in Requests : req[r] # Nobody}
Of(kinds) == {r \in Submitted : req[r].do \in kinds}
Overlap(r, s) == r # s /\ <<r, s>> \notin before /\ <<s, r>> \notin before
WritesRow(u) ==
    {r \in Of({"read", "hide", "open", "reassign"}) : User(r) = u \/ req[r].do = "reassign"}

(* "La conversation reapparait automatiquement au prochain message recu"     *)
(* (chat.controller.ts): a conversation hidden before a message was sent is  *)
(* visible after it, unless another request of the member wrote his row back *)
(* while the message was being sent.                                         *)
HiddenComesBack == \A u \in Members : \A s \in Of({"send"}) :
    outcome[s] = "ok" /\ state[u] # Nobody =>
        LET h == state[u].hidden IN
        <<h, s>> \in before => \E q \in WritesRow(u) : Overlap(q, s)

LastRead(u) == IF state[u] = Nobody THEN 0 ELSE state[u].read
UnreadBy(u) == {s \in messages : User(s) # u /\ at[s] > LastRead(u)}

(* A member with an unread message has an unread notification of the         *)
(* conversation: a send and a request to mark it read lose neither the       *)
(* message's count nor its notification unless they overlap, or another      *)
(* request of the member wrote his old row back.                             *)
UnreadAnnounced == \A u \in Members \ bell : \A s \in UnreadBy(u) :
    /\ outcome[s] = "ok"
    /\ \A m \in Of({"mute"}) : User(m) # u
    => \/ UnreadNotes(u) # {}
       \/ \E q \in Of({"read"}) :
             User(q) = u /\ (Overlap(q, s) \/ \E p \in WritesRow(u) : Overlap(p, q))

(* The notifications of a conversation are grouped: a member has two unread  *)
(* ones only if the sends that created them overlapped.                      *)
OneNotificationUnlessOverlap == \A u \in Members : \A m, n \in UnreadNotes(u) :
    m # n => Overlap(m.by, n.by)

(* "masquee pour les DEUX participants" (advisor-reassignment.service.ts):   *)
(* after a reassignment the frozen conversation stays hidden, unless a       *)
(* request that overlapped it made it visible again.                         *)
FrozenStaysHidden == \A z \in Of({"reassign"}) : \A u \in Members :
    outcome[z] = "ok" =>
        \/ state[u] # Nobody /\ state[u].hidden # Nobody
        \/ \E q \in Of({"send"}) \cup WritesRow(u) : Overlap(q, z)

(* A conversation is hidden exactly as long as its members and the staff     *)
(* mean it to be, overlaps excepted: both of the promises about hidden_at.   *)
HiddenFlagsHold == TypeOK /\ HiddenComesBack /\ FrozenStaysHidden
=============================================================================
