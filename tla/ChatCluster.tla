---------------------------- MODULE ChatCluster ----------------------------
(***************************************************************************)
(* The chat gateways of all running API instances (chat.gateway.ts) and    *)
(* the Postgres LISTEN/NOTIFY bus between them (chat-cluster.bus.ts):      *)
(* sockets, the room of one conversation, room presence, online presence,  *)
(* the relay of a message and the disconnection of a banned user.          *)
(*                                                                         *)
(* An instance is never restarted under its own name: instanceId is a      *)
(* random UUID, so a restart is another member of Instances.               *)
(*                                                                         *)
(* A handler runs to its end in one step unless it awaits something.  The  *)
(* notifications in flight are a set from which any one is delivered: they *)
(* are sent through a pool of connections, so their order is not kept.     *)
(***************************************************************************)
EXTENDS Naturals, FiniteSets

CONSTANTS
    Instances,   \* API processes
    Users,
    Sockets,     \* Socket.IO connections; a reconnection is another socket
    Owner,       \* the user whose token the socket presents
    TTL,         \* PRESENCE_TTL_MS in heartbeat periods
    Bannable,    \* bound: users an administrator may ban
    Stories,     \* bound: which moves of the environment a behaviour makes,
                 \* with which sockets and how many joins and leaves of each
    MaxFlight,   \* bound: notifications in flight when somebody makes one
    MaxFaults,   \* bound: crashes, listener failures and failed publications
    None

ASSUME OwnerAssumption == Owner \in [Sockets -> Users]
ASSUME TTLAssumption == TTL \in Nat \ {0}
ASSUME NoneAssumption == None \notin [got : SUBSET Sockets, due : SUBSET Sockets]

VARIABLES
    may,       \* the story of this behaviour, never changed
    up,        \* per instance: "off" (not started), "on", "dead"
    listening, \* instances whose LISTEN connection is open
    rep,       \* the gateway's maps, per instance
    sock,      \* the browser side of every socket
    asked,     \* joins awaiting isMember
    wire,      \* notifications in flight
    banned,    \* users.is_banned
    kicks,     \* bans written whose disconnectUser is still to run
    beaten,    \* instances whose heartbeat timers fired in this period
    msg,       \* the message followed through the relay: the sockets that got it, and
               \* (history) those in the room when it was sent that have not left since
    faults,
    late,      \* history: users whose join ended after their socket had closed,
    overtaken, \* users taken out of the room by another of their tabs,
    slipped,   \* sockets whose handshake passed before the ban, connected after,
    unkicked,  \* instances that did not hear of a ban,
    unheard    \* instances that did not hear of the message

gatewayVars == <<up, listening, rep, wire>>
historyVars == <<late, overtaken, slipped, unkicked, unheard>>
clusterVars == <<may, up, listening, rep, sock, asked, wire, banned, kicks, beaten, msg,
          faults, historyVars>>

May(move) == move \in may.moves /\ Cardinality(wire) <= MaxFlight

-----------------------------------------------------------------------------
(* Presence *)

\* What another instance declared and how many periods ago.
Declared(us) == [users |-> us, age |-> 0]

\* A declaration older than PRESENCE_TTL_MS is deleted by whoever reads it.
Older(e) ==
    IF e.users = {} \/ e.age = TTL THEN Declared({})
    ELSE [e EXCEPT !.age = @ + 1]

NewGateway ==
    [conn |-> {}, rooms |-> {}, members |-> {}, last |-> {},
     peerPresence |-> [q \in Instances |-> Declared({})],
     peerOnline |-> [q \in Instances |-> Declared({})]]

localOnlineUserIds(g) == {Owner[s] : s \in g.conn}

onlineUserIds(g) ==
    localOnlineUserIds(g) \cup UNION {g.peerOnline[q].users : q \in Instances}

\* The union that emitPresence sends to the room.
merged(g) ==
    g.members \cup UNION {g.peerPresence[q].users : q \in Instances}

recomputeGlobalPresence(g) == [g EXCEPT !.last = onlineUserIds(g)]

-----------------------------------------------------------------------------
(* The bus: a notification to every other running instance *)

ToPeers(r, m) == {[m EXCEPT !.to = q] : q \in {p \in Instances \ {r} : up[p] = "on"}}
Note(r, type, users) == [to |-> None, from |-> r, type |-> type, users |-> users]

presenceState(r, g) == ToPeers(r, Note(r, "presence_state", g.members))
globalPresence(r, g) ==
    ToPeers(r, Note(r, "global_presence", localOnlineUserIds(g)))

-----------------------------------------------------------------------------
(* Sockets *)

\* Mutant: the rooms of the sockets are not left.
DisconnectKeepsRooms(r, closing) ==
    LET g1 == [rep[r] EXCEPT !.rooms = @ \ closing, !.conn = @ \ closing]
    IN  [g |-> recomputeGlobalPresence(g1), out |-> globalPresence(r, g1)]

\* handleDisconnect of one socket, or of all of a user one after the other: the new maps,
\* and what was published while some of them had gone.  The user leaves every room of
\* the socket, even one another of their tabs is in.
handleDisconnect(r, closing) ==
    LET inRoom == closing \cap rep[r].rooms
        left(gone) ==
            [rep[r] EXCEPT !.members = @ \ {Owner[s] : s \in inRoom},
                           !.rooms = @ \ closing, !.conn = @ \ gone]
    IN  [g |-> IF closing = {} THEN rep[r] ELSE recomputeGlobalPresence(left(closing)),
         out |-> (UNION {globalPresence(r, left(gone)) : gone \in (SUBSET closing) \ {{}}})
                 \cup (IF inRoom = {} THEN {} ELSE presenceState(r, left(closing)))]

\* History: a user taken out of the room while another of their tabs is in it.
OvertakenBy(r, closing) ==
    {<<r, Owner[s]>> : s \in {t \in closing \cap rep[r].rooms :
        \E o \in rep[r].rooms \ closing : Owner[o] = Owner[t]}}

\* History: the same by the leave of a socket, which need not be in the room itself.
LeftBehind(r, s) ==
    {<<r, Owner[o]>> : o \in {t \in rep[r].rooms \ {s} : Owner[t] = Owner[s]}}

\* The other end of the sockets that handleDisconnect took away.
CloseBrowserSide(r, closing) ==
    /\ sock' = [s \in Sockets |-> IF s \in closing
                   THEN [sock[s] EXCEPT !.st = "closed"] ELSE sock[s]]
    /\ overtaken' = overtaken \cup OvertakenBy(r, closing)
    /\ late' = late \ {<<r, Owner[s]>> : s \in closing \cap rep[r].rooms}

\* authenticate: the token is valid, the user exists and is not banned.
Authenticate(s, r) ==
    /\ May("open")
    /\ sock[s].st = "idle" /\ s \in may.sockets /\ up[r] = "on"
    /\ Owner[s] \notin banned
    /\ sock' = [sock EXCEPT ![s] = [@ EXCEPT !.st = "verified", !.at = r]]
    /\ UNCHANGED <<may, gatewayVars, asked, banned, kicks, beaten, msg, faults, historyVars>>

handleConnection(s) ==
    LET r == sock[s].at
        g1 == [rep[r] EXCEPT !.conn = @ \cup {s}]
    IN  /\ sock[s].st = "verified"
        /\ sock' = [sock EXCEPT ![s].st = "open"]
        /\ rep' = [rep EXCEPT ![r] = recomputeGlobalPresence(g1)]
        /\ wire' = wire \cup globalPresence(r, g1)
        /\ UNCHANGED <<may, up, listening, asked, banned, kicks, beaten, msg, faults, historyVars>>

\* The browser closes the tab or the connection breaks.
CloseTab(s) ==
    /\ May("close")
    /\ sock[s].st = "open"
    /\ LET r == sock[s].at
           d == handleDisconnect(r, {s})
       IN  /\ rep' = [rep EXCEPT ![r] = d.g]
           /\ wire' = wire \cup d.out
           /\ CloseBrowserSide(r, {s})
    /\ UNCHANGED <<may, up, listening, asked, banned, kicks, beaten, msg, faults,
                   slipped, unkicked, unheard>>

-----------------------------------------------------------------------------
(* The room of the conversation; every user is a member of it in the tables *)

\* handleJoinConversation up to the await of isMember.
AskJoin(s) ==
    /\ May("join")
    /\ sock[s].st = "open" /\ sock[s].asks < may.asks
    /\ s \notin asked
    /\ asked' = asked \cup {s}
    /\ sock' = [sock EXCEPT ![s].asks = @ + 1]
    /\ UNCHANGED <<may, gatewayVars, banned, kicks, beaten, msg, faults, historyVars>>

\* The rest of it, also when the socket has gone in the meantime: its user then
\* stays in roomMembers.
Join(s) ==
    LET r == sock[s].at
        open == sock[s].st = "open"
        g1 == IF s \in rep[r].rooms THEN rep[r]
              ELSE [rep[r] EXCEPT !.members = @ \cup {Owner[s]},
                                  !.rooms = IF open THEN @ \cup {s} ELSE @]
    IN  /\ s \in asked
        /\ asked' = asked \ {s}
        /\ rep' = [rep EXCEPT ![r] = g1]
        /\ wire' = wire \cup presenceState(r, g1)
        /\ late' = IF open THEN late ELSE late \cup {<<r, Owner[s]>>}
        /\ overtaken' = IF s \in rep[r].rooms THEN overtaken
                        ELSE overtaken \ {<<r, Owner[s]>>}
        /\ UNCHANGED <<may, up, listening, sock, banned, kicks, beaten, msg, faults,
                       slipped, unkicked, unheard>>

\* roomMembers has an entry for the room from the first join on the instance that went
\* through, and never loses it.
RoomMade(r) ==
    \E s \in Sockets :
        sock[s].at = r /\ sock[s].asks > Cardinality({s} \cap asked)

\* Also of a socket that is not in the room, as while its own join awaits isMember: the
\* user leaves the members, and the join still enters the room that was left.
handleLeaveConversation(s) ==
    LET r == sock[s].at
        g1 == [rep[r] EXCEPT !.rooms = @ \ {s}, !.members = @ \ {Owner[s]}]
    IN  /\ May("leave") /\ sock[s].st = "open" /\ \A t \in Sockets : sock[t].leaves < may.asks
        /\ sock' = [sock EXCEPT ![s].leaves = @ + 1]
        /\ rep' = [rep EXCEPT ![r] = g1]
        /\ wire' = wire \cup (IF RoomMade(r) THEN presenceState(r, g1) ELSE {})
        /\ overtaken' = overtaken \cup LeftBehind(r, s)
        /\ late' = late \ {<<r, Owner[s]>>}
        /\ msg' = IF msg = None THEN msg ELSE [msg EXCEPT !.due = @ \ {s}]
        /\ UNCHANGED <<may, up, listening, asked, banned, kicks, beaten, faults,
                       slipped, unkicked, unheard>>

\* Mutant: a message too large for a notification is not announced.
SendSmallOnly(s) ==
    LET r == sock[s].at
    IN  /\ May("send") /\ sock[s].st = "open" /\ msg = None
        /\ msg' = [got |-> rep[r].rooms,
                   due |-> UNION {rep[q].rooms : q \in Instances}]
        /\ wire' \in {wire, wire \cup ToPeers(r, Note(r, "new_message", {}))}
        /\ UNCHANGED <<may, up, listening, rep, sock, asked, banned, kicks, beaten,
                       faults, historyVars>>

\* The end of handleSendMessage: the room of this instance at once, the others
\* by the bus, with the message or a reference to it according to its size.
SendMessage(s) ==
    LET r == sock[s].at
    IN  /\ May("send") /\ sock[s].st = "open" /\ msg = None
        /\ msg' = [got |-> rep[r].rooms,
                   due |-> UNION {rep[q].rooms : q \in Instances}]
        /\ \E type \in {"new_message", "new_message_ref"} :
              wire' = wire \cup ToPeers(r, Note(r, type, {}))
        /\ UNCHANGED <<may, up, listening, rep, sock, asked, banned, kicks, beaten,
                       faults, historyVars>>

-----------------------------------------------------------------------------
(* A ban *)

SocketsOf(r, u) == {s \in rep[r].conn : Owner[s] = u}

\* History: handshakes that passed before the ban and are not yet connected
\* when the sockets are looked for.
Slipping(r, u) ==
    {s \in Sockets : Owner[s] = u /\ sock[s].st = "verified" /\ sock[s].at = r}

\* The row is written by a request on some instance.
Ban(u, r) ==
    /\ May("ban")
    /\ u \in Bannable \ banned /\ up[r] = "on"
    /\ banned' = banned \cup {u}
    /\ kicks' = kicks \cup {<<r, u>>}
    /\ UNCHANGED <<may, gatewayVars, sock, asked, beaten, msg, faults, historyVars>>

\* Mutant: only the sockets of this instance are disconnected.
DisconnectHere(r, u) ==
    /\ <<r, u>> \in kicks
    /\ kicks' = kicks \ {<<r, u>>}
    /\ LET d == handleDisconnect(r, SocketsOf(r, u))
       IN  /\ rep' = [rep EXCEPT ![r] = d.g]
           /\ wire' = wire \cup d.out
    /\ CloseBrowserSide(r, SocketsOf(r, u))
    /\ slipped' = slipped \cup Slipping(r, u)
    /\ UNCHANGED <<may, up, listening, asked, banned, beaten, msg, faults, unkicked, unheard>>

\* disconnectUser, which the same request calls afterwards.
disconnectUser(r, u) ==
    /\ <<r, u>> \in kicks
    /\ kicks' = kicks \ {<<r, u>>}
    /\ LET d == handleDisconnect(r, SocketsOf(r, u))
       IN  /\ rep' = [rep EXCEPT ![r] = d.g]
           /\ wire' = wire \cup d.out
                          \cup ToPeers(r, Note(r, "force_disconnect", {u}))
    /\ CloseBrowserSide(r, SocketsOf(r, u))
    /\ slipped' = slipped \cup Slipping(r, u)
    /\ UNCHANGED <<may, up, listening, asked, banned, beaten, msg, faults, unkicked, unheard>>

-----------------------------------------------------------------------------
(* The bus delivers, or does not *)

\* History: what a notification that is not handled would have done.
Missed(notes) ==
    /\ unkicked' = unkicked \cup
          {<<m.to, u>> : m \in {n \in notes : n.type = "force_disconnect"},
                        u \in UNION {n.users : n \in notes}}
    /\ unheard' = unheard \cup {m.to : m \in {n \in notes :
                        n.type \in {"new_message", "new_message_ref"}}}

Heard(m) == up[m.to] = "on" /\ m.to \in listening

\* handleBusMessage of a presence: remembered with its time, and emitted.
DeliverPresence(m) ==
    /\ Heard(m) /\ m.type \in {"presence_state", "global_presence"}
    /\ rep' = [rep EXCEPT ![m.to] =
                 IF m.type = "presence_state"
                 THEN [@ EXCEPT !.peerPresence[m.from] = Declared(m.users)]
                 ELSE recomputeGlobalPresence(
                          [@ EXCEPT !.peerOnline[m.from] = Declared(m.users)])]
    /\ wire' = wire \ {m}
    /\ UNCHANGED <<may, up, listening, sock, asked, banned, kicks, beaten, msg, faults, historyVars>>

\* handleBusMessage of a message: to the sockets in the room.
DeliverMessage(m) ==
    /\ Heard(m) /\ m.type \in {"new_message", "new_message_ref"}
    /\ msg' = [msg EXCEPT !.got = @ \cup rep[m.to].rooms]
    /\ wire' = wire \ {m}
    /\ UNCHANGED <<may, up, listening, rep, sock, asked, banned, kicks, beaten, faults, historyVars>>

\* handleBusMessage of a ban.
DeliverKick(m) ==
    LET u == CHOOSE v \in m.users : TRUE
    IN  /\ Heard(m) /\ m.type = "force_disconnect"
        /\ LET d == handleDisconnect(m.to, SocketsOf(m.to, u))
           IN  /\ rep' = [rep EXCEPT ![m.to] = d.g]
               /\ wire' = (wire \ {m}) \cup d.out
        /\ CloseBrowserSide(m.to, SocketsOf(m.to, u))
        /\ slipped' = slipped \cup Slipping(m.to, u)
        /\ UNCHANGED <<may, up, listening, asked, banned, kicks, beaten, msg, faults,
                       unkicked, unheard>>

\* Nobody listens: Postgres keeps nothing for a listener that is away.
DropNote(m) ==
    /\ ~Heard(m)
    /\ wire' = wire \ {m}
    /\ Missed({m})
    /\ UNCHANGED <<may, up, listening, rep, sock, asked, banned, kicks, beaten, msg,
                   faults, late, overtaken, slipped>>

\* pg_notify fails, or a message published by reference cannot be read.
FailNote(m) ==
    /\ May("fault")
    /\ faults < MaxFaults
    /\ faults' = faults + 1
    /\ LET copies == {n \in wire : [n EXCEPT !.to = m.to] = m}
       IN  wire' = wire \ copies /\ Missed(copies)
    /\ UNCHANGED <<may, up, listening, rep, sock, asked, banned, kicks, beaten, msg,
                   late, overtaken, slipped>>

\* scheduleReconnect: the LISTEN connection breaks and comes back later.
LoseListener(r) ==
    /\ May("fault")
    /\ faults < MaxFaults /\ r \in listening
    /\ faults' = faults + 1
    /\ listening' = listening \ {r}
    /\ UNCHANGED <<may, up, rep, sock, asked, wire, banned, kicks, beaten, msg, historyVars>>

connectListener(r) ==
    /\ up[r] = "on" /\ r \notin listening
    /\ listening' = listening \cup {r}
    /\ UNCHANGED <<may, up, rep, sock, asked, wire, banned, kicks, beaten, msg, faults, historyVars>>

-----------------------------------------------------------------------------
(* Instances and time *)

\* A fresh process; its first LISTEN may still be failing.
Start(r) ==
    /\ May("start")
    /\ up[r] = "off"
    /\ up' = [up EXCEPT ![r] = "on"]
    /\ UNCHANGED <<may, listening, rep, sock, asked, wire, banned, kicks, beaten, msg,
                   faults, historyVars>>

\* The process dies: no handleDisconnect runs, its bans are not announced.
Crash(r) ==
    LET mine == {k \in kicks : k[1] = r}
    IN  /\ May("crash") /\ faults < MaxFaults /\ up[r] = "on"
        /\ faults' = faults + 1
        /\ up' = [up EXCEPT ![r] = "dead"]
        /\ rep' = [rep EXCEPT ![r] = NewGateway]
        /\ sock' = [s \in Sockets |->
                       IF sock[s].at = r THEN [sock[s] EXCEPT !.st = "closed"] ELSE sock[s]]
        /\ asked' = {s \in asked : sock[s].at # r}
        /\ listening' = listening \ {r}
        /\ kicks' = kicks \ mine
        /\ unkicked' = unkicked \cup {<<q, k[2]>> : q \in Instances, k \in mine}
        /\ beaten' = beaten \ {r}
        /\ UNCHANGED <<may, wire, banned, msg, late, overtaken, slipped, unheard>>

\* Both timers of afterInit: rooms with members, then the users online.
Heartbeat(r) ==
    /\ up[r] = "on" /\ r \notin beaten /\ Cardinality(wire) <= MaxFlight
    /\ beaten' = beaten \cup {r}
    /\ rep' = [rep EXCEPT ![r] = recomputeGlobalPresence(@)]
    /\ wire' = wire \cup globalPresence(r, rep[r])
                    \cup (IF rep[r].members # {} THEN presenceState(r, rep[r]) ELSE {})
    /\ UNCHANGED <<may, up, listening, sock, asked, banned, kicks, msg, faults, historyVars>>

\* A heartbeat period passes: every timer has fired and, bound, what was
\* published during the period has arrived.
Period ==
    /\ \A r \in Instances : up[r] = "on" => r \in beaten
    /\ wire = {}
    /\ beaten' = {}
    /\ rep' = [r \in Instances |->
         [rep[r] EXCEPT
            !.peerPresence = [q \in Instances |-> Older(rep[r].peerPresence[q])],
            !.peerOnline = [q \in Instances |-> Older(rep[r].peerOnline[q])]]]
    /\ UNCHANGED <<may, up, listening, sock, asked, wire, banned, kicks, msg, faults, historyVars>>

-----------------------------------------------------------------------------
ClusterInit ==
    /\ up \in {f \in [Instances -> {"off", "on"}] : \E r \in Instances : f[r] = "on"}
    /\ may \in Stories
    /\ "start" \notin may.moves => \A r \in Instances : up[r] = "on"
    /\ listening = {r \in Instances : up[r] = "on"}
    /\ rep = [r \in Instances |-> NewGateway]
    /\ sock = [s \in Sockets |-> [st |-> "idle", at |-> None, asks |-> 0, leaves |-> 0]]
    /\ asked = {} /\ wire = {} /\ banned = {} /\ kicks = {} /\ beaten = {}
    /\ msg = None /\ faults = 0
    /\ late = {} /\ overtaken = {} /\ slipped = {} /\ unkicked = {} /\ unheard = {}

Deliver(m) == DeliverPresence(m) \/ DeliverMessage(m) \/ DeliverKick(m) \/ DropNote(m)

ClusterNext ==
    \/ \E s \in Sockets :
          \/ \E r \in Instances : Authenticate(s, r)
          \/ handleConnection(s) \/ CloseTab(s)
          \/ AskJoin(s) \/ Join(s) \/ handleLeaveConversation(s) \/ SendMessage(s)
    \/ \E u \in Users, r \in Instances : Ban(u, r) \/ disconnectUser(r, u)
    \/ \E m \in wire : Deliver(m) \/ FailNote(m)
    \/ \E r \in Instances :
          \/ LoseListener(r) \/ connectListener(r) \/ Start(r) \/ Crash(r) \/ Heartbeat(r)
    \/ Period

-----------------------------------------------------------------------------
Online == UNION {localOnlineUserIds(rep[r]) : r \in Instances}
Present == UNION {rep[r].members : r \in Instances}

\* What an instance announces of the room is what its sockets say: a member has a
\* socket in it and a socket in it has its user among the members.  Two ways out: a
\* join that was awaiting isMember when its socket closed leaves a ghost, which every
\* heartbeat announces again; leaving with one tab, even one that is still joining,
\* takes the user out for all.
RoomsMatchSockets ==
    \A r \in Instances :
        /\ \A u \in rep[r].members :
              (\E s \in rep[r].rooms : Owner[s] = u) \/ <<r, u>> \in late
        /\ \A s \in rep[r].rooms :
              Owner[s] \in rep[r].members \/ <<r, Owner[s]>> \in overtaken

\* A banned user has no connected socket on any instance once the request that
\* banned him and its announcements are through: but a socket whose handshake was
\* being checked when the sockets were looked for, and those of an instance that
\* heard nothing (its listener was away, the publication failed, the instance that
\* banned died first).
BannedAreOut ==
    \A r \in Instances : \A s \in rep[r].conn :
        Owner[s] \in banned =>
            \/ s \in slipped
            \/ <<r, Owner[s]>> \in unkicked
            \/ \E k \in kicks : k[2] = Owner[s]
            \/ \E m \in wire : m.to = r /\ m.type = "force_disconnect" /\ Owner[s] \in m.users

\* A socket that was in the room when a message was sent, and has stayed, gets it,
\* whatever instance it is on and whether the message travels whole or by
\* reference, unless the notification was lost on the way to that instance.
MessageReachesRoom ==
    msg # None =>
        \A r \in Instances : \A s \in rep[r].rooms \cap msg.due :
            \/ s \in msg.got
            \/ r \in unheard
            \/ \E m \in wire : m.to = r /\ m.type \in {"new_message", "new_message_ref"}

\* Every running instance shows the users connected anywhere as online and the members
\* of the room everywhere as present.  It does in the end: when users have stopped
\* coming and going, heartbeats and expiry repair what any loss, crash or reordering
\* left.
PresenceAgrees ==
    \A r \in Instances : up[r] = "on" =>
        rep[r].last = Online /\ merged(rep[r]) = Present
=============================================================================
