------------------------- MODULE LiveUpdatesProofs -------------------------
(***************************************************************************)
(* The safety properties of the live updates, for any numbers of           *)
(* notifications, news, instances, sockets and users, and any bounds.      *)
(*                                                                         *)
(* Each part has an inductive invariant of its own; in a behaviour of one  *)
(* part the variables of the others do not move.                           *)
(***************************************************************************)
EXTENDS LiveUpdates, TLAPS

-----------------------------------------------------------------------------
(* The notification centre *)

NoteList == [NoteIds -> [count : Nat, read : BOOLEAN]]
Polls == [by : {"timer", "event"}, got : {NoAnswer} \cup [list : NoteList]]
Requests == [do : {"one", "all", "delete", "target"}, notes : SUBSET NoteIds,
             stage : {"asked", "done"}, hit : BOOLEAN]
Counted == [note : NoteIds, count : Nat]

BellTypeOK ==
    /\ noteRow \in NoteList
    /\ centre \in [list : NoteList, seen : {NoAnswer} \cup [count : [NoteIds -> Nat]]]
    /\ bellLine \in [polls : SUBSET Polls, acts : SUBSET Requests]
    /\ bellLog \in [left : [notes : Nat, gestures : Nat, troubles : Nat],
                    told : SUBSET Counted, known : SUBSET Counted]

\* What seenRef remembers of the message notifications was told, or needs no telling.
SeenIsTold ==
    centre.seen # NoAnswer =>
        \A n \in MessageNotes :
            centre.seen.count[n] > 0 =>
                [note |-> n, count |-> centre.seen.count[n]] \in bellLog.told \cup bellLog.known

BellInv == BellTypeOK /\ SeenIsTold /\ MessagesAreTold

-----------------------------------------------------------------------------
(* The feed *)

Gestures == {"archive", "dismiss", "unarchive"}
Statuses == {NoRow, "ARCHIVED", "DELETED"}
MaybeList == {NoList} \cup [list : SUBSET News]
Loads == [active : MaybeList, archive : MaybeList]
Acts == [do : Gestures, news : News, stage : {"asked", "found", "done"}, saw : Statuses,
         gen : Nat, heard : BOOLEAN]

FeedTypeOK ==
    /\ rows \in [live : SUBSET News, status : [News -> Statuses], gen : [News -> Nat]]
    /\ feed \in [news : SUBSET News, archived : SUBSET News, removed : SUBSET News,
                 open : BOOLEAN]
    /\ traffic \in [stream : MaybeList, loads : SUBSET Loads, acts : SUBSET Acts]
    /\ feedLog \in [left : [gestures : Nat, edits : Nat, troubles : Nat],
                    last : [News -> Gestures \cup {"none"}],
                    mixed : SUBSET News, cut : SUBSET News]

\* Unless requests of one news met or failed, it has one at most, of the last gesture,
\* and one that is done has written the row.
OneRequest ==
    \A a \in traffic.acts :
        a.news \notin feedLog.mixed =>
            /\ a.do = feedLog.last[a.news]
            /\ a.stage = "done" => Status(a.news) = StatusAfter(a.do)
            /\ \A b \in traffic.acts : b.news = a.news => b = a

\* Only an archive or a dismissal looks for the row first.
FoundToWrite == \A a \in traffic.acts : a.stage = "found" => a.do # "unarchive"

NotListed(n) ==
    /\ traffic.stream # NoList => n \notin traffic.stream.list
    /\ \A l \in traffic.loads :
          /\ l.active # NoList => n \notin l.active.list
          /\ l.archive # NoList => n \notin l.archive.list

\* A dismissed news is in removedIds; or, after a reload, its row was written before any
\* list on the way was read.
DismissedIsKept ==
    \A n \in News :
        feedLog.last[n] = "dismiss" /\ n \notin feedLog.mixed \cup feedLog.cut =>
            n \in feed.removed \/ (Acting(n) = {} /\ NotListed(n))

FeedInv ==
    /\ FeedTypeOK /\ OneRequest /\ FoundToWrite /\ DismissedIsKept
    /\ DismissedStaysGone /\ LastGestureHolds

-----------------------------------------------------------------------------
(* The gateways and their bus *)

Relays == {"new_message", "new_message_ref"}
Notes == [to : Instances, from : Instances, users : SUBSET Users,
          type : {"presence_state", "global_presence", "force_disconnect"} \cup Relays]
PeerViews == [Instances -> [users : SUBSET Users, age : Nat]]
Gateways == [conn : SUBSET Sockets, rooms : SUBSET Sockets, members : SUBSET Users,
             last : SUBSET Users, peerPresence : PeerViews, peerOnline : PeerViews]
Followed == [got : SUBSET Sockets, due : SUBSET Sockets]

ClusterTypeOK ==
    /\ up \in [Instances -> {"off", "on", "dead"}]
    /\ rep \in [Instances -> Gateways]
    /\ sock \in [Sockets -> [st : {"idle", "verified", "open", "closed"},
                             at : Instances \cup {None}, asks : Nat, leaves : Nat]]
    /\ asked \subseteq Sockets
    /\ wire \subseteq Notes
    /\ banned \subseteq Users
    /\ kicks \subseteq Instances \X Users
    /\ msg \in Followed \cup {None}
    /\ late \subseteq Instances \X Users /\ overtaken \subseteq Instances \X Users
    /\ slipped \subseteq Sockets /\ unkicked \subseteq Instances \X Users
    /\ unheard \subseteq Instances

\* A socket lives on an instance that runs; what the maps of a gateway hold are its
\* open sockets.
SocketsLive ==
    /\ \A s \in Sockets :
          /\ sock[s].st # "idle" => sock[s].at \in Instances
          /\ sock[s].st \in {"verified", "open"} => up[sock[s].at] = "on"
          /\ s \in asked => sock[s].st # "idle"
    /\ \A r \in Instances : \A s \in rep[r].conn \cup rep[r].rooms :
          sock[s].st = "open" /\ sock[s].at = r

\* What a notification is about.
NotesFit ==
    \A m \in wire :
        /\ m.type = "force_disconnect" => \E u \in Users : m.users = {u}
        /\ m.type \in Relays => msg \in Followed

\* Why a banned user may still have a socket on instance r.
Excused(r, s) ==
    \/ s \in slipped
    \/ <<r, Owner[s]>> \in unkicked
    \/ \E k \in kicks : k[2] = Owner[s]
    \/ \E m \in wire : m.to = r /\ m.type = "force_disconnect" /\ Owner[s] \in m.users

\* A handshake that passed before the ban.
VerifiedExcused ==
    \A s \in Sockets :
        sock[s].st = "verified" /\ Owner[s] \in banned => Excused(sock[s].at, s)

\* A socket that a message is due to stays in its room or is closed.
DueInRoom ==
    msg # None =>
        \A s \in msg.due :
            sock[s].st = "closed" \/ (sock[s].st = "open" /\ s \in rep[sock[s].at].rooms)

ClusterInv ==
    /\ ClusterTypeOK /\ SocketsLive /\ NotesFit /\ VerifiedExcused /\ DueInRoom
    /\ RoomsMatchSockets /\ BannedAreOut /\ MessageReachesRoom

IInv == BellInv /\ FeedInv /\ ClusterInv

-----------------------------------------------------------------------------
(* Proofs: the notification centre *)

\* A record keeps its count when it is marked read, and marking read removes what is
\* unread and adds nothing.
LEMMA MarkedReadKeepsCounts ==
    ASSUME NEW list \in NoteList, NEW S
    PROVE  /\ MarkedRead(list, S) \in NoteList
           /\ \A n \in NoteIds : MarkedRead(list, S)[n].count = list[n].count
           /\ Unread(MarkedRead(list, S)) \subseteq Unread(list)
<1>1. ASSUME NEW n \in NoteIds
      PROVE  /\ [list[n] EXCEPT !.read = TRUE] \in [count : Nat, read : BOOLEAN]
             /\ [list[n] EXCEPT !.read = TRUE].count = list[n].count
             /\ [list[n] EXCEPT !.read = TRUE].read = TRUE
  <2>1. list[n] \in [count : Nat, read : BOOLEAN]
    BY DEF NoteList
  <2>2. [list[n] EXCEPT !.read = TRUE] \in [count : Nat, read : BOOLEAN]
    BY <2>1, Zenon
  <2>3. QED
    BY <2>1, <2>2
<1>2. MarkedRead(list, S) \in NoteList
  BY <1>1 DEF MarkedRead, NoteList
<1>3. \A n \in NoteIds : MarkedRead(list, S)[n].count = list[n].count
  BY <1>1 DEF MarkedRead
<1>4. Unread(MarkedRead(list, S)) \subseteq Unread(list)
  BY <1>1, <1>3 DEF MarkedRead, Unread
<1>5. QED
  BY <1>2, <1>3, <1>4

\* What the list shows is told for as long as it only shrinks and nothing is forgotten.
LEMMA StillTold ==
    ASSUME MessagesAreTold,
           Unread(centre'.list) \subseteq Unread(centre.list),
           \A n \in Unread(centre'.list) : centre'.list[n].count = centre.list[n].count,
           bellLog'.told = bellLog.told, bellLog'.known = bellLog.known
    PROVE  MessagesAreTold'
  BY DEF MessagesAreTold, Unread

\* The bounds spent do not touch what was told.
LEMMA UseKeepsTold ==
    ASSUME BellTypeOK, NEW what \in {"notes", "gestures", "troubles"}, Use(what)
    PROVE  /\ bellLog' \in [left : [notes : Nat, gestures : Nat, troubles : Nat],
                            told : SUBSET Counted, known : SUBSET Counted]
           /\ bellLog'.told = bellLog.told /\ bellLog'.known = bellLog.known
<1>1. bellLog.left[what] \in Nat \ {0}
  BY DEF BellTypeOK, Use
<1>2. [bellLog.left EXCEPT ![what] = @ - 1] \in [notes : Nat, gestures : Nat, troubles : Nat]
  BY <1>1 DEF BellTypeOK
<1>3. QED
  BY <1>2 DEF BellTypeOK, Use

\* A step that leaves the list and what was told alone.
LEMMA CentreAlone ==
    ASSUME BellInv, BellTypeOK', UNCHANGED centre,
           bellLog'.told = bellLog.told, bellLog'.known = bellLog.known
    PROVE  BellInv'
  BY DEF BellInv, SeenIsTold, MessagesAreTold, Unread

\* BellTypeOK of a step that changes only what is on the way.
LEMMA LineOnly ==
    ASSUME BellInv, UNCHANGED <<noteRow, centre, bellLog>>,
           bellLine' \in [polls : SUBSET Polls, acts : SUBSET Requests]
    PROVE  BellInv'
  BY CentreAlone DEF BellInv, BellTypeOK

\* The same, with a bound spent.
LEMMA LineAndBound ==
    ASSUME BellInv, UNCHANGED <<noteRow, centre>>,
           NEW what \in {"notes", "gestures", "troubles"}, Use(what),
           bellLine' \in [polls : SUBSET Polls, acts : SUBSET Requests]
    PROVE  BellInv'
  BY CentreAlone, UseKeepsTold DEF BellInv, BellTypeOK

\* The list that arrives is told, seen before, or the first one.
LEMMA PollsAreTold ==
    ASSUME BellInv, NEW p \in bellLine.polls, ArrivePoll(p)
    PROVE  BellInv'
<1> USE DEF BellInv
<1> DEFINE list == p.got.list
           at(n) == [note |-> n, count |-> list[n].count]
           known == IF centre.seen = NoAnswer THEN NoteIds ELSE {n \in NoteIds : list[n].read}
           telling == IF News2Tell(list) = {} THEN {} ELSE Unread(list)
<1>1. /\ p \in Polls /\ p.got # NoAnswer /\ list \in NoteList
  BY DEF ArrivePoll, BellTypeOK, Polls
<1>2. /\ centre' = [list |-> list, seen |-> [count |-> [n \in NoteIds |-> list[n].count]]]
      /\ bellLog' = [bellLog EXCEPT !.told = @ \cup {at(n) : n \in telling},
                                    !.known = @ \cup {at(n) : n \in known}]
      /\ bellLine' = [bellLine EXCEPT !.polls = @ \ {p}]
      /\ noteRow' = noteRow
  BY DEF ArrivePoll
<1>3. \A n \in NoteIds : list[n] \in [count : Nat, read : BOOLEAN]
  BY <1>1 DEF NoteList
<1>4. \A n \in NoteIds : at(n) \in Counted
  BY <1>3 DEF Counted
<1>5. telling \subseteq NoteIds /\ known \subseteq NoteIds
  BY DEF Unread
<1>6. /\ bellLog'.told = bellLog.told \cup {at(n) : n \in telling}
      /\ bellLog'.known = bellLog.known \cup {at(n) : n \in known}
      /\ bellLog' \in [left : [notes : Nat, gestures : Nat, troubles : Nat],
                       told : SUBSET Counted, known : SUBSET Counted]
  <2> DEFINE T == {at(n) : n \in telling}
             K == {at(n) : n \in known}
  <2>1. T \subseteq Counted
    BY <1>4, <1>5
  <2>2. K \subseteq Counted
    BY <1>4, <1>5
  <2>3. bellLog' = [bellLog EXCEPT !.told = @ \cup T, !.known = @ \cup K]
    BY <1>2
  <2> HIDE DEF T, K
  <2>4. /\ bellLog'.told = bellLog.told \cup T
        /\ bellLog'.known = bellLog.known \cup K
        /\ bellLog' \in [left : [notes : Nat, gestures : Nat, troubles : Nat],
                         told : SUBSET Counted, known : SUBSET Counted]
    BY <2>1, <2>2, <2>3 DEF BellTypeOK
  <2>5. QED
    BY <2>4 DEF T, K
<1>7. BellTypeOK'
  <2>1. [n \in NoteIds |-> list[n].count] \in [NoteIds -> Nat]
    BY <1>3
  <2>2. centre' \in [list : NoteList, seen : {NoAnswer} \cup [count : [NoteIds -> Nat]]]
    BY <1>1, <1>2, <2>1
  <2>3. bellLine' \in [polls : SUBSET Polls, acts : SUBSET Requests]
    BY <1>2 DEF BellTypeOK
  <2>4. QED
    BY <1>2, <1>6, <2>2, <2>3 DEF BellTypeOK
<1>8. ASSUME NEW n \in MessageNotes, list[n].count > 0
      PROVE  at(n) \in bellLog'.told \cup bellLog'.known
  <2>1. n \in NoteIds
    BY DEF NoteIds
  <2>2. CASE n \in known
    BY <1>6, <2>2
  <2>3. CASE n \notin known
    <3>1. centre.seen # NoAnswer /\ ~list[n].read
      BY <2>1, <2>3
    <3>2. n \in Unread(list)
      BY <2>1, <1>8, <3>1 DEF Unread
    <3>3. CASE News2Tell(list) # {}
      BY <1>6, <3>2, <3>3
    <3>4. CASE News2Tell(list) = {}
      <4>1. centre.seen.count[n] = list[n].count
        BY <3>1, <3>2, <3>4 DEF News2Tell
      <4>2. [note |-> n, count |-> centre.seen.count[n]] \in bellLog.told \cup bellLog.known
        BY <1>8, <3>1, <4>1 DEF SeenIsTold
      <4>3. QED
        BY <1>6, <4>1, <4>2
    <3>5. QED
      BY <3>3, <3>4
  <2>4. QED
    BY <2>2, <2>3
<1>9. /\ centre'.list = list
      /\ \A n \in NoteIds : centre'.seen.count[n] = list[n].count
  BY <1>2
<1> HIDE DEF list, at, known, telling
<1>10. SeenIsTold'
  <2>1. MessageNotes \subseteq NoteIds
    BY DEF NoteIds
  <2>2. QED
    BY <1>8, <1>9, <2>1 DEF SeenIsTold, at
<1>11. MessagesAreTold'
  BY <1>8, <1>9 DEF MessagesAreTold, Unread, at
<1>12. QED
  BY <1>7, <1>10, <1>11

\* What the page shows after a gesture was on it, with the same count.
LEMMA GesturesOnlyRead ==
    ASSUME BellInv, NEW r \in bellLine.acts, EndRequest(r)
    PROVE  BellInv'
<1> USE DEF BellInv
<1>1. r \in Requests /\ noteRow' = noteRow /\ bellLog' = bellLog
  BY DEF EndRequest, BellTypeOK
<1>2. bellLine' \in [polls : SUBSET Polls, acts : SUBSET Requests]
  <2>1. Poll("event") \in Polls
    BY DEF Poll, Polls
  <2>2. QED
    BY <2>1 DEF EndRequest, BellTypeOK
<1>3. CASE centre' = centre
  BY <1>1, <1>2, <1>3, LineOnly
<1>4. ASSUME NEW list \in NoteList, centre' = [centre EXCEPT !.list = list],
             Unread(list) \subseteq Unread(centre.list),
             \A n \in Unread(list) : list[n].count = centre.list[n].count
      PROVE  BellInv'
  <2>1. centre'.list = list /\ centre'.seen = centre.seen
    BY <1>4 DEF BellTypeOK
  <2>2. BellTypeOK'
    BY <1>1, <1>2, <1>4 DEF BellTypeOK
  <2>3. SeenIsTold'
    BY <1>1, <2>1 DEF SeenIsTold
  <2>4. MessagesAreTold'
    BY <1>1, <1>4, <2>1, StillTold
  <2>5. QED
    BY <2>2, <2>3, <2>4
<1>5. centre.list \in NoteList
  BY DEF BellTypeOK
<1>6. CASE r.do = "delete"
  <2> DEFINE gone == [n \in NoteIds |-> IF n \in r.notes THEN Deleted ELSE centre.list[n]]
  <2>1. r.do # "target"
    BY <1>6
  <2>2. centre' = [centre EXCEPT !.list = gone]
    BY <1>6, <2>1, Zenon DEF EndRequest
  <2>3. gone \in NoteList
    BY <1>5 DEF NoteList, Deleted
  <2>4. Unread(gone) \subseteq Unread(centre.list)
    BY DEF Unread, Deleted
  <2>5. \A n \in Unread(gone) : gone[n].count = centre.list[n].count
    BY DEF Unread, Deleted
  <2>6. QED
    BY <1>4, <2>2, <2>3, <2>4, <2>5
<1>7. CASE r.do \notin {"target", "delete"}
  <2> DEFINE seen == {n \in r.notes : centre.list[n].count > 0}
             marked == MarkedRead(centre.list, seen)
  <2>1. centre' = [centre EXCEPT !.list = marked]
    BY <1>7, Zenon DEF EndRequest
  <2>2. marked \in NoteList /\ Unread(marked) \subseteq Unread(centre.list)
    BY <1>5, MarkedReadKeepsCounts
  <2>3. \A n \in Unread(marked) : marked[n].count = centre.list[n].count
    BY <1>5, MarkedReadKeepsCounts DEF Unread
  <2>4. QED
    BY <1>4, <2>1, <2>2, <2>3
<1>8. CASE r.do = "target"
  BY <1>3, <1>8, Zenon DEF EndRequest
<1>9. QED
  BY <1>6, <1>7, <1>8

\* Every step of the notification centre keeps its invariant.
LEMMA BellStep ==
    ASSUME BellInv, [BellNext]_bellVars
    PROVE  BellInv'
<1> USE DEF BellInv
<1>1. ASSUME NEW n \in NoteIds, Notified(n)
      PROVE  BellInv'
  <2>1. noteRow' \in NoteList
    <3>1. noteRow[n] \in [count : Nat, read : BOOLEAN]
      BY DEF BellTypeOK, NoteList
    <3>2. [noteRow[n] EXCEPT !.count = @ + 1] \in [count : Nat, read : BOOLEAN]
      BY <3>1
    <3>3. QED
      BY <1>1, <3>2 DEF Notified, BellTypeOK, NoteList
  <2>2. QED
    BY <1>1, <2>1, CentreAlone, UseKeepsTold DEF Notified, BellTypeOK
<1>2. ASSUME NEW r, Clicking(r), r \in Requests
      PROVE  BellInv'
  <2>1. bellLine' \in [polls : SUBSET Polls, acts : SUBSET Requests]
    BY <1>2 DEF Clicking, BellTypeOK
  <2>2. QED
    BY <1>2, <2>1, LineAndBound DEF Clicking
<1>3. \A what \in {"one", "all", "delete", "target"}, S \in SUBSET NoteIds :
          Request(what, S) \in Requests
  BY DEF Request, Requests
<1>4. ASSUME NEW n \in NoteIds, MarkOne(n) \/ DeleteNote(n)
      PROVE  BellInv'
  BY <1>2, <1>3, <1>4 DEF MarkOne, DeleteNote
<1>5. CASE MarkAll \/ LookAtNews
  <2>1. NewsNotes \subseteq NoteIds
    BY DEF NoteIds
  <2>2. QED
    BY <1>2, <1>3, <1>5, <2>1 DEF MarkAll, LookAtNews
<1>6. CASE StartPoll
  <2>1. Poll("timer") \in Polls
    BY DEF Poll, Polls
  <2>2. QED
    BY <1>6, <2>1, LineOnly DEF StartPoll, BellTypeOK
<1>7. ASSUME NEW p \in bellLine.polls, ServePoll(p)
      PROVE  BellInv'
  <2>1. [p EXCEPT !.got = [list |-> noteRow]] \in Polls
    BY DEF BellTypeOK, Polls
  <2>2. QED
    BY <1>7, <2>1, LineOnly DEF ServePoll, BellTypeOK
<1>8. ASSUME NEW p \in bellLine.polls, LosePoll(p)
      PROVE  BellInv'
  <2>1. bellLine' \in [polls : SUBSET Polls, acts : SUBSET Requests]
    BY <1>8 DEF LosePoll, BellTypeOK
  <2>2. QED
    BY <1>8, <2>1, LineAndBound DEF LosePoll
<1>9. ASSUME NEW r \in bellLine.acts, ServeRequest(r)
      PROVE  BellInv'
  <2> DEFINE hit == Unread(noteRow) \cap r.notes
  <2>1. r \in Requests
    BY DEF BellTypeOK
  <2>2. [r EXCEPT !.stage = "done", !.hit = hit # {}] \in Requests
    <3>1. (hit # {}) \in BOOLEAN
      OBVIOUS
    <3> DEFINE h == hit # {}
    <3>2. h \in BOOLEAN
      BY <3>1
    <3> HIDE DEF h
    <3>3. [r EXCEPT !.stage = "done", !.hit = h] \in Requests
      BY <2>1, <3>2, Zenon DEF Requests
    <3>4. QED
      BY <3>3 DEF h
  <2>3. bellLine' \in [polls : SUBSET Polls, acts : SUBSET Requests]
    BY <1>9, <2>2 DEF ServeRequest, BellTypeOK
  <2>4. noteRow' \in NoteList
    <3>1. [n \in NoteIds |-> IF n \in r.notes THEN Deleted ELSE noteRow[n]] \in NoteList
      BY DEF BellTypeOK, NoteList, Deleted
    <3>2. MarkedRead(noteRow, hit) \in NoteList
      BY MarkedReadKeepsCounts DEF BellTypeOK
    <3>3. QED
      BY <1>9, <3>1, <3>2 DEF ServeRequest
  <2>5. QED
    BY <1>9, <2>3, <2>4, CentreAlone DEF ServeRequest, BellTypeOK
<1>10. ASSUME NEW r \in bellLine.acts, FailRequest(r)
       PROVE  BellInv'
  <2>1. r \in Requests
    BY DEF BellTypeOK
  <2>2. [r EXCEPT !.stage = "done"] \in Requests
    BY <2>1, Zenon DEF Requests
  <2>3. bellLine' \in [polls : SUBSET Polls, acts : SUBSET Requests]
    BY <1>10, <2>2 DEF FailRequest, BellTypeOK
  <2>4. QED
    BY <1>10, <2>3, LineAndBound DEF FailRequest
<1>11. ASSUME NEW r \in bellLine.acts, LoseRequest(r)
       PROVE  BellInv'
  <2>1. bellLine' \in [polls : SUBSET Polls, acts : SUBSET Requests]
    BY <1>11 DEF LoseRequest, BellTypeOK
  <2>2. QED
    BY <1>11, <2>1, LineAndBound DEF LoseRequest
<1>12. CASE UNCHANGED bellVars
  BY <1>12, CentreAlone DEF bellVars, BellTypeOK
<1>13. QED
  BY <1>1, <1>4, <1>5, <1>6, <1>7, <1>8, <1>9, <1>10, <1>11, <1>12, PollsAreTold,
     GesturesOnlyRead DEF BellNext

-----------------------------------------------------------------------------
(* Proofs: the feed *)

\* What the gestures leave behind, one by one.
LEMMA Afterwards ==
    /\ StatusAfter("archive") = "ARCHIVED" /\ StatusAfter("dismiss") = "DELETED"
    /\ StatusAfter("unarchive") = NoRow /\ StatusAfter("none") = NoRow
<1>1. StatusAfter("archive") = "ARCHIVED"
  BY Zenon DEF StatusAfter
<1>2. StatusAfter("dismiss") = "DELETED"
  <2>1. "dismiss" # "archive"
    OBVIOUS
  <2>2. QED
    BY <2>1, Zenon DEF StatusAfter
<1>3. ASSUME NEW w, w # "archive", w # "dismiss"
      PROVE  StatusAfter(w) = NoRow
  BY <1>3, Zenon DEF StatusAfter
<1>4. QED
  BY <1>1, <1>2, <1>3

\* The bounds spent do not touch the history.
LEMMA SpendKeepsHistory ==
    ASSUME FeedTypeOK, NEW what \in {"gestures", "edits", "troubles"}, Spend(what)
    PROVE  /\ feedLog'.last = feedLog.last /\ feedLog'.mixed = feedLog.mixed
           /\ feedLog'.cut = feedLog.cut
           /\ feedLog' \in [left : [gestures : Nat, edits : Nat, troubles : Nat],
                            last : [News -> Gestures \cup {"none"}],
                            mixed : SUBSET News, cut : SUBSET News]
<1>1. feedLog.left[what] \in Nat \ {0}
  BY DEF FeedTypeOK, Spend
<1>2. [feedLog.left EXCEPT ![what] = @ - 1] \in [gestures : Nat, edits : Nat, troubles : Nat]
  BY <1>1 DEF FeedTypeOK
<1>3. QED
  BY <1>2 DEF FeedTypeOK, Spend

\* A step that leaves the rows and the requests alone.
LEMMA RequestsAlone ==
    ASSUME FeedInv, rows'.status = rows.status, traffic'.acts = traffic.acts,
           feedLog'.last = feedLog.last, feedLog'.mixed = feedLog.mixed
    PROVE  OneRequest' /\ FoundToWrite' /\ LastGestureHolds'
  BY DEF FeedInv, OneRequest, FoundToWrite, LastGestureHolds, Acting, Status

\* A step after which the lists on the way and the page hold no more than before, and
\* removedIds no less.
LEMMA NothingComesBack ==
    ASSUME FeedInv, FeedTypeOK', rows'.status = rows.status, traffic'.acts = traffic.acts,
           feedLog'.last = feedLog.last, feedLog'.mixed = feedLog.mixed,
           feedLog'.cut = feedLog.cut, feed'.removed = feed.removed,
           feed'.news \cup feed'.archived \subseteq feed.news \cup feed.archived,
           \A n \in News : NotListed(n) => NotListed(n)'
    PROVE  FeedInv'
<1>1. OneRequest' /\ FoundToWrite' /\ LastGestureHolds'
  BY RequestsAlone
<1>2. DismissedIsKept'
  BY DEF FeedInv, DismissedIsKept, Acting
<1>3. DismissedStaysGone'
  BY DEF FeedInv, DismissedStaysGone
<1>4. QED
  BY <1>1, <1>2, <1>3 DEF FeedInv

\* A dismissed news that removedIds does not hide is in no list the server makes.
LEMMA DismissedNotServed ==
    ASSUME FeedInv, NEW n \in News, feedLog.last[n] = "dismiss",
           n \notin feedLog.mixed \cup feedLog.cut, n \notin feed.removed
    PROVE  n \notin ActiveList /\ n \notin ArchiveList /\ Acting(n) = {} /\ NotListed(n)
<1>1. Acting(n) = {} /\ NotListed(n)
  BY DEF FeedInv, DismissedIsKept
<1>2. rows.status[n] = "DELETED"
  BY <1>1, Afterwards DEF FeedInv, LastGestureHolds
<1>3. QED
  BY <1>1, <1>2 DEF ActiveList, ArchiveList, Status, NoRow

\* The staff's edits.
LEMMA EditsKeepFeed ==
    ASSUME FeedInv, NEW n \in News, Publish(n) \/ Deactivate(n)
    PROVE  FeedInv'
<1> USE DEF FeedInv
<1>1. Spend("edits") /\ UNCHANGED <<feed, traffic>>
  BY DEF Publish, Deactivate
<1>2. rows' \in [live : SUBSET News, status : [News -> Statuses], gen : [News -> Nat]]
      /\ rows'.status = rows.status
  BY DEF Publish, Deactivate, FeedTypeOK
<1>3. FeedTypeOK'
  BY <1>1, <1>2, SpendKeepsHistory DEF FeedTypeOK
<1>4. QED
  BY <1>1, <1>2, <1>3, SpendKeepsHistory, NothingComesBack DEF NotListed

\* Lists are read.
LEMMA ReadsKeepFeed ==
    ASSUME FeedInv,
           ReadForStream \/ \E l \in traffic.loads : ServeActive(l) \/ ServeArchive(l)
    PROVE  FeedInv'
<1> USE DEF FeedInv
<1>1. UNCHANGED <<rows, feed, feedLog>>
  BY DEF ReadForStream, ServeActive, ServeArchive
<1>2. [list |-> ActiveList] \in MaybeList /\ [list |-> ArchiveList] \in MaybeList
  BY DEF FeedTypeOK, ActiveList, ArchiveList, MaybeList
<1>3. /\ traffic' \in [stream : MaybeList, loads : SUBSET Loads, acts : SUBSET Acts]
      /\ traffic'.acts = traffic.acts
      /\ \A n \in News :
            NotListed(n) /\ n \notin ActiveList /\ n \notin ArchiveList => NotListed(n)'
  <2>1. CASE ReadForStream
    BY <1>2, <2>1 DEF ReadForStream, FeedTypeOK, NotListed
  <2>2. ASSUME NEW l \in traffic.loads, ServeActive(l)
        PROVE  <1>3!1 /\ <1>3!2 /\ <1>3!3
    <3> DEFINE new == [l EXCEPT !.active = [list |-> ActiveList]]
    <3>1. l \in Loads
      BY DEF FeedTypeOK
    <3>2. /\ new \in Loads /\ new.active = [list |-> ActiveList] /\ new.archive = l.archive
      BY <1>2, <3>1 DEF Loads
    <3>3. traffic' = [traffic EXCEPT !.loads = (@ \ {l}) \cup {new}]
      BY <2>2 DEF ServeActive
    <3> HIDE DEF new
    <3>4. QED
      BY <3>2, <3>3 DEF FeedTypeOK, NotListed
  <2>3. ASSUME NEW l \in traffic.loads, ServeArchive(l)
        PROVE  <1>3!1 /\ <1>3!2 /\ <1>3!3
    <3> DEFINE new == [l EXCEPT !.archive = [list |-> ArchiveList]]
    <3>1. l \in Loads
      BY DEF FeedTypeOK
    <3>2. /\ new \in Loads /\ new.archive = [list |-> ArchiveList] /\ new.active = l.active
      BY <1>2, <3>1 DEF Loads
    <3>3. traffic' = [traffic EXCEPT !.loads = (@ \ {l}) \cup {new}]
      BY <2>3 DEF ServeArchive
    <3> HIDE DEF new
    <3>4. QED
      BY <3>2, <3>3 DEF FeedTypeOK, NotListed
  <2>4. QED
    BY <2>1, <2>2, <2>3
<1>4. FeedTypeOK'
  BY <1>1, <1>3 DEF FeedTypeOK
<1>5. OneRequest' /\ FoundToWrite' /\ LastGestureHolds'
  BY <1>1, <1>3, RequestsAlone
<1>6. DismissedIsKept'
  BY <1>1, <1>3, DismissedNotServed DEF DismissedIsKept, Acting
<1>7. DismissedStaysGone'
  BY <1>1 DEF DismissedStaysGone
<1>8. QED
  BY <1>4, <1>5, <1>6, <1>7

\* A request of a load ends with an error: an empty list.
LEMMA FailedLoadKeepsFeed ==
    ASSUME FeedInv, NEW l \in traffic.loads, NEW which \in {"active", "archive"},
           FailLoad(l, which)
    PROVE  FeedInv'
<1> USE DEF FeedInv
<1> DEFINE new == [l EXCEPT ![which] = [list |-> {}]]
<1>1. l \in Loads /\ [list |-> {}] \in MaybeList
  BY DEF FeedTypeOK, MaybeList
<1>2. /\ new \in Loads
      /\ new.active \in {l.active, [list |-> {}]} /\ new.archive \in {l.archive, [list |-> {}]}
  BY <1>1 DEF Loads
<1>3. /\ traffic' = [traffic EXCEPT !.loads = (@ \ {l}) \cup {new}]
      /\ Spend("troubles") /\ UNCHANGED <<rows, feed>>
  BY DEF FailLoad
<1> HIDE DEF new
<1>4. /\ traffic'.acts = traffic.acts
      /\ traffic' \in [stream : MaybeList, loads : SUBSET Loads, acts : SUBSET Acts]
      /\ \A n \in News : NotListed(n) => NotListed(n)'
  BY <1>2, <1>3 DEF FeedTypeOK, NotListed
<1>5. FeedTypeOK'
  BY <1>3, <1>4, SpendKeepsHistory DEF FeedTypeOK
<1>6. QED
  BY <1>3, <1>4, <1>5, SpendKeepsHistory, NothingComesBack

\* Lists arrive or are lost, the stream breaks and opens again.
LEMMA ArrivalsKeepFeed ==
    ASSUME FeedInv,
           \/ ArriveStream \/ BreakStream \/ ReopenStream
           \/ \E l \in traffic.loads : ArriveLoad(l) \/ LoseLoad(l)
    PROVE  FeedInv'
<1> USE DEF FeedInv
<1>1. /\ rows' = rows /\ traffic'.acts = traffic.acts
      /\ traffic' \in [stream : MaybeList, loads : SUBSET Loads, acts : SUBSET Acts]
      /\ \A n \in News : NotListed(n) => NotListed(n)'
  <2>1. /\ traffic'.stream \in {traffic.stream, NoList}
        /\ traffic'.loads \subseteq traffic.loads
        /\ traffic'.acts = traffic.acts
        /\ traffic' \in [stream : MaybeList, loads : SUBSET Loads, acts : SUBSET Acts]
    <3>1. CASE traffic' = [traffic EXCEPT !.stream = NoList]
      BY <3>1 DEF FeedTypeOK, MaybeList
    <3>2. CASE traffic' = traffic
      BY <3>2 DEF FeedTypeOK
    <3>3. ASSUME NEW l, traffic' = [traffic EXCEPT !.loads = @ \ {l}]
          PROVE  <2>1!1 /\ <2>1!2 /\ <2>1!3 /\ <2>1!4
      BY <3>3 DEF FeedTypeOK
    <3>4. QED
      BY <3>1, <3>2, <3>3 DEF ArriveStream, BreakStream, ReopenStream, ArriveLoad, LoseLoad
  <2>2. rows' = rows
    BY DEF ArriveStream, BreakStream, ReopenStream, ArriveLoad, LoseLoad
  <2>3. QED
    BY <2>1, <2>2 DEF NotListed
<1>2. /\ feedLog'.last = feedLog.last /\ feedLog'.mixed = feedLog.mixed
      /\ feedLog'.cut = feedLog.cut
      /\ feedLog' \in [left : [gestures : Nat, edits : Nat, troubles : Nat],
                       last : [News -> Gestures \cup {"none"}],
                       mixed : SUBSET News, cut : SUBSET News]
  BY SpendKeepsHistory DEF ArriveStream, BreakStream, ReopenStream, ArriveLoad, LoseLoad,
     FeedTypeOK
<1>3. CASE BreakStream \/ ReopenStream \/ \E l \in traffic.loads : LoseLoad(l)
  <2>1. feed' \in [news : SUBSET News, archived : SUBSET News, removed : SUBSET News,
                   open : BOOLEAN]
        /\ feed'.removed = feed.removed /\ feed'.news = feed.news
        /\ feed'.archived = feed.archived
    <3>1. CASE feed' = feed
      BY <3>1 DEF FeedTypeOK
    <3>2. ASSUME NEW b \in BOOLEAN, feed' = [feed EXCEPT !.open = b]
          PROVE  <2>1
      BY <3>2 DEF FeedTypeOK
    <3>3. QED
      BY <1>3, <3>1, <3>2 DEF BreakStream, ReopenStream, LoseLoad
  <2>2. FeedTypeOK'
    BY <1>1, <1>2, <2>1 DEF FeedTypeOK
  <2>3. QED
    BY <1>1, <1>2, <2>1, <2>2, NothingComesBack
<1>4. CASE ArriveStream \/ \E l \in traffic.loads : ArriveLoad(l)
  <2>1. /\ feed' \in [news : SUBSET News, archived : SUBSET News, removed : SUBSET News,
                      open : BOOLEAN]
        /\ feed'.removed = feed.removed
    <3>1. CASE ArriveStream
      <4>1. traffic.stream.list \subseteq News
        BY <3>1 DEF ArriveStream, FeedTypeOK, MaybeList
      <4>2. QED
        BY <3>1, <4>1 DEF ArriveStream, FeedTypeOK
    <3>2. ASSUME NEW l \in traffic.loads, ArriveLoad(l)
          PROVE  <2>1!1 /\ <2>1!2
      <4>1. l.active.list \subseteq News /\ l.archive.list \subseteq News
        BY <3>2 DEF ArriveLoad, FeedTypeOK, Loads, MaybeList
      <4>2. QED
        BY <3>2, <4>1 DEF ArriveLoad, FeedTypeOK
    <3>3. QED
      BY <1>4, <3>1, <3>2
  <2>2. FeedTypeOK'
    BY <1>1, <1>2, <2>1 DEF FeedTypeOK
  <2>3. OneRequest' /\ FoundToWrite' /\ LastGestureHolds'
    BY <1>1, <1>2, RequestsAlone
  <2>4. DismissedIsKept'
    BY <1>1, <1>2, <2>1 DEF DismissedIsKept, Acting
  <2>5. ASSUME NEW n \in News, feedLog.last[n] = "dismiss",
               n \notin feedLog.mixed \cup feedLog.cut
        PROVE  n \notin feed'.news \cup feed'.archived
    <3>1. n \notin feed.news \cup feed.archived /\ (n \in feed.removed \/ NotListed(n))
      BY <2>5 DEF DismissedStaysGone, DismissedIsKept
    <3>2. CASE ArriveStream
      BY <3>1, <3>2 DEF ArriveStream, FeedTypeOK, NotListed
    <3>3. ASSUME NEW l \in traffic.loads, ArriveLoad(l)
          PROVE  n \notin feed'.news \cup feed'.archived
      BY <3>1, <3>3 DEF ArriveLoad, FeedTypeOK, NotListed
    <3>4. QED
      BY <1>4, <3>2, <3>3
  <2>6. DismissedStaysGone'
    BY <1>2, <2>5 DEF DismissedStaysGone
  <2>7. QED
    BY <2>2, <2>3, <2>4, <2>6
<1>5. QED
  BY <1>3, <1>4

\* A gesture on a news that has no request yet, or else is given up.
LEMMA GesturesKeepFeed ==
    ASSUME FeedInv, NEW n \in News, ArchiveNews(n) \/ DismissNews(n) \/ UnarchiveNews(n)
    PROVE  FeedInv'
<1> USE DEF FeedInv
<1>1. PICK what \in Gestures :
          /\ feedLog.left["gestures"] > 0 /\ Ask(what, n) /\ rows' = rows
          /\ what = "archive" => ArchiveNews(n)
          /\ what = "dismiss" => DismissNews(n)
          /\ what = "unarchive" => UnarchiveNews(n)
  <2>1. CASE ArchiveNews(n)
    BY <2>1 DEF ArchiveNews, Gesturing, Gestures
  <2>2. CASE DismissNews(n)
    BY <2>2 DEF DismissNews, Gesturing, Gestures
  <2>3. CASE UnarchiveNews(n)
    BY <2>3 DEF UnarchiveNews, Gesturing, Gestures
  <2>4. QED
    BY <2>1, <2>2, <2>3
<1> DEFINE new == [do |-> what, news |-> n, stage |-> "asked", saw |-> NoRow, gen |-> 0,
                   heard |-> TRUE]
<1>2. new \in Acts
  BY DEF Acts, Statuses
<1>3. /\ traffic' = [traffic EXCEPT !.acts = @ \cup {new}]
      /\ traffic'.acts = traffic.acts \cup {new}
      /\ traffic'.stream = traffic.stream /\ traffic'.loads = traffic.loads
      /\ traffic' \in [stream : MaybeList, loads : SUBSET Loads, acts : SUBSET Acts]
  BY <1>1, <1>2 DEF Ask, FeedTypeOK
<1>4. /\ feedLog'.last = [feedLog.last EXCEPT ![n] = what]
      /\ feedLog'.mixed = IF Acting(n) = {} THEN feedLog.mixed ELSE feedLog.mixed \cup {n}
      /\ feedLog'.cut = feedLog.cut
      /\ feedLog' \in [left : [gestures : Nat, edits : Nat, troubles : Nat],
                       last : [News -> Gestures \cup {"none"}],
                       mixed : SUBSET News, cut : SUBSET News]
  <2> DEFINE last == [feedLog.last EXCEPT ![n] = what]
             mixed == IF Acting(n) = {} THEN feedLog.mixed ELSE feedLog.mixed \cup {n}
             left == [feedLog.left EXCEPT !["gestures"] = @ - 1]
  <2>1. feedLog' = [feedLog EXCEPT !.left = left, !.last = last, !.mixed = mixed]
    BY <1>1 DEF Ask, FeedTypeOK
  <2>2. left \in [gestures : Nat, edits : Nat, troubles : Nat]
    BY <1>1 DEF FeedTypeOK
  <2>3. last \in [News -> Gestures \cup {"none"}] /\ mixed \in SUBSET News
    BY DEF FeedTypeOK
  <2> HIDE DEF last, mixed, left
  <2>4. /\ feedLog'.last = last /\ feedLog'.mixed = mixed /\ feedLog'.cut = feedLog.cut
        /\ feedLog' \in [left : [gestures : Nat, edits : Nat, troubles : Nat],
                         last : [News -> Gestures \cup {"none"}],
                         mixed : SUBSET News, cut : SUBSET News]
    BY <2>1, <2>2, <2>3 DEF FeedTypeOK
  <2>5. QED
    BY <2>4 DEF last, mixed
<1>5. /\ feed' \in [news : SUBSET News, archived : SUBSET News, removed : SUBSET News,
                    open : BOOLEAN]
      /\ feed'.removed \in {feed.removed \cup {n}, feed.removed \ {n}}
      /\ feed'.news \subseteq feed.news \cup {n} /\ feed'.archived \subseteq feed.archived \cup {n}
      /\ what = "dismiss" => n \in feed'.removed /\ n \notin feed'.news \cup feed'.archived
  <2>0. ASSUME NEW R \in SUBSET News, NEW N \in SUBSET News, NEW A \in SUBSET News,
               feed' = [feed EXCEPT !.removed = R, !.news = N, !.archived = A]
        PROVE  /\ feed' \in [news : SUBSET News, archived : SUBSET News,
                             removed : SUBSET News, open : BOOLEAN]
               /\ feed'.removed = R /\ feed'.news = N /\ feed'.archived = A
    BY <2>0 DEF FeedTypeOK
  <2>1. /\ feed.removed \in SUBSET News /\ feed.news \in SUBSET News
        /\ feed.archived \in SUBSET News
    BY DEF FeedTypeOK
  <2>2. CASE what = "archive"
    <3> DEFINE R == feed.removed \cup {n}
               N == feed.news \ {n}
               A == feed.archived \cup {n}
    <3>1. feed' = [feed EXCEPT !.removed = R, !.news = N, !.archived = A]
      BY <1>1, <2>2 DEF ArchiveNews
    <3>2. R \in SUBSET News /\ N \in SUBSET News /\ A \in SUBSET News
      BY <2>1
    <3>3. feed'.removed = R /\ feed'.news = N /\ feed'.archived = A
      BY <2>0, <3>1, <3>2
    <3>4. QED
      BY <2>0, <2>2, <3>1, <3>2, <3>3
  <2>3. CASE what = "dismiss"
    <3> DEFINE R == feed.removed \cup {n}
               N == feed.news \ {n}
               A == feed.archived \ {n}
    <3>1. feed' = [feed EXCEPT !.removed = R, !.news = N, !.archived = A]
      BY <1>1, <2>3 DEF DismissNews
    <3>2. R \in SUBSET News /\ N \in SUBSET News /\ A \in SUBSET News
      BY <2>1
    <3>3. feed'.removed = R /\ feed'.news = N /\ feed'.archived = A
      BY <2>0, <3>1, <3>2
    <3>4. QED
      BY <2>0, <2>3, <3>1, <3>2, <3>3
  <2>4. CASE what = "unarchive"
    <3> DEFINE R == feed.removed \ {n}
               N == feed.news \cup {n}
               A == feed.archived \ {n}
    <3>1. feed' = [feed EXCEPT !.removed = R, !.news = N, !.archived = A]
      BY <1>1, <2>4 DEF UnarchiveNews, FeedTypeOK
    <3>2. R \in SUBSET News /\ N \in SUBSET News /\ A \in SUBSET News
      BY <2>1
    <3>3. feed'.removed = R /\ feed'.news = N /\ feed'.archived = A
      BY <2>0, <3>1, <3>2
    <3>4. QED
      BY <2>0, <2>4, <3>1, <3>2, <3>3
  <2>5. QED
    BY <2>2, <2>3, <2>4 DEF Gestures
<1>6. new.news = n /\ new.do = what /\ new.stage = "asked"
  OBVIOUS
<1> HIDE DEF new
<1>7. FeedTypeOK'
  BY <1>1, <1>3, <1>4, <1>5 DEF FeedTypeOK
<1>8. OneRequest'
  <2> SUFFICES ASSUME NEW a \in traffic.acts \cup {new}, a.news \notin feedLog'.mixed
               PROVE  /\ a.do = feedLog'.last[a.news]
                      /\ a.stage = "done" => Status(a.news)' = StatusAfter(a.do)
                      /\ \A b \in traffic.acts \cup {new} : b.news = a.news => b = a
    BY <1>3 DEF OneRequest
  <2>1. feedLog.last \in [News -> Gestures \cup {"none"}]
    BY DEF FeedTypeOK
  <2>2. CASE a.news = n
    <3>1. Acting(n) = {}
      BY <1>4, <2>2
    <3>2. a = new /\ \A b \in traffic.acts : b.news # n
      BY <2>2, <3>1 DEF Acting
    <3>3. QED
      BY <1>4, <1>6, <2>1, <3>2
  <2>3. CASE a.news # n
    <3>1. a \in traffic.acts /\ a.news \notin feedLog.mixed /\ a.news \in News
      BY <1>4, <1>6, <2>3 DEF FeedTypeOK, Acts
    <3>2. Status(a.news)' = Status(a.news)
      BY <1>1 DEF Status
    <3>3. QED
      BY <1>4, <1>6, <2>1, <2>3, <3>1, <3>2 DEF OneRequest
  <2>4. QED
    BY <2>2, <2>3
<1>9. FoundToWrite'
  BY <1>3, <1>6 DEF FoundToWrite
<1>10. ASSUME NEW m \in News, m # n
       PROVE  /\ Acting(m)' = Acting(m) /\ feedLog'.last[m] = feedLog.last[m]
              /\ m \in feedLog'.mixed <=> m \in feedLog.mixed
              /\ m \in feed'.removed <=> m \in feed.removed
              /\ NotListed(m)' <=> NotListed(m)
              /\ m \in feed'.news \cup feed'.archived => m \in feed.news \cup feed.archived
  <2>1. Acting(m)' = Acting(m)
    BY <1>3, <1>6, <1>10 DEF Acting
  <2>2. NotListed(m)' <=> NotListed(m)
    BY <1>3 DEF NotListed
  <2>3. QED
    BY <1>4, <1>5, <1>10, <2>1, <2>2 DEF FeedTypeOK
<1>11. new \in Acting(n)'
  BY <1>3, <1>6 DEF Acting
<1>12. feedLog'.last[n] = what
  BY <1>4 DEF FeedTypeOK
<1>13. LastGestureHolds'
  BY <1>1, <1>10, <1>11 DEF LastGestureHolds
<1>14. DismissedIsKept'
  BY <1>4, <1>5, <1>10, <1>12 DEF DismissedIsKept
<1>15. DismissedStaysGone'
  BY <1>4, <1>5, <1>10, <1>12 DEF DismissedStaysGone
<1>16. QED
  BY <1>7, <1>8, <1>9, <1>13, <1>14, <1>15

\* A request goes one step further; only its own news can get another row.
LEMMA OneStepFurther ==
    ASSUME FeedInv, FeedTypeOK', NEW a \in traffic.acts, NEW b \in Acts,
           b.news = a.news, b.do = a.do, b.stage = "found" => b.do # "unarchive",
           traffic' = [traffic EXCEPT !.acts = (@ \ {a}) \cup {b}],
           feed' = feed, feedLog'.last = feedLog.last, feedLog'.cut = feedLog.cut,
           feedLog.mixed \subseteq feedLog'.mixed,
           \A n \in News : n # a.news => rows'.status[n] = rows.status[n],
           a.news \notin feedLog'.mixed /\ b.stage = "done" =>
               rows'.status[a.news] = StatusAfter(a.do)
    PROVE  FeedInv'
<1> USE DEF FeedInv
<1>1. /\ traffic'.acts = (traffic.acts \ {a}) \cup {b}
      /\ traffic'.stream = traffic.stream /\ traffic'.loads = traffic.loads
  BY DEF FeedTypeOK
<1>2. a.news \in News /\ \A c \in traffic.acts : c.news \in News
  BY DEF FeedTypeOK, Acts
<1>3. OneRequest'
  <2> SUFFICES ASSUME NEW c \in traffic'.acts, c.news \notin feedLog'.mixed
               PROVE  /\ c.do = feedLog'.last[c.news]
                      /\ c.stage = "done" => Status(c.news)' = StatusAfter(c.do)
                      /\ \A d \in traffic'.acts : d.news = c.news => d = c
    BY DEF OneRequest
  <2>1. CASE c = b
    <3>1. a.do = feedLog.last[a.news] /\ \A d \in traffic.acts : d.news = a.news => d = a
      BY <2>1 DEF OneRequest
    <3>2. QED
      BY <1>1, <2>1, <3>1 DEF Status
  <2>2. CASE c # b
    <3>1. c \in traffic.acts /\ c # a
      BY <1>1, <2>2
    <3>2. c.news # a.news
      BY <3>1 DEF OneRequest
    <3>3. Status(c.news)' = Status(c.news)
      BY <1>2, <3>1, <3>2 DEF Status
    <3>4. QED
      BY <1>1, <3>1, <3>2, <3>3 DEF OneRequest
  <2>3. QED
    BY <2>1, <2>2
<1>4. FoundToWrite'
  BY <1>1 DEF FoundToWrite
<1>5. ASSUME NEW n \in News
      PROVE  /\ NotListed(n)' <=> NotListed(n)
             /\ Acting(n) = {} <=> Acting(n)' = {}
             /\ Acting(n) = {} => n # a.news
  <2>1. NotListed(n)' <=> NotListed(n)
    BY <1>1 DEF NotListed
  <2>2. a \in Acting(a.news) /\ b \in Acting(a.news)'
    BY <1>1 DEF Acting
  <2>3. CASE n = a.news
    BY <2>1, <2>2, <2>3
  <2>4. CASE n # a.news
    <3>1. Acting(n)' = Acting(n)
      BY <1>1, <2>4 DEF Acting
    <3>2. QED
      BY <2>1, <2>2, <2>4, <3>1
  <2>5. QED
    BY <2>3, <2>4
<1>6. LastGestureHolds'
  BY <1>5 DEF LastGestureHolds
<1>7. DismissedIsKept'
  BY <1>5 DEF DismissedIsKept
<1>8. DismissedStaysGone'
  BY DEF DismissedStaysGone
<1>9. QED
  BY <1>3, <1>4, <1>6, <1>7, <1>8

\* A trouble that concerns one news.
LEMMA TroubleMixes ==
    ASSUME FeedTypeOK, NEW n \in News, feedLog.left["troubles"] > 0,
           feedLog' = [feedLog EXCEPT !.left["troubles"] = @ - 1, !.mixed = @ \cup {n}]
    PROVE  /\ feedLog'.last = feedLog.last /\ feedLog'.cut = feedLog.cut
           /\ feedLog'.mixed = feedLog.mixed \cup {n}
           /\ feedLog' \in [left : [gestures : Nat, edits : Nat, troubles : Nat],
                            last : [News -> Gestures \cup {"none"}],
                            mixed : SUBSET News, cut : SUBSET News]
<1> DEFINE left == [feedLog.left EXCEPT !["troubles"] = @ - 1]
           mixed == feedLog.mixed \cup {n}
<1>1. feedLog' = [feedLog EXCEPT !.left = left, !.mixed = mixed]
  BY DEF FeedTypeOK
<1>2. left \in [gestures : Nat, edits : Nat, troubles : Nat] /\ mixed \in SUBSET News
  BY DEF FeedTypeOK
<1> HIDE DEF left, mixed
<1>3. /\ feedLog'.last = feedLog.last /\ feedLog'.cut = feedLog.cut
      /\ feedLog'.mixed = mixed
      /\ feedLog' \in [left : [gestures : Nat, edits : Nat, troubles : Nat],
                       last : [News -> Gestures \cup {"none"}],
                       mixed : SUBSET News, cut : SUBSET News]
  BY <1>1, <1>2 DEF FeedTypeOK
<1>4. QED
  BY <1>3 DEF mixed

\* The server's steps of a request.
LEMMA ServerKeepsFeed ==
    ASSUME FeedInv, NEW a \in traffic.acts,
           FindStatus(a) \/ ClearStatus(a) \/ SaveStatus(a) \/ FailStatus(a)
    PROVE  FeedInv'
<1> USE DEF FeedInv
<1>1. a \in Acts /\ a.news \in News /\ Status(a.news) \in Statuses /\ rows.gen[a.news] \in Nat
  BY DEF FeedTypeOK, Acts, Status
<1> DEFINE found == [a EXCEPT !.stage = "found", !.saw = Status(a.news),
                              !.gen = rows.gen[a.news]]
           done == [a EXCEPT !.stage = "done"]
<1>2. found \in Acts /\ found.news = a.news /\ found.do = a.do /\ found.stage = "found"
  <2> DEFINE w == Status(a.news)
             g == rows.gen[a.news]
  <2> HIDE DEF w, g
  <2>1. w \in Statuses /\ g \in Nat
    BY <1>1 DEF w, g
  <2>2. [a EXCEPT !.stage = "found", !.saw = w, !.gen = g] \in Acts
    BY <1>1, <2>1, Zenon DEF Acts
  <2>3. /\ [a EXCEPT !.stage = "found", !.saw = w, !.gen = g].news = a.news
        /\ [a EXCEPT !.stage = "found", !.saw = w, !.gen = g].do = a.do
        /\ [a EXCEPT !.stage = "found", !.saw = w, !.gen = g].stage = "found"
    BY <1>1 DEF Acts
  <2>4. QED
    BY <2>2, <2>3 DEF w, g
<1>3. done \in Acts /\ done.news = a.news /\ done.do = a.do /\ done.stage = "done"
  <2>1. done \in Acts
    BY <1>1, Zenon DEF Acts
  <2>2. QED
    BY <1>1, <2>1 DEF Acts
<1> HIDE DEF found, done
<1>4. ASSUME NEW b \in Acts, Move(a, b)
      PROVE  traffic' \in [stream : MaybeList, loads : SUBSET Loads, acts : SUBSET Acts]
  BY <1>4 DEF Move, FeedTypeOK
<1>5. CASE FindStatus(a)
  <2>1. Move(a, found) /\ a.do # "unarchive" /\ UNCHANGED <<rows, feed, feedLog>>
    BY <1>5 DEF FindStatus, found
  <2>2. FeedTypeOK'
    BY <1>2, <1>4, <2>1 DEF FeedTypeOK
  <2>3. QED
    BY <1>2, <2>1, <2>2, OneStepFurther DEF Move
<1>6. CASE ClearStatus(a)
  <2>1. Move(a, done) /\ a.do = "unarchive" /\ UNCHANGED <<feed, feedLog>>
    BY <1>6 DEF ClearStatus, done
  <2>2. /\ rows'.status = [rows.status EXCEPT ![a.news] = NoRow]
        /\ rows' \in [live : SUBSET News, status : [News -> Statuses], gen : [News -> Nat]]
    <3> DEFINE status == [rows.status EXCEPT ![a.news] = NoRow]
               gen == [rows.gen EXCEPT ![a.news] =
                           IF Status(a.news) = NoRow THEN @ ELSE @ + 1]
    <3>1. rows' = [rows EXCEPT !.status = status, !.gen = gen]
      BY <1>6 DEF ClearStatus, FeedTypeOK
    <3>2. status \in [News -> Statuses] /\ gen \in [News -> Nat]
      BY <1>1 DEF FeedTypeOK, Statuses
    <3> HIDE DEF status, gen
    <3>3. /\ rows'.status = status
          /\ rows' \in [live : SUBSET News, status : [News -> Statuses], gen : [News -> Nat]]
      BY <3>1, <3>2 DEF FeedTypeOK
    <3>4. QED
      BY <3>3 DEF status
  <2>3. FeedTypeOK'
    BY <1>3, <1>4, <2>1, <2>2 DEF FeedTypeOK
  <2>4. /\ \A n \in News : n # a.news => rows'.status[n] = rows.status[n]
        /\ rows'.status[a.news] = StatusAfter(a.do)
    BY <1>1, <2>1, <2>2, Afterwards DEF FeedTypeOK
  <2>5. QED
    BY <1>3, <2>1, <2>3, <2>4, OneStepFurther DEF Move
<1>7. CASE SaveStatus(a)
  <2> DEFINE mine == a.saw # NoRow /\ a.gen = rows.gen[a.news]
             clash == Status(a.news) # NoRow /\ ~mine
             status == IF a.do = "archive" THEN "ARCHIVED" ELSE "DELETED"
  <2>1. Move(a, done) /\ feed' = feed /\ a.do \in {"archive", "dismiss"}
    BY <1>1, <1>7 DEF SaveStatus, done, At, FoundToWrite, Acts, Gestures
  <2>2. /\ rows' = [rows EXCEPT !.status[a.news] = IF clash THEN @ ELSE status]
        /\ feedLog' = [feedLog EXCEPT !.mixed = IF clash THEN @ \cup {a.news} ELSE @]
    BY <1>7, Zenon DEF SaveStatus
  <2>3. status \in Statuses /\ status = StatusAfter(a.do)
    BY <2>1, Afterwards DEF Statuses
  <2> HIDE DEF clash, status
  <2>4. /\ rows'.status = [rows.status EXCEPT ![a.news] = IF clash THEN @ ELSE status]
        /\ rows' \in [live : SUBSET News, status : [News -> Statuses], gen : [News -> Nat]]
    BY <1>1, <2>2, <2>3 DEF FeedTypeOK
  <2>5. /\ feedLog'.last = feedLog.last /\ feedLog'.cut = feedLog.cut
        /\ feedLog'.mixed = IF clash THEN feedLog.mixed \cup {a.news} ELSE feedLog.mixed
        /\ feedLog' \in [left : [gestures : Nat, edits : Nat, troubles : Nat],
                         last : [News -> Gestures \cup {"none"}],
                         mixed : SUBSET News, cut : SUBSET News]
    BY <1>1, <2>2 DEF FeedTypeOK
  <2>6. FeedTypeOK'
    BY <1>3, <1>4, <2>1, <2>4, <2>5 DEF FeedTypeOK
  <2>7. /\ \A n \in News : n # a.news => rows'.status[n] = rows.status[n]
        /\ a.news \notin feedLog'.mixed => rows'.status[a.news] = StatusAfter(a.do)
    BY <1>1, <2>3, <2>4, <2>5 DEF FeedTypeOK
  <2>8. QED
    BY <1>3, <2>1, <2>5, <2>6, <2>7, OneStepFurther DEF Move
<1>8. CASE FailStatus(a)
  <2>1. Move(a, done) /\ UNCHANGED <<rows, feed>>
    BY <1>8 DEF FailStatus, done
  <2>2. /\ feedLog'.last = feedLog.last /\ feedLog'.cut = feedLog.cut
        /\ feedLog'.mixed = feedLog.mixed \cup {a.news}
        /\ feedLog' \in [left : [gestures : Nat, edits : Nat, troubles : Nat],
                         last : [News -> Gestures \cup {"none"}],
                         mixed : SUBSET News, cut : SUBSET News]
    BY <1>1, <1>8, TroubleMixes DEF FailStatus
  <2>3. FeedTypeOK'
    BY <1>3, <1>4, <2>1, <2>2 DEF FeedTypeOK
  <2>4. QED
    BY <1>3, <2>1, <2>2, <2>3, OneStepFurther DEF Move
<1>9. QED
  BY <1>5, <1>6, <1>7, <1>8

\* The answer of a request, heard or lost.
LEMMA AnswersKeepFeed ==
    ASSUME FeedInv, NEW a \in traffic.acts, EndGesture(a) \/ LoseGesture(a)
    PROVE  FeedInv'
<1> USE DEF FeedInv
<1>1. a \in Acts /\ a.news \in News
  BY DEF FeedTypeOK, Acts
<1>2. /\ rows' = rows /\ traffic'.acts = traffic.acts \ {a}
      /\ traffic'.stream = traffic.stream
      /\ traffic'.loads \in {traffic.loads, traffic.loads \cup {Loading}}
      /\ traffic' \in [stream : MaybeList, loads : SUBSET Loads, acts : SUBSET Acts]
  <2>1. Loading \in Loads
    BY DEF Loading, Loads, MaybeList
  <2>2. ASSUME NEW L \in SUBSET Loads, L \in {traffic.loads, traffic.loads \cup {Loading}},
               traffic' = [traffic EXCEPT !.acts = @ \ {a}, !.loads = L]
        PROVE  /\ traffic'.acts = traffic.acts \ {a}
               /\ traffic'.stream = traffic.stream /\ traffic'.loads = L
               /\ traffic' \in [stream : MaybeList, loads : SUBSET Loads, acts : SUBSET Acts]
    BY <2>2 DEF FeedTypeOK
  <2>3. traffic.loads \in SUBSET Loads /\ traffic.loads \cup {Loading} \in SUBSET Loads
    BY <2>1 DEF FeedTypeOK
  <2>4. CASE EndGesture(a)
    <3>1. traffic' = [traffic EXCEPT !.acts = @ \ {a}, !.loads = traffic.loads]
      BY <2>4 DEF EndGesture, FeedTypeOK
    <3>2. QED
      BY <2>2, <2>3, <2>4, <3>1 DEF EndGesture
  <2>5. CASE LoseGesture(a)
    <3>1. traffic' = [traffic EXCEPT !.acts = @ \ {a}, !.loads = traffic.loads \cup {Loading}]
      BY <2>5 DEF LoseGesture
    <3>2. QED
      BY <2>2, <2>3, <2>5, <3>1 DEF LoseGesture
  <2>6. QED
    BY <2>4, <2>5
<1>3. /\ feedLog'.last = feedLog.last /\ feedLog'.cut = feedLog.cut
      /\ feedLog'.mixed \in {feedLog.mixed, feedLog.mixed \cup {a.news}}
      /\ LoseGesture(a) => a.news \in feedLog'.mixed
      /\ feedLog' \in [left : [gestures : Nat, edits : Nat, troubles : Nat],
                       last : [News -> Gestures \cup {"none"}],
                       mixed : SUBSET News, cut : SUBSET News]
  <2>1. CASE LoseGesture(a)
    BY <1>1, <2>1, TroubleMixes DEF LoseGesture
  <2>2. CASE EndGesture(a) /\ ~LoseGesture(a)
    BY <2>2 DEF EndGesture, FeedTypeOK
  <2>3. QED
    BY <2>1, <2>2
<1>4. /\ feed' \in [news : SUBSET News, archived : SUBSET News, removed : SUBSET News,
                    open : BOOLEAN]
      /\ feed'.news = feed.news /\ feed'.archived = feed.archived
      /\ \A n \in News : n # a.news => (n \in feed'.removed <=> n \in feed.removed)
      /\ EndGesture(a) /\ a.do # "archive" => feed' = feed
  BY <1>1 DEF EndGesture, LoseGesture, FeedTypeOK
<1>5. FeedTypeOK'
  BY <1>2, <1>3, <1>4 DEF FeedTypeOK
<1>6. OneRequest' /\ FoundToWrite'
  BY <1>2, <1>3 DEF OneRequest, FoundToWrite, Status
<1>7. ASSUME NEW n \in News
      PROVE  /\ NotListed(n) => NotListed(n)'
             /\ Acting(n) = {} => Acting(n)' = {}
             /\ n # a.news /\ Acting(n)' = {} => Acting(n) = {}
  BY <1>2 DEF NotListed, Acting, Loading
<1>8. LastGestureHolds'
  <2> SUFFICES ASSUME NEW n \in News, Acting(n)' = {}, n \notin feedLog'.mixed
               PROVE  rows'.status[n] = StatusAfter(feedLog'.last[n])
    BY DEF LastGestureHolds
  <2>1. n \notin feedLog.mixed
    BY <1>3
  <2>2. CASE n # a.news
    BY <1>2, <1>3, <1>7, <2>1, <2>2 DEF LastGestureHolds
  <2>3. CASE n = a.news
    <3>1. EndGesture(a) /\ a.stage = "done"
      BY <1>3, <2>3 DEF EndGesture, At
    <3>2. QED
      BY <1>2, <1>3, <2>1, <2>3, <3>1 DEF OneRequest, Status
  <2>4. QED
    BY <2>2, <2>3
<1>9. DismissedIsKept'
  <2> SUFFICES ASSUME NEW n \in News, feedLog.last[n] = "dismiss",
                      n \notin feedLog'.mixed \cup feedLog.cut
               PROVE  n \in feed'.removed \/ (Acting(n)' = {} /\ NotListed(n)')
    BY <1>3 DEF DismissedIsKept
  <2>1. n \in feed.removed \/ (Acting(n) = {} /\ NotListed(n))
    BY <1>3 DEF DismissedIsKept
  <2>2. CASE n # a.news
    BY <1>4, <1>7, <2>1, <2>2
  <2>3. CASE n = a.news
    <3>1. EndGesture(a) /\ a.do = "dismiss"
      BY <1>3, <2>3 DEF OneRequest
    <3>2. feed' = feed
      BY <1>4, <3>1
    <3>3. QED
      BY <1>7, <2>1, <3>2
  <2>4. QED
    BY <2>2, <2>3
<1>10. DismissedStaysGone'
  BY <1>3, <1>4 DEF DismissedStaysGone
<1>11. QED
  BY <1>5, <1>6, <1>8, <1>9, <1>10

\* After a reload nothing is hidden any more, and nothing is on the way that was read
\* before.
LEMMA ReloadKeepsFeed ==
    ASSUME FeedInv, ReloadPage
    PROVE  FeedInv'
<1> USE DEF FeedInv
<1> DEFINE silent(a) == [a EXCEPT !.heard = FALSE]
<1>1. ASSUME NEW a \in traffic.acts
      PROVE  /\ silent(a) \in Acts /\ silent(a).news = a.news /\ silent(a).do = a.do
             /\ silent(a).stage = a.stage /\ a.news \in News
  <2>1. a \in Acts
    BY DEF FeedTypeOK
  <2>2. silent(a) \in Acts
    BY <2>1, Zenon DEF Acts
  <2>3. QED
    BY <2>1, <2>2 DEF Acts
<1>2. /\ rows' = rows
      /\ feed' = [news |-> {}, archived |-> {}, removed |-> {}, open |-> TRUE]
      /\ traffic'.stream = NoList /\ traffic'.loads = {Loading}
      /\ traffic'.acts = {silent(a) : a \in traffic.acts}
      /\ traffic' = [stream |-> NoList, loads |-> {Loading},
                     acts |-> {silent(a) : a \in traffic.acts}]
  BY DEF ReloadPage
<1> HIDE DEF silent
<1>3. /\ feedLog'.last = feedLog.last /\ feedLog'.mixed = feedLog.mixed
      /\ feedLog'.cut = feedLog.cut \cup {a.news : a \in traffic.acts}
      /\ feedLog' \in [left : [gestures : Nat, edits : Nat, troubles : Nat],
                       last : [News -> Gestures \cup {"none"}],
                       mixed : SUBSET News, cut : SUBSET News]
  <2> DEFINE left == [feedLog.left EXCEPT !["troubles"] = @ - 1]
             cut == feedLog.cut \cup {a.news : a \in traffic.acts}
  <2>1. feedLog' = [feedLog EXCEPT !.left = left, !.cut = cut]
    BY DEF ReloadPage, FeedTypeOK
  <2>2. left \in [gestures : Nat, edits : Nat, troubles : Nat] /\ cut \in SUBSET News
    BY <1>1 DEF FeedTypeOK, ReloadPage
  <2> HIDE DEF left, cut
  <2>3. /\ feedLog'.last = feedLog.last /\ feedLog'.mixed = feedLog.mixed
        /\ feedLog'.cut = cut
        /\ feedLog' \in [left : [gestures : Nat, edits : Nat, troubles : Nat],
                         last : [News -> Gestures \cup {"none"}],
                         mixed : SUBSET News, cut : SUBSET News]
    BY <2>1, <2>2 DEF FeedTypeOK
  <2>4. QED
    BY <2>3 DEF cut
<1>4. Loading \in Loads
  BY DEF Loading, Loads, MaybeList
<1>5. traffic' \in [stream : MaybeList, loads : SUBSET Loads, acts : SUBSET Acts]
  <2>1. {silent(a) : a \in traffic.acts} \in SUBSET Acts
    BY <1>1
  <2>2. QED
    BY <1>2, <1>4, <2>1 DEF MaybeList
<1>6. FeedTypeOK'
  BY <1>2, <1>3, <1>5 DEF FeedTypeOK
<1>7. OneRequest' /\ FoundToWrite'
  <2>1. ASSUME NEW b \in traffic'.acts
        PROVE  \E a \in traffic.acts :
                  b = silent(a) /\ b.news = a.news /\ b.do = a.do /\ b.stage = a.stage
    BY <1>1, <1>2
  <2>2. FoundToWrite'
    BY <2>1 DEF FoundToWrite
  <2>3. OneRequest'
    <3> SUFFICES ASSUME NEW b \in traffic'.acts, b.news \notin feedLog'.mixed
                 PROVE  /\ b.do = feedLog'.last[b.news]
                        /\ b.stage = "done" => Status(b.news)' = StatusAfter(b.do)
                        /\ \A c \in traffic'.acts : c.news = b.news => c = b
      BY DEF OneRequest
    <3>1. PICK a \in traffic.acts :
              b = silent(a) /\ b.news = a.news /\ b.do = a.do /\ b.stage = a.stage
      BY <2>1
    <3>2. /\ a.do = feedLog.last[a.news]
          /\ a.stage = "done" => Status(a.news) = StatusAfter(a.do)
          /\ \A d \in traffic.acts : d.news = a.news => d = a
      BY <1>3, <3>1 DEF OneRequest
    <3>3. Status(b.news)' = Status(b.news)
      BY <1>2 DEF Status
    <3>4. \A c \in traffic'.acts : c.news = b.news => c = b
      BY <2>1, <3>1, <3>2
    <3>5. QED
      BY <1>3, <3>1, <3>2, <3>3, <3>4
  <2>4. QED
    BY <2>2, <2>3
<1>8. ASSUME NEW n \in News
      PROVE  /\ NotListed(n)'
             /\ Acting(n) = {} <=> Acting(n)' = {}
             /\ n \notin feedLog'.cut => Acting(n) = {}
  BY <1>1, <1>2, <1>3 DEF NotListed, Acting, Loading
<1>9. LastGestureHolds'
  BY <1>2, <1>3, <1>8 DEF LastGestureHolds
<1>10. DismissedIsKept' /\ DismissedStaysGone'
  BY <1>2, <1>3, <1>8 DEF DismissedIsKept, DismissedStaysGone
<1>11. QED
  BY <1>6, <1>7, <1>9, <1>10

\* Every step of the feed keeps its invariant.
LEMMA FeedStep ==
    ASSUME FeedInv, [FeedNext]_feedVars
    PROVE  FeedInv'
<1>1. CASE UNCHANGED feedVars
  BY <1>1 DEF feedVars, FeedInv, FeedTypeOK, OneRequest, FoundToWrite, DismissedIsKept,
     DismissedStaysGone, LastGestureHolds, Acting, NotListed, Status
<1>2. QED
  BY <1>1, EditsKeepFeed, ReadsKeepFeed, ArrivalsKeepFeed, FailedLoadKeepsFeed, GesturesKeepFeed,
     ServerKeepsFeed, AnswersKeepFeed, ReloadKeepsFeed DEF FeedNext

-----------------------------------------------------------------------------
(* Proofs: the gateways and their bus *)

Presences == {"presence_state", "global_presence"}

\* A notification reaches the wire once for every other instance that runs.
LEMMA NotesToPeers ==
    ASSUME ClusterTypeOK, NEW r \in Instances, NEW users \in SUBSET Users,
           NEW type \in Presences \cup {"force_disconnect"} \cup Relays
    PROVE  /\ ToPeers(r, Note(r, type, users)) \subseteq Notes
           /\ \A m \in ToPeers(r, Note(r, type, users)) : m.type = type /\ m.users = users
           /\ \A q \in Instances \ {r} :
                 up[q] = "on" =>
                     \E m \in ToPeers(r, Note(r, type, users)) :
                         m.to = q /\ m.type = type /\ m.users = users
<1> DEFINE note(q) == [to |-> q, from |-> r, type |-> type, users |-> users]
<1>1. \A q : [Note(r, type, users) EXCEPT !.to = q] = note(q)
  BY DEF Note
<1>2. ToPeers(r, Note(r, type, users)) = {note(q) : q \in {p \in Instances \ {r} : up[p] = "on"}}
  <2> DEFINE copy(q) == [Note(r, type, users) EXCEPT !.to = q]
  <2>1. ToPeers(r, Note(r, type, users)) = {copy(q) : q \in {p \in Instances \ {r} : up[p] = "on"}}
    BY DEF ToPeers
  <2>2. \A q : copy(q) = note(q)
    BY <1>1
  <2> HIDE DEF copy, note
  <2>3. QED
    BY <2>1, <2>2
<1>3. \A q \in Instances : note(q) \in Notes
  BY DEF Notes, Presences, Relays
<1>4. \A q : note(q).to = q /\ note(q).type = type /\ note(q).users = users
  OBVIOUS
<1> HIDE DEF note
<1>5. QED
  BY <1>2, <1>3, <1>4

\* The two declarations of presence.
LEMMA PresenceNotes ==
    ASSUME ClusterTypeOK, OwnerAssumption, NEW r \in Instances, NEW g,
           g.conn \in SUBSET Sockets, g.members \in SUBSET Users
    PROVE  /\ presenceState(r, g) \subseteq Notes /\ globalPresence(r, g) \subseteq Notes
           /\ \A m \in presenceState(r, g) \cup globalPresence(r, g) : m.type \in Presences
<1>1. localOnlineUserIds(g) \in SUBSET Users
  BY DEF localOnlineUserIds, OwnerAssumption
<1>2. /\ presenceState(r, g) \subseteq Notes
      /\ \A m \in presenceState(r, g) : m.type = "presence_state"
  BY NotesToPeers DEF presenceState, Presences
<1>3. /\ globalPresence(r, g) \subseteq Notes
      /\ \A m \in globalPresence(r, g) : m.type = "global_presence"
  BY <1>1, NotesToPeers DEF globalPresence, Presences
<1>4. QED
  BY <1>2, <1>3 DEF Presences

\* What was announced to the browsers is all that recomputing changes.
LEMMA Recomputed ==
    ASSUME OwnerAssumption, NEW g \in Gateways
    PROVE  /\ recomputeGlobalPresence(g) \in Gateways
           /\ recomputeGlobalPresence(g).conn = g.conn
           /\ recomputeGlobalPresence(g).rooms = g.rooms
           /\ recomputeGlobalPresence(g).members = g.members
<1>1. onlineUserIds(g) \in SUBSET Users
  <2>1. \A q \in Instances : g.peerOnline[q].users \in SUBSET Users
    BY DEF Gateways, PeerViews
  <2>2. localOnlineUserIds(g) \in SUBSET Users
    BY DEF localOnlineUserIds, OwnerAssumption, Gateways
  <2>3. QED
    BY <2>1, <2>2 DEF onlineUserIds
<1>2. QED
  BY <1>1 DEF recomputeGlobalPresence, Gateways

\* The sockets of closing are out of the maps, with their users as members of the room.
LEMMA Disconnecting ==
    ASSUME ClusterTypeOK, OwnerAssumption, NEW r \in Instances, NEW closing \in SUBSET Sockets
    PROVE  LET d == handleDisconnect(r, closing)
           IN  /\ d.g \in Gateways
               /\ d.g.conn = rep[r].conn \ closing
               /\ d.g.rooms = rep[r].rooms \ closing
               /\ d.g.members = rep[r].members \ {Owner[s] : s \in closing \cap rep[r].rooms}
               /\ d.out \subseteq Notes
               /\ \A m \in d.out : m.type \in Presences
<1> DEFINE inRoom == closing \cap rep[r].rooms
           gone == {Owner[s] : s \in inRoom}
           left(c) == [rep[r] EXCEPT !.members = @ \ gone, !.rooms = @ \ closing,
                                     !.conn = @ \ c]
           g == IF closing = {} THEN rep[r] ELSE recomputeGlobalPresence(left(closing))
           globals == UNION {globalPresence(r, left(c)) : c \in (SUBSET closing) \ {{}}}
           locals == presenceState(r, left(closing))
           out == globals \cup (IF inRoom = {} THEN {} ELSE locals)
<1>1. handleDisconnect(r, closing) = [g |-> g, out |-> out]
  BY DEF handleDisconnect
<1>2. rep[r] \in Gateways
  BY DEF ClusterTypeOK
<1>3. ASSUME NEW c \in SUBSET closing
      PROVE  /\ left(c) \in Gateways /\ left(c).conn = rep[r].conn \ c
             /\ left(c).rooms = rep[r].rooms \ closing
             /\ left(c).members = rep[r].members \ gone
             /\ left(c).conn \in SUBSET Sockets /\ left(c).members \in SUBSET Users
  <2> HIDE DEF gone
  <2>1. QED
    BY <1>2, <1>3 DEF Gateways
<1>4. closing = {} => gone = {}
  OBVIOUS
<1>5. closing \in SUBSET closing
  OBVIOUS
<1> HIDE DEF left, gone
<1>6. /\ g \in Gateways /\ g.conn = rep[r].conn \ closing /\ g.rooms = rep[r].rooms \ closing
      /\ g.members = rep[r].members \ gone
  <2>1. CASE closing = {}
    BY <1>2, <1>4, <2>1 DEF Gateways
  <2>2. CASE closing # {}
    BY <1>3, <1>5, <2>2, Recomputed
  <2>3. QED
    BY <2>1, <2>2
<1>7. /\ globals \subseteq Notes /\ \A m \in globals : m.type \in Presences
      /\ locals \subseteq Notes /\ \A m \in locals : m.type \in Presences
  BY <1>3, <1>5, PresenceNotes
<1> HIDE DEF globals, locals
<1>8. out \subseteq Notes /\ \A m \in out : m.type \in Presences
  BY <1>7
<1> HIDE DEF g, out
<1>9. QED
  BY <1>1, <1>6, <1>8 DEF gone

-----------------------------------------------------------------------------
\* A step that moves nothing but presence, and may start an instance.
LEMMA QuietStep ==
    ASSUME ClusterInv, ClusterTypeOK',
           \A r \in Instances : /\ rep'[r].conn = rep[r].conn
                                /\ rep'[r].rooms = rep[r].rooms
                                /\ rep'[r].members = rep[r].members
                                /\ up[r] = "on" => up'[r] = "on",
           UNCHANGED <<sock, asked, banned, kicks, msg, historyVars>>,
           \A m \in wire' : m \in wire \/ m.type \in Presences,
           \A m \in wire : m \in wire' \/ m.type \in Presences
    PROVE  ClusterInv'
<1> USE DEF ClusterInv
<1>1. UNCHANGED <<late, overtaken, slipped, unkicked, unheard>>
  BY DEF historyVars
<1>2. SocketsLive'
  BY DEF SocketsLive, ClusterTypeOK
<1>3. NotesFit'
  BY DEF NotesFit, Presences, Relays
<1>4. \A r \in Instances, s \in Sockets : Excused(r, s) => Excused(r, s)'
  BY <1>1 DEF Excused, Presences
<1>5. VerifiedExcused'
  BY <1>4 DEF VerifiedExcused, SocketsLive
<1>6. DueInRoom'
  BY DEF DueInRoom, SocketsLive, ClusterTypeOK, Followed
<1>7. RoomsMatchSockets'
  BY <1>1 DEF RoomsMatchSockets
<1>8. BannedAreOut'
  <2>1. \A r \in Instances : \A s \in rep[r].conn : s \in Sockets
    BY DEF ClusterTypeOK, Gateways
  <2>2. BannedAreOut <=> \A r \in Instances : \A s \in rep[r].conn :
                            Owner[s] \in banned => Excused(r, s)
    BY DEF BannedAreOut, Excused
  <2>3. BannedAreOut' <=> \A r \in Instances : \A s \in rep'[r].conn :
                            Owner[s] \in banned' => Excused(r, s)'
    BY DEF BannedAreOut, Excused
  <2>4. QED
    BY <1>4, <2>1, <2>2, <2>3
<1>9. MessageReachesRoom'
  BY <1>1 DEF MessageReachesRoom, Presences, Relays
<1>10. QED
  BY <1>2, <1>3, <1>5, <1>6, <1>7, <1>8, <1>9

\* BannedAreOut and VerifiedExcused are one statement about the sockets an instance
\* knows or is about to know.
Known(r, s) == s \in rep[r].conn \/ (sock[s].st = "verified" /\ sock[s].at = r)

KnownExcused ==
    \A r \in Instances, s \in Sockets : Known(r, s) /\ Owner[s] \in banned => Excused(r, s)

\* For any banned user, on any instance.
LEMMA ExcuseForms ==
    ASSUME ClusterTypeOK, SocketsLive
    PROVE  KnownExcused <=> VerifiedExcused /\ BannedAreOut
<1>1. \A r \in Instances : rep[r].conn \subseteq Sockets
  BY DEF ClusterTypeOK, Gateways
<1>2. \A s \in Sockets : sock[s].st = "verified" => sock[s].at \in Instances
  BY DEF SocketsLive
<1>3. VerifiedExcused <=> \A r \in Instances, s \in Sockets :
          sock[s].st = "verified" /\ sock[s].at = r /\ Owner[s] \in banned => Excused(r, s)
  BY <1>2 DEF VerifiedExcused
<1>4. BannedAreOut <=> \A r \in Instances, s \in Sockets :
          s \in rep[r].conn /\ Owner[s] \in banned => Excused(r, s)
  BY <1>1 DEF BannedAreOut, Excused
<1>5. QED
  BY <1>3, <1>4 DEF KnownExcused, Known

\* The same after a step.
LEMMA ExcuseFormsNext ==
    ASSUME ClusterTypeOK', SocketsLive'
    PROVE  KnownExcused' <=> VerifiedExcused' /\ BannedAreOut'
<1>1. \A r \in Instances : rep'[r].conn \subseteq Sockets
  BY DEF ClusterTypeOK, Gateways
<1>2. \A s \in Sockets : sock'[s].st = "verified" => sock'[s].at \in Instances
  BY DEF SocketsLive
<1>3. VerifiedExcused' <=> \A r \in Instances, s \in Sockets :
          sock'[s].st = "verified" /\ sock'[s].at = r /\ Owner[s] \in banned' => Excused(r, s)'
  <2>1. ASSUME NEW s \in Sockets PROVE Excused(sock[s].at, s)' <=>
            \/ s \in slipped'
            \/ <<sock'[s].at, Owner[s]>> \in unkicked'
            \/ \E k \in kicks' : k[2] = Owner[s]
            \/ \E m \in wire' : m.to = sock'[s].at /\ m.type = "force_disconnect"
                                /\ Owner[s] \in m.users
    BY DEF Excused
  <2>2. QED
    BY <1>2, <2>1 DEF VerifiedExcused, Excused
<1>4. BannedAreOut' <=> \A r \in Instances, s \in Sockets :
          s \in rep'[r].conn /\ Owner[s] \in banned' => Excused(r, s)'
  BY <1>1 DEF BannedAreOut, Excused
<1>5. QED
  BY <1>3, <1>4 DEF KnownExcused, Known

\* Sockets of one instance leave, by themselves or because their user is banned; extra
\* is what is published besides.
Leaving(r, closing, extra) ==
    /\ \A s \in closing : sock[s].st = "open" /\ sock[s].at = r
    /\ rep' = [rep EXCEPT ![r] = handleDisconnect(r, closing).g]
    /\ CloseBrowserSide(r, closing)
    /\ wire' \subseteq wire \cup handleDisconnect(r, closing).out \cup extra
    /\ \A m \in wire : m.type \in Relays => m \in wire'
    /\ \A m \in extra : m.type = "force_disconnect" /\ \E u \in Users : m.users = {u}
    /\ UNCHANGED <<up, asked, msg, unkicked, unheard>>

\* What holds then, whatever becomes of bans and their announcements.
AfterLeaving(closing) ==
    /\ rep' \in [Instances -> Gateways] /\ wire' \subseteq Notes
    /\ sock' \in [Sockets -> [st : {"idle", "verified", "open", "closed"},
                              at : Instances \cup {None}, asks : Nat, leaves : Nat]]
    /\ late' \subseteq Instances \X Users /\ overtaken' \subseteq Instances \X Users
    /\ SocketsLive' /\ NotesFit' /\ DueInRoom' /\ RoomsMatchSockets' /\ MessageReachesRoom'
    /\ \A q \in Instances, s \in Sockets : Known(q, s)' => Known(q, s) /\ s \notin closing

\* A gateway and the browsers at the other end forget the same sockets.
LEMMA SocketsLeave ==
    ASSUME ClusterInv, OwnerAssumption, NEW r \in Instances, NEW closing \in SUBSET Sockets,
           NEW extra \in SUBSET Notes, Leaving(r, closing, extra)
    PROVE  AfterLeaving(closing)
<1> USE DEF ClusterInv
<1> DEFINE d == handleDisconnect(r, closing)
           gone == {Owner[s] : s \in closing \cap rep[r].rooms}
<1>1. closing \in SUBSET Sockets /\ \A s \in closing : sock[s].st = "open" /\ sock[s].at = r
  BY DEF Leaving
<1>2. /\ d.g \in Gateways /\ d.g.conn = rep[r].conn \ closing
      /\ d.g.rooms = rep[r].rooms \ closing /\ d.g.members = rep[r].members \ gone
      /\ d.out \subseteq Notes /\ \A m \in d.out : m.type \in Presences
  BY <1>1, Disconnecting
<1> HIDE DEF d
<1>3. /\ rep' = [rep EXCEPT ![r] = d.g] /\ wire' \subseteq wire \cup d.out \cup extra
      /\ \A m \in wire : m.type \in Relays => m \in wire'
      /\ \A m \in extra : m.type = "force_disconnect" /\ \E u \in Users : m.users = {u}
      /\ UNCHANGED <<up, asked, msg, unkicked, unheard>>
  BY DEF d, Leaving
<1>0. UNCHANGED <<up, asked, msg, unkicked, unheard>> /\ CloseBrowserSide(r, closing)
  BY DEF Leaving
<1> USE <1>0
<1>4. /\ rep' \in [Instances -> Gateways]
      /\ rep'[r] = d.g /\ \A q \in Instances : q # r => rep'[q] = rep[q]
  BY <1>2, <1>3 DEF ClusterTypeOK
<1>5. wire' \subseteq Notes
  BY <1>2, <1>3 DEF ClusterTypeOK
<1>6. /\ sock' \in [Sockets -> [st : {"idle", "verified", "open", "closed"},
                                at : Instances \cup {None}, asks : Nat, leaves : Nat]]
      /\ \A s \in closing : sock'[s].st = "closed" /\ sock'[s].at = sock[s].at
      /\ \A s \in Sockets \ closing : sock'[s] = sock[s]
  <2>1. sock' = [s \in Sockets |-> IF s \in closing
                    THEN [sock[s] EXCEPT !.st = "closed"] ELSE sock[s]]
    BY DEF CloseBrowserSide
  <2>2. ASSUME NEW s \in Sockets
        PROVE  /\ [sock[s] EXCEPT !.st = "closed"].st = "closed"
               /\ [sock[s] EXCEPT !.st = "closed"].at = sock[s].at
               /\ [sock[s] EXCEPT !.st = "closed"] \in
                     [st : {"idle", "verified", "open", "closed"},
                      at : Instances \cup {None}, asks : Nat, leaves : Nat]
    BY DEF ClusterTypeOK
  <2>3. QED
    BY <1>1, <2>1, <2>2 DEF ClusterTypeOK
<1>7. /\ late' = late \ {<<r, Owner[s]>> : s \in closing \cap rep[r].rooms}
      /\ overtaken' = overtaken \cup OvertakenBy(r, closing)
  BY DEF CloseBrowserSide
<1>8. late' \subseteq Instances \X Users /\ overtaken' \subseteq Instances \X Users
  <2>1. OvertakenBy(r, closing) \subseteq Instances \X Users
    BY <1>1 DEF OvertakenBy, OwnerAssumption
  <2>2. QED
    BY <1>7, <2>1 DEF ClusterTypeOK
<1>9. SocketsLive'
  <2>1. ASSUME NEW q \in Instances, NEW s \in rep'[q].conn \cup rep'[q].rooms
        PROVE  s \in Sockets \ closing /\ s \in rep[q].conn \cup rep[q].rooms
    <3>1. s \in rep[q].conn \cup rep[q].rooms
      BY <1>2, <1>4, <2>1
    <3>2. s \in Sockets /\ sock[s].at = q
      BY <3>1 DEF ClusterTypeOK, Gateways, SocketsLive
    <3>3. s \notin closing
      BY <1>1, <1>2, <1>4, <2>1, <3>2
    <3>4. QED
      BY <3>1, <3>2, <3>3
  <2>2. QED
    BY <1>1, <1>6, <2>1 DEF SocketsLive
<1>10. NotesFit'
  BY <1>2, <1>3 DEF NotesFit, Presences, Relays
<1>11. DueInRoom'
  <2> SUFFICES ASSUME msg # None, NEW s \in msg.due
               PROVE  \/ sock'[s].st = "closed"
                      \/ (sock'[s].st = "open" /\ s \in rep'[sock'[s].at].rooms)
    BY DEF DueInRoom
  <2>1. s \in Sockets
    BY DEF ClusterTypeOK, Followed
  <2>2. CASE s \in closing
    BY <1>6, <2>2
  <2>3. CASE s \notin closing
    <3>1. sock'[s] = sock[s]
      BY <1>6, <2>1, <2>3
    <3>2. sock[s].st # "idle" => sock[s].at \in Instances
      BY <2>1 DEF SocketsLive
    <3>3. QED
      BY <1>2, <1>4, <2>1, <2>3, <3>1, <3>2 DEF DueInRoom
  <2>4. QED
    BY <2>2, <2>3
<1>12. RoomsMatchSockets'
  <2> SUFFICES ASSUME NEW q \in Instances
               PROVE  /\ \A u \in rep'[q].members :
                            (\E s \in rep'[q].rooms : Owner[s] = u) \/ <<q, u>> \in late'
                      /\ \A s \in rep'[q].rooms :
                            Owner[s] \in rep'[q].members \/ <<q, Owner[s]>> \in overtaken'
    BY DEF RoomsMatchSockets
  <2>1. CASE q # r
    BY <1>4, <1>7, <2>1 DEF RoomsMatchSockets
  <2>2. CASE q = r
    <3>1. ASSUME NEW u \in rep'[r].members
          PROVE  (\E s \in rep'[r].rooms : Owner[s] = u) \/ <<r, u>> \in late'
      <4>1. u \in rep[r].members /\ u \notin gone
        BY <1>2, <1>4
      <4>2. CASE <<r, u>> \in late
        BY <1>7, <4>1, <4>2
      <4>3. ASSUME NEW s \in rep[r].rooms, Owner[s] = u
            PROVE  s \in rep'[r].rooms
        BY <1>2, <1>4, <4>1, <4>3
      <4>4. QED
        BY <4>1, <4>2, <4>3 DEF RoomsMatchSockets
    <3>2. ASSUME NEW s \in rep'[r].rooms
          PROVE  Owner[s] \in rep'[r].members \/ <<r, Owner[s]>> \in overtaken'
      <4>1. s \in rep[r].rooms \ closing
        BY <1>2, <1>4
      <4>2. CASE Owner[s] \in gone
        <5>1. PICK t \in closing \cap rep[r].rooms : Owner[t] = Owner[s]
          BY <4>2
        <5>2. <<r, Owner[t]>> \in OvertakenBy(r, closing)
          BY <4>1, <5>1 DEF OvertakenBy
        <5>3. QED
          BY <1>7, <5>1, <5>2
      <4>3. CASE Owner[s] \notin gone
        BY <1>2, <1>4, <1>7, <4>1, <4>3 DEF RoomsMatchSockets
      <4>4. QED
        BY <4>2, <4>3
    <3>3. QED
      BY <2>2, <3>1, <3>2
  <2>3. QED
    BY <2>1, <2>2
<1>13. MessageReachesRoom'
  <2> SUFFICES ASSUME msg # None, NEW q \in Instances, NEW s \in rep'[q].rooms \cap msg.due
               PROVE  \/ s \in msg.got \/ q \in unheard
                      \/ \E m \in wire' : m.to = q /\ m.type \in Relays
    BY DEF MessageReachesRoom, Relays
  <2>1. s \in rep[q].rooms
    BY <1>2, <1>4
  <2>2. \/ s \in msg.got \/ q \in unheard
        \/ \E m \in wire : m.to = q /\ m.type \in Relays
    BY <2>1 DEF MessageReachesRoom, Relays
  <2>3. QED
    BY <1>3, <2>2
<1>14. ASSUME NEW q \in Instances, NEW s \in Sockets, Known(q, s)'
       PROVE  Known(q, s) /\ s \notin closing
  <2>1. CASE s \in rep'[q].conn
    <3>1. s \in rep[q].conn
      BY <1>2, <1>4, <2>1
    <3>2. sock[s].at = q
      BY <3>1 DEF SocketsLive
    <3>3. s \notin closing
      BY <1>1, <1>2, <1>4, <2>1, <3>2
    <3>4. QED
      BY <3>1, <3>3 DEF Known
  <2>2. CASE sock'[s].st = "verified" /\ sock'[s].at = q
    BY <1>6, <2>2 DEF Known
  <2>3. QED
    BY <1>14, <2>1, <2>2 DEF Known
<1>15. QED
  BY <1>4, <1>5, <1>6, <1>8, <1>9, <1>10, <1>11, <1>12, <1>13, <1>14
     DEF AfterLeaving

-----------------------------------------------------------------------------
\* A presence that arrives: remembered, and what the browsers are shown recomputed.
LEMMA PresenceArrives ==
    ASSUME ClusterInv, OwnerAssumption, NEW m \in wire, DeliverPresence(m)
    PROVE  ClusterInv'
<1> USE DEF ClusterInv
<1> DEFINE g == rep[m.to]
           declared == [g EXCEPT !.peerPresence[m.from] = Declared(m.users)]
           online == [g EXCEPT !.peerOnline[m.from] = Declared(m.users)]
           g1 == IF m.type = "presence_state" THEN declared ELSE recomputeGlobalPresence(online)
<1>1. m \in Notes /\ m.to \in Instances /\ g \in Gateways
  BY DEF ClusterTypeOK, Notes
<1>2. rep' = [rep EXCEPT ![m.to] = g1] /\ wire' = wire \ {m} /\ m.type \in Presences
  BY DEF DeliverPresence, Presences
<1>3. Declared(m.users) \in [users : SUBSET Users, age : Nat]
  BY <1>1 DEF Declared, Notes
<1>4. /\ declared \in Gateways /\ declared.conn = g.conn /\ declared.rooms = g.rooms
      /\ declared.members = g.members
      /\ online \in Gateways /\ online.conn = g.conn /\ online.rooms = g.rooms
      /\ online.members = g.members
  <2> HIDE DEF g
  <2>1. QED
    BY <1>1, <1>3 DEF Gateways, PeerViews
<1> HIDE DEF declared, online
<1>5. /\ g1 \in Gateways /\ g1.conn = g.conn /\ g1.rooms = g.rooms /\ g1.members = g.members
  BY <1>4, Recomputed
<1> HIDE DEF g1
<1>6. /\ rep' \in [Instances -> Gateways]
      /\ \A r \in Instances : /\ rep'[r].conn = rep[r].conn /\ rep'[r].rooms = rep[r].rooms
                              /\ rep'[r].members = rep[r].members
  BY <1>1, <1>2, <1>5 DEF ClusterTypeOK
<1>7. UNCHANGED <<up, sock, asked, banned, kicks, msg, historyVars>>
  BY DEF DeliverPresence
<1>8. ClusterTypeOK'
  BY <1>2, <1>6, <1>7 DEF ClusterTypeOK, historyVars
<1>9. QED
  BY <1>2, <1>6, <1>7, <1>8, QuietStep

\* A heartbeat: both declarations are sent again.
LEMMA HeartbeatStep ==
    ASSUME ClusterInv, OwnerAssumption, NEW r \in Instances, Heartbeat(r)
    PROVE  ClusterInv'
<1> USE DEF ClusterInv
<1> DEFINE out == globalPresence(r, rep[r])
                  \cup (IF rep[r].members # {} THEN presenceState(r, rep[r]) ELSE {})
<1>1. rep[r] \in Gateways /\ rep[r].conn \in SUBSET Sockets /\ rep[r].members \in SUBSET Users
  BY DEF ClusterTypeOK, Gateways
<1>2. out \subseteq Notes /\ \A m \in out : m.type \in Presences
  BY <1>1, PresenceNotes
<1> HIDE DEF out
<1>3. rep' = [rep EXCEPT ![r] = recomputeGlobalPresence(rep[r])] /\ wire' = wire \cup out
  BY DEF Heartbeat, out
<1>4. /\ rep' \in [Instances -> Gateways]
      /\ \A q \in Instances : /\ rep'[q].conn = rep[q].conn /\ rep'[q].rooms = rep[q].rooms
                              /\ rep'[q].members = rep[q].members
  BY <1>1, <1>3, Recomputed DEF ClusterTypeOK
<1>5. UNCHANGED <<up, sock, asked, banned, kicks, msg, historyVars>>
  BY DEF Heartbeat
<1>6. ClusterTypeOK'
  BY <1>2, <1>3, <1>4, <1>5 DEF ClusterTypeOK, historyVars
<1>7. QED
  BY <1>2, <1>3, <1>4, <1>5, <1>6, QuietStep

\* A period passes: declarations grow older or are dropped.
LEMMA PeriodStep ==
    ASSUME ClusterInv, TTLAssumption, Period
    PROVE  ClusterInv'
<1> USE DEF ClusterInv
<1> DEFINE older(r) == [rep[r] EXCEPT
            !.peerPresence = [q \in Instances |-> Older(rep[r].peerPresence[q])],
            !.peerOnline = [q \in Instances |-> Older(rep[r].peerOnline[q])]]
<1>1. \A e \in [users : SUBSET Users, age : Nat] : Older(e) \in [users : SUBSET Users, age : Nat]
  BY DEF Older, Declared
<1>2. ASSUME NEW r \in Instances
      PROVE  /\ older(r) \in Gateways /\ older(r).conn = rep[r].conn
             /\ older(r).rooms = rep[r].rooms /\ older(r).members = rep[r].members
  <2>1. rep[r] \in Gateways
    BY DEF ClusterTypeOK
  <2>2. /\ [q \in Instances |-> Older(rep[r].peerPresence[q])] \in PeerViews
        /\ [q \in Instances |-> Older(rep[r].peerOnline[q])] \in PeerViews
    BY <1>1, <2>1 DEF Gateways, PeerViews
  <2>3. QED
    BY <2>1, <2>2 DEF Gateways
<1>3. rep' = [r \in Instances |-> older(r)] /\ wire' = wire
  BY DEF Period
<1> HIDE DEF older
<1>4. /\ rep' \in [Instances -> Gateways]
      /\ \A q \in Instances : /\ rep'[q].conn = rep[q].conn /\ rep'[q].rooms = rep[q].rooms
                              /\ rep'[q].members = rep[q].members
  BY <1>2, <1>3
<1>5. UNCHANGED <<up, sock, asked, banned, kicks, msg, historyVars>>
  BY DEF Period
<1>6. ClusterTypeOK'
  BY <1>3, <1>4, <1>5 DEF ClusterTypeOK, historyVars
<1>7. QED
  BY <1>3, <1>4, <1>5, <1>6, QuietStep

\* Listeners and the start of an instance.
LEMMA InstancesKeepCluster ==
    ASSUME ClusterInv, NEW r \in Instances,
           LoseListener(r) \/ connectListener(r) \/ Start(r)
    PROVE  ClusterInv'
<1> USE DEF ClusterInv
<1>1. UNCHANGED <<rep, sock, asked, wire, banned, kicks, msg, historyVars>>
  BY DEF LoseListener, connectListener, Start
<1>2. up' = up \/ up' = [up EXCEPT ![r] = "on"]
  BY DEF LoseListener, connectListener, Start
<1>3. /\ up' \in [Instances -> {"off", "on", "dead"}]
      /\ \A q \in Instances : up[q] = "on" => up'[q] = "on"
  BY <1>2 DEF ClusterTypeOK
<1>4. ClusterTypeOK'
  BY <1>1, <1>3 DEF ClusterTypeOK, historyVars
<1>5. QED
  BY <1>1, <1>3, <1>4, QuietStep

\* A tab is closed: no ban is announced or forgotten.
LEMMA CloseTabStep ==
    ASSUME ClusterInv, OwnerAssumption, NEW s \in Sockets, CloseTab(s)
    PROVE  ClusterInv'
<1>a. /\ ClusterTypeOK /\ SocketsLive /\ NotesFit /\ VerifiedExcused /\ DueInRoom
      /\ RoomsMatchSockets /\ BannedAreOut /\ MessageReachesRoom
  BY DEF ClusterInv
<1> USE <1>a
<1> DEFINE r == sock[s].at
<1>1. sock[s].st = "open" /\ r \in Instances
  BY DEF CloseTab, SocketsLive
<1>2. /\ rep' = [rep EXCEPT ![r] = handleDisconnect(r, {s}).g]
      /\ wire' = wire \cup handleDisconnect(r, {s}).out
      /\ CloseBrowserSide(r, {s})
      /\ UNCHANGED <<up, asked, banned, kicks, msg, slipped, unkicked, unheard>>
  BY DEF CloseTab
<1>3. \A t \in {s} : sock[t].st = "open" /\ sock[t].at = r
  BY <1>1
<1> HIDE DEF r
<1>4. AfterLeaving({s})
  <2>1. Leaving(r, {s}, {})
    BY <1>2, <1>3 DEF Leaving
  <2>2. {s} \in SUBSET Sockets /\ {} \in SUBSET Notes
    OBVIOUS
  <2>3. QED
    BY <1>1, <2>1, <2>2, SocketsLeave
<1>5. ClusterTypeOK'
  BY <1>2, <1>4 DEF ClusterTypeOK, AfterLeaving
<1>6. KnownExcused'
  BY <1>2, <1>4, ExcuseForms DEF KnownExcused, Excused, AfterLeaving
<1>7. QED
  BY <1>4, <1>5, <1>6, ExcuseFormsNext DEF ClusterInv, AfterLeaving

\* The sockets of a user that a gateway knows are its own and open.
LEMMA SocketsOfUser ==
    ASSUME ClusterTypeOK, SocketsLive, NEW r \in Instances, NEW u
    PROVE  /\ SocketsOf(r, u) \in SUBSET Sockets
           /\ \A s \in SocketsOf(r, u) : sock[s].st = "open" /\ sock[s].at = r
           /\ \A s \in Sockets : Owner[s] = u /\ Known(r, s) /\ s \notin SocketsOf(r, u)
                  => s \in Slipping(r, u)
BY DEF ClusterTypeOK, Gateways, SocketsLive, SocketsOf, Known, Slipping

\* The instance of the ban disconnects the user, and tells every other instance that runs.
LEMMA DisconnectStep ==
    ASSUME ClusterInv, OwnerAssumption, NEW r \in Instances, NEW u \in Users,
           disconnectUser(r, u)
    PROVE  ClusterInv'
<1>a. /\ ClusterTypeOK /\ SocketsLive /\ NotesFit /\ VerifiedExcused /\ DueInRoom
      /\ RoomsMatchSockets /\ BannedAreOut /\ MessageReachesRoom
  BY DEF ClusterInv
<1> USE <1>a
<1> DEFINE closing == SocketsOf(r, u)
           extra == ToPeers(r, Note(r, "force_disconnect", {u}))
<1>1. /\ closing \in SUBSET Sockets
      /\ \A t \in closing : sock[t].st = "open" /\ sock[t].at = r
      /\ \A s \in Sockets : Owner[s] = u /\ Known(r, s) /\ s \notin closing
             => s \in Slipping(r, u)
  BY SocketsOfUser
<1>2. /\ extra \subseteq Notes
      /\ \A m \in extra : m.type = "force_disconnect" /\ m.users = {u}
      /\ \A q \in Instances \ {r} :
            up[q] = "on" => \E m \in extra : m.to = q /\ m.type = "force_disconnect"
                                             /\ m.users = {u}
  BY NotesToPeers
<1>3. /\ rep' = [rep EXCEPT ![r] = handleDisconnect(r, closing).g]
      /\ wire' = wire \cup handleDisconnect(r, closing).out \cup extra
      /\ CloseBrowserSide(r, closing)
      /\ kicks' = kicks \ {<<r, u>>} /\ slipped' = slipped \cup Slipping(r, u)
      /\ UNCHANGED <<up, asked, banned, msg, unkicked, unheard>>
  BY DEF disconnectUser
<1> HIDE DEF closing, extra
<1>4. AfterLeaving(closing)
  <2>1. Leaving(r, closing, extra)
    BY <1>1, <1>2, <1>3 DEF Leaving
  <2>2. QED
    BY <1>1, <1>2, <2>1, SocketsLeave
<1>5. ClusterTypeOK'
  <2>1. Slipping(r, u) \subseteq Sockets
    BY DEF Slipping
  <2>2. QED
    BY <1>3, <1>4, <2>1 DEF ClusterTypeOK, AfterLeaving
<1>6. KnownExcused'
  <2> SUFFICES ASSUME NEW q \in Instances, NEW s \in Sockets, Known(q, s)', Owner[s] \in banned
               PROVE  Excused(q, s)'
    BY <1>3 DEF KnownExcused
  <2>1. Known(q, s) /\ s \notin closing
    BY <1>4 DEF AfterLeaving
  <2>2. Excused(q, s)
    BY <2>1, ExcuseForms DEF KnownExcused
  <2>3. CASE Owner[s] = u
    <3>1. CASE q = r
      BY <1>1, <1>3, <2>1, <2>3, <3>1 DEF Excused
    <3>2. CASE q # r
      <4>1. up[q] = "on"
        BY <2>1 DEF Known, SocketsLive
      <4>2. PICK m \in extra : m.to = q /\ m.type = "force_disconnect" /\ m.users = {u}
        BY <1>2, <3>2, <4>1
      <4>3. QED
        BY <1>3, <2>3, <4>2 DEF Excused
    <3>3. QED
      BY <3>1, <3>2
  <2>4. CASE Owner[s] # u
    BY <1>3, <2>2, <2>4 DEF Excused
  <2>5. QED
    BY <2>3, <2>4
<1>7. QED
  BY <1>4, <1>5, <1>6, ExcuseFormsNext DEF ClusterInv, AfterLeaving

\* Another instance hears of the ban.
LEMMA KickArrives ==
    ASSUME ClusterInv, OwnerAssumption, NEW m \in wire, DeliverKick(m)
    PROVE  ClusterInv'
<1>a. /\ ClusterTypeOK /\ SocketsLive /\ NotesFit /\ VerifiedExcused /\ DueInRoom
      /\ RoomsMatchSockets /\ BannedAreOut /\ MessageReachesRoom
  BY DEF ClusterInv
<1> USE <1>a
<1> DEFINE r == m.to
           u == CHOOSE v \in m.users : TRUE
           closing == SocketsOf(r, u)
<1>1. m.type = "force_disconnect" /\ m \in Notes /\ r \in Instances
  BY DEF DeliverKick, ClusterTypeOK, Notes
<1>2. m.users = {u}
  BY <1>1 DEF NotesFit
<1>3. /\ rep' = [rep EXCEPT ![r] = handleDisconnect(r, closing).g]
      /\ wire' = (wire \ {m}) \cup handleDisconnect(r, closing).out
      /\ CloseBrowserSide(r, closing)
      /\ slipped' = slipped \cup Slipping(r, u)
      /\ UNCHANGED <<up, asked, banned, kicks, msg, unkicked, unheard>>
  BY DEF DeliverKick
<1> HIDE DEF r, u
<1>4. /\ closing \in SUBSET Sockets
      /\ \A t \in closing : sock[t].st = "open" /\ sock[t].at = r
      /\ \A s \in Sockets : Owner[s] = u /\ Known(r, s) /\ s \notin closing
             => s \in Slipping(r, u)
  BY <1>1, SocketsOfUser
<1> HIDE DEF closing
<1>5. AfterLeaving(closing)
  <2>1. Leaving(r, closing, {})
    BY <1>1, <1>3, <1>4 DEF Leaving, Relays
  <2>2. {} \in SUBSET Notes
    OBVIOUS
  <2>3. QED
    BY <1>1, <1>4, <2>1, <2>2, SocketsLeave
<1>6. ClusterTypeOK'
  <2>1. Slipping(r, u) \subseteq Sockets
    BY DEF Slipping
  <2>2. QED
    BY <1>3, <1>5, <2>1 DEF ClusterTypeOK, AfterLeaving
<1>7. KnownExcused'
  <2> SUFFICES ASSUME NEW q \in Instances, NEW s \in Sockets, Known(q, s)', Owner[s] \in banned
               PROVE  Excused(q, s)'
    BY <1>3 DEF KnownExcused
  <2>1. Known(q, s) /\ s \notin closing
    BY <1>5 DEF AfterLeaving
  <2>2. Excused(q, s)
    BY <2>1, ExcuseForms DEF KnownExcused
  <2>3. CASE q = r /\ Owner[s] = u
    BY <1>3, <1>4, <2>1, <2>3 DEF Excused
  <2>4. CASE ~(q = r /\ Owner[s] = u)
    <3>1. ASSUME NEW n \in wire, n.to = q, Owner[s] \in n.users
          PROVE  n \in wire'
      BY <1>2, <1>3, <2>4, <3>1 DEF r
    <3>2. QED
      BY <1>3, <2>2, <3>1 DEF Excused
  <2>5. QED
    BY <2>3, <2>4
<1>8. QED
  BY <1>5, <1>6, <1>7, ExcuseFormsNext DEF ClusterInv, AfterLeaving

-----------------------------------------------------------------------------
\* The gateways, with the room and the members of the one a handler ran on.
LEMMA OneGateway ==
    ASSUME ClusterTypeOK, NEW r \in Instances, NEW g \in Gateways,
           rep' = [rep EXCEPT ![r] = g]
    PROVE  /\ rep' \in [Instances -> Gateways] /\ rep'[r] = g
           /\ \A q \in Instances : q # r => rep'[q] = rep[q]
BY DEF ClusterTypeOK

\* Only a user who is not banned passes the handshake.
LEMMA AuthenticateStep ==
    ASSUME ClusterInv, NEW s \in Sockets, NEW r \in Instances, Authenticate(s, r)
    PROVE  ClusterInv'
<1>a. /\ ClusterTypeOK /\ SocketsLive /\ NotesFit /\ VerifiedExcused /\ DueInRoom
      /\ RoomsMatchSockets /\ BannedAreOut /\ MessageReachesRoom
  BY DEF ClusterInv
<1> USE <1>a
<1>1. /\ sock[s].st = "idle" /\ up[r] = "on" /\ Owner[s] \notin banned
      /\ sock' = [sock EXCEPT ![s] = [@ EXCEPT !.st = "verified", !.at = r]]
      /\ UNCHANGED <<up, rep, wire, asked, banned, kicks, msg, late, overtaken, slipped,
                     unkicked, unheard>>
  BY DEF Authenticate, gatewayVars, historyVars
<1>2. /\ sock' \in [Sockets -> [st : {"idle", "verified", "open", "closed"},
                                at : Instances \cup {None}, asks : Nat, leaves : Nat]]
      /\ sock'[s].st = "verified" /\ sock'[s].at = r
      /\ \A t \in Sockets : t # s => sock'[t] = sock[t]
  BY <1>1 DEF ClusterTypeOK
<1>3. ClusterTypeOK'
  BY <1>1, <1>2 DEF ClusterTypeOK
<1>4. \A q \in Instances : s \notin rep[q].conn \cup rep[q].rooms
  BY <1>1 DEF SocketsLive
<1>5. SocketsLive'
  <2>1. \A q \in Instances : rep[q].conn \subseteq Sockets /\ rep[q].rooms \subseteq Sockets
    BY DEF ClusterTypeOK, Gateways
  <2>2. QED
    BY <1>1, <1>2, <1>4, <2>1 DEF SocketsLive
<1>6. NotesFit' /\ RoomsMatchSockets' /\ MessageReachesRoom'
  BY <1>1 DEF NotesFit, RoomsMatchSockets, MessageReachesRoom
<1>7. DueInRoom'
  <2>1. msg # None => msg.due \subseteq Sockets
    BY DEF ClusterTypeOK, Followed
  <2>2. msg # None => s \notin msg.due
    BY <1>1 DEF DueInRoom
  <2>3. QED
    BY <1>1, <1>2, <2>1, <2>2 DEF DueInRoom
<1>8. KnownExcused'
  BY <1>1, <1>2, ExcuseForms DEF KnownExcused, Known, Excused
<1>9. QED
  BY <1>3, <1>5, <1>6, <1>7, <1>8, ExcuseFormsNext DEF ClusterInv

\* A socket that was verified is connected, ban or no ban in between.
LEMMA ConnectionStep ==
    ASSUME ClusterInv, OwnerAssumption, NEW s \in Sockets, handleConnection(s)
    PROVE  ClusterInv'
<1>a. /\ ClusterTypeOK /\ SocketsLive /\ NotesFit /\ VerifiedExcused /\ DueInRoom
      /\ RoomsMatchSockets /\ BannedAreOut /\ MessageReachesRoom
  BY DEF ClusterInv
<1> USE <1>a
<1> DEFINE r == sock[s].at
           g1 == [rep[r] EXCEPT !.conn = @ \cup {s}]
<1>1. sock[s].st = "verified" /\ r \in Instances /\ rep[r] \in Gateways
  BY DEF handleConnection, SocketsLive, ClusterTypeOK
<1>2. /\ g1 \in Gateways /\ g1.conn = rep[r].conn \cup {s} /\ g1.rooms = rep[r].rooms
      /\ g1.members = rep[r].members /\ g1.conn \in SUBSET Sockets
      /\ g1.members \in SUBSET Users
  <2> HIDE DEF r
  <2>1. QED
    BY <1>1 DEF Gateways
<1>3. /\ sock' = [sock EXCEPT ![s].st = "open"]
      /\ rep' = [rep EXCEPT ![r] = recomputeGlobalPresence(g1)]
      /\ wire' = wire \cup globalPresence(r, g1)
      /\ UNCHANGED <<up, asked, banned, kicks, msg, late, overtaken, slipped, unkicked,
                     unheard>>
  BY DEF handleConnection, historyVars
<1> HIDE DEF g1
<1>4. /\ rep' \in [Instances -> Gateways] /\ rep'[r].conn = rep[r].conn \cup {s}
      /\ \A q \in Instances : /\ q # r => rep'[q] = rep[q]
                              /\ rep'[q].rooms = rep[q].rooms
                              /\ rep'[q].members = rep[q].members
  BY <1>1, <1>2, <1>3, OneGateway, Recomputed
<1>5. /\ globalPresence(r, g1) \subseteq Notes
      /\ \A m \in globalPresence(r, g1) : m.type \in Presences
  BY <1>1, <1>2, PresenceNotes
<1>6. /\ sock' \in [Sockets -> [st : {"idle", "verified", "open", "closed"},
                                at : Instances \cup {None}, asks : Nat, leaves : Nat]]
      /\ sock'[s].st = "open" /\ sock'[s].at = r
      /\ \A t \in Sockets : t # s => sock'[t] = sock[t]
  BY <1>3 DEF ClusterTypeOK
<1> HIDE DEF r
<1>7. ClusterTypeOK'
  BY <1>3, <1>4, <1>5, <1>6 DEF ClusterTypeOK
<1>8. SocketsLive'
  <2>1. \A q \in Instances : rep[q].conn \subseteq Sockets /\ rep[q].rooms \subseteq Sockets
    BY DEF ClusterTypeOK, Gateways
  <2>2. \A q \in Instances : s \notin rep[q].conn \cup rep[q].rooms
    BY <1>1 DEF SocketsLive
  <2>3. up[r] = "on"
    BY <1>1 DEF SocketsLive, r
  <2>4. ASSUME NEW t \in Sockets
        PROVE  /\ sock'[t].st # "idle" => sock'[t].at \in Instances
               /\ sock'[t].st \in {"verified", "open"} => up'[sock'[t].at] = "on"
               /\ t \in asked' => sock'[t].st # "idle"
    BY <1>1, <1>3, <1>6, <2>3 DEF SocketsLive
  <2>5. ASSUME NEW q \in Instances, NEW t \in rep'[q].conn \cup rep'[q].rooms
        PROVE  sock'[t].st = "open" /\ sock'[t].at = q
    BY <1>4, <1>6, <2>1, <2>2, <2>5 DEF SocketsLive
  <2>6. QED
    BY <2>4, <2>5 DEF SocketsLive
<1>9. NotesFit' /\ RoomsMatchSockets' /\ MessageReachesRoom'
  BY <1>3, <1>4, <1>5 DEF NotesFit, RoomsMatchSockets, MessageReachesRoom, Presences, Relays
<1>10. DueInRoom'
  <2>1. msg # None => msg.due \subseteq Sockets /\ s \notin msg.due
    BY <1>1 DEF ClusterTypeOK, Followed, DueInRoom
  <2>2. \A t \in Sockets : sock[t].st = "open" => sock[t].at \in Instances
    BY DEF SocketsLive
  <2>3. QED
    BY <1>3, <1>4, <1>6, <2>1, <2>2 DEF DueInRoom
<1>11. KnownExcused'
  <2>1. \A q \in Instances, t \in Sockets : Known(q, t)' => Known(q, t)
    BY <1>1, <1>4, <1>6 DEF Known, r
  <2>2. QED
    BY <1>3, <2>1, ExcuseForms DEF KnownExcused, Excused
<1>12. QED
  BY <1>7, <1>8, <1>9, <1>10, <1>11, ExcuseFormsNext DEF ClusterInv

\* A join begins: the socket is counted, nothing else.
LEMMA AskJoinStep ==
    ASSUME ClusterInv, NEW s \in Sockets, AskJoin(s)
    PROVE  ClusterInv'
<1>a. /\ ClusterTypeOK /\ SocketsLive /\ NotesFit /\ VerifiedExcused /\ DueInRoom
      /\ RoomsMatchSockets /\ BannedAreOut /\ MessageReachesRoom
  BY DEF ClusterInv
<1> USE <1>a
<1>1. /\ sock[s].st = "open" /\ asked' = asked \cup {s}
      /\ sock' = [sock EXCEPT ![s].asks = sock[s].asks + 1]
      /\ UNCHANGED <<up, rep, wire, banned, kicks, msg, late, overtaken, slipped, unkicked,
                     unheard>>
  BY DEF AskJoin, gatewayVars, historyVars
<1>2. /\ sock' \in [Sockets -> [st : {"idle", "verified", "open", "closed"},
                                at : Instances \cup {None}, asks : Nat, leaves : Nat]]
      /\ \A t \in Sockets : sock'[t].st = sock[t].st /\ sock'[t].at = sock[t].at
  BY <1>1 DEF ClusterTypeOK
<1>3. ClusterTypeOK'
  BY <1>1, <1>2 DEF ClusterTypeOK
<1>4. \A q \in Instances : rep[q].conn \subseteq Sockets /\ rep[q].rooms \subseteq Sockets
  BY DEF ClusterTypeOK, Gateways
<1>5. SocketsLive'
  BY <1>1, <1>2, <1>4 DEF SocketsLive
<1>6. NotesFit' /\ RoomsMatchSockets' /\ MessageReachesRoom'
  BY <1>1 DEF NotesFit, RoomsMatchSockets, MessageReachesRoom
<1>7. DueInRoom'
  BY <1>1, <1>2 DEF DueInRoom, ClusterTypeOK, Followed
<1>8. KnownExcused'
  BY <1>1, <1>2, ExcuseForms DEF KnownExcused, Known, Excused
<1>9. QED
  BY <1>3, <1>5, <1>6, <1>7, <1>8, ExcuseFormsNext DEF ClusterInv

-----------------------------------------------------------------------------
\* The rest of a join: the user is a member, with a socket in the room unless it closed.
LEMMA JoinStep ==
    ASSUME ClusterInv, OwnerAssumption, NEW s \in Sockets, Join(s)
    PROVE  ClusterInv'
<1>a. /\ ClusterTypeOK /\ SocketsLive /\ NotesFit /\ VerifiedExcused /\ DueInRoom
      /\ RoomsMatchSockets /\ BannedAreOut /\ MessageReachesRoom
  BY DEF ClusterInv
<1> USE <1>a
<1> DEFINE r == sock[s].at
           open == sock[s].st = "open"
           entered == [rep[r] EXCEPT !.members = @ \cup {Owner[s]},
                                     !.rooms = IF open THEN @ \cup {s} ELSE @]
           g1 == IF s \in rep[r].rooms THEN rep[r] ELSE entered
<1>1. s \in asked /\ r \in Instances /\ rep[r] \in Gateways /\ Owner[s] \in Users
  BY DEF Join, SocketsLive, ClusterTypeOK, OwnerAssumption
<1>2. /\ entered \in Gateways /\ entered.conn = rep[r].conn
      /\ entered.rooms = (IF open THEN rep[r].rooms \cup {s} ELSE rep[r].rooms)
      /\ entered.members = rep[r].members \cup {Owner[s]}
  <2> HIDE DEF r, open
  <2>1. QED
    BY <1>1 DEF Gateways
<1>3. /\ asked' = asked \ {s} /\ rep' = [rep EXCEPT ![r] = g1]
      /\ wire' = wire \cup presenceState(r, g1)
      /\ late' = (IF open THEN late ELSE late \cup {<<r, Owner[s]>>})
      /\ overtaken' = (IF s \in rep[r].rooms THEN overtaken ELSE overtaken \ {<<r, Owner[s]>>})
      /\ UNCHANGED <<up, sock, banned, kicks, msg, slipped, unkicked, unheard>>
  BY DEF Join
<1> HIDE DEF entered
<1>4. /\ g1 \in Gateways /\ g1.conn = rep[r].conn
      /\ g1.conn \in SUBSET Sockets /\ g1.members \in SUBSET Users
  BY <1>1, <1>2 DEF Gateways
<1>5. /\ rep' \in [Instances -> Gateways] /\ rep'[r] = g1
      /\ \A q \in Instances : (q # r => rep'[q] = rep[q]) /\ rep'[q].conn = rep[q].conn
  BY <1>1, <1>3, <1>4, OneGateway
<1>6. /\ presenceState(r, g1) \subseteq Notes
      /\ \A m \in presenceState(r, g1) : m.type \in Presences
  BY <1>1, <1>4, PresenceNotes
<1> HIDE DEF r
<1>7. ClusterTypeOK'
  BY <1>1, <1>3, <1>5, <1>6 DEF ClusterTypeOK
<1>8. ASSUME NEW q \in Instances, NEW t \in rep'[q].rooms
      PROVE  t \in rep[q].rooms \/ (q = r /\ t = s /\ open)
  BY <1>2, <1>5, <1>8
<1>9. SocketsLive'
  BY <1>3, <1>5, <1>8 DEF SocketsLive, r
<1>10. NotesFit'
  BY <1>3, <1>6 DEF NotesFit, Presences, Relays
<1>11. DueInRoom'
  <2>1. \A q \in Instances : rep[q].rooms \subseteq rep'[q].rooms
    BY <1>2, <1>5
  <2>2. \A t \in Sockets : sock[t].st = "open" => sock[t].at \in Instances
    BY DEF SocketsLive
  <2>3. msg # None => msg.due \subseteq Sockets
    BY DEF ClusterTypeOK, Followed
  <2>4. QED
    BY <1>3, <2>1, <2>2, <2>3 DEF DueInRoom
<1>12. RoomsMatchSockets'
  <2>1. CASE s \in rep[r].rooms
    <3>1. \A q \in Instances : rep'[q].rooms = rep[q].rooms /\ rep'[q].members = rep[q].members
      BY <1>5, <2>1
    <3>2. late \subseteq late' /\ overtaken' = overtaken
      BY <1>3, <2>1
    <3>3. QED
      BY <3>1, <3>2 DEF RoomsMatchSockets
  <2>2. CASE s \notin rep[r].rooms
    <3>1. /\ rep'[r].rooms = (IF open THEN rep[r].rooms \cup {s} ELSE rep[r].rooms)
          /\ rep'[r].members = rep[r].members \cup {Owner[s]}
          /\ overtaken' = overtaken \ {<<r, Owner[s]>>}
      BY <1>2, <1>3, <1>5, <2>2
    <3>2. ASSUME NEW q \in Instances, q # r
          PROVE  /\ \A u \in rep'[q].members :
                        (\E t \in rep'[q].rooms : Owner[t] = u) \/ <<q, u>> \in late'
                 /\ \A t \in rep'[q].rooms :
                        Owner[t] \in rep'[q].members \/ <<q, Owner[t]>> \in overtaken'
      BY <1>3, <1>5, <3>1, <3>2 DEF RoomsMatchSockets
    <3>3. ASSUME NEW u \in rep'[r].members
          PROVE  (\E t \in rep'[r].rooms : Owner[t] = u) \/ <<r, u>> \in late'
      <4>1. CASE u = Owner[s]
        BY <1>3, <3>1, <4>1
      <4>2. CASE u \in rep[r].members
        BY <1>1, <1>3, <3>1, <4>2 DEF RoomsMatchSockets
      <4>3. QED
        BY <3>1, <3>3, <4>1, <4>2
    <3>4. ASSUME NEW t \in rep'[r].rooms
          PROVE  Owner[t] \in rep'[r].members \/ <<r, Owner[t]>> \in overtaken'
      <4>1. CASE Owner[t] = Owner[s]
        BY <3>1, <4>1
      <4>2. CASE Owner[t] # Owner[s]
        BY <1>1, <3>1, <4>2 DEF RoomsMatchSockets
      <4>3. QED
        BY <4>1, <4>2
    <3>5. QED
      BY <3>2, <3>3, <3>4 DEF RoomsMatchSockets
  <2>3. QED
    BY <2>1, <2>2
<1>13. MessageReachesRoom'
  <2> SUFFICES ASSUME msg # None, NEW q \in Instances, NEW t \in rep'[q].rooms \cap msg.due
               PROVE  \/ t \in msg.got \/ q \in unheard
                      \/ \E m \in wire' : m.to = q /\ m.type \in Relays
    BY <1>3 DEF MessageReachesRoom, Relays
  <2>1. t \in rep[q].rooms
    BY <1>8 DEF DueInRoom, r
  <2>2. \/ t \in msg.got \/ q \in unheard
        \/ \E m \in wire : m.to = q /\ m.type \in Relays
    BY <2>1 DEF MessageReachesRoom, Relays
  <2>3. QED
    BY <1>3, <2>2
<1>14. KnownExcused'
  <2>1. \A q \in Instances, t \in Sockets : Known(q, t)' => Known(q, t)
    BY <1>3, <1>5 DEF Known
  <2>2. QED
    BY <1>3, <2>1, ExcuseForms DEF KnownExcused, Excused
<1>15. QED
  BY <1>7, <1>9, <1>10, <1>11, <1>12, <1>13, <1>14, ExcuseFormsNext DEF ClusterInv

\* Leaving takes the user out for all of their tabs, also that of a socket not in the room.
LEMMA LeaveStep ==
    ASSUME ClusterInv, OwnerAssumption, NoneAssumption, NEW s \in Sockets,
           handleLeaveConversation(s)
    PROVE  ClusterInv'
<1>a. /\ ClusterTypeOK /\ SocketsLive /\ NotesFit /\ VerifiedExcused /\ DueInRoom
      /\ RoomsMatchSockets /\ BannedAreOut /\ MessageReachesRoom
  BY DEF ClusterInv
<1> USE <1>a
<1> DEFINE r == sock[s].at
           g1 == [rep[r] EXCEPT !.rooms = @ \ {s}, !.members = @ \ {Owner[s]}]
           due == IF msg = None THEN msg ELSE [msg EXCEPT !.due = @ \ {s}]
<1>1. /\ sock[s].st = "open" /\ r \in Instances /\ rep[r] \in Gateways
      /\ Owner[s] \in Users
  BY DEF handleLeaveConversation, SocketsLive, ClusterTypeOK, OwnerAssumption
<1>2. /\ g1 \in Gateways /\ g1.conn = rep[r].conn /\ g1.rooms = rep[r].rooms \ {s}
      /\ g1.members = rep[r].members \ {Owner[s]}
      /\ g1.conn \in SUBSET Sockets /\ g1.members \in SUBSET Users
  <2> HIDE DEF r
  <2>1. QED
    BY <1>1 DEF Gateways
<1> DEFINE out == IF RoomMade(r) THEN presenceState(r, g1) ELSE {}
<1>3. /\ rep' = [rep EXCEPT ![r] = g1] /\ wire' = wire \cup out
      /\ out \subseteq presenceState(r, g1)
      /\ overtaken' = overtaken \cup LeftBehind(r, s)
      /\ late' = late \ {<<r, Owner[s]>>}
      /\ msg' = due
      /\ UNCHANGED <<up, asked, banned, kicks, slipped, unkicked, unheard>>
  BY DEF handleLeaveConversation
<1> HIDE DEF out
<1>b. /\ sock' \in [Sockets -> [st : {"idle", "verified", "open", "closed"},
                                at : Instances \cup {None}, asks : Nat, leaves : Nat]]
      /\ \A t \in Sockets : sock'[t].st = sock[t].st /\ sock'[t].at = sock[t].at
  <2>1. sock' = [sock EXCEPT ![s].leaves = sock[s].leaves + 1]
    BY DEF handleLeaveConversation
  <2>2. QED
    BY <2>1 DEF ClusterTypeOK
<1>4. /\ msg' \in Followed \cup {None} /\ (msg' # None <=> msg # None)
      /\ msg # None => msg \in Followed /\ msg'.got = msg.got /\ msg'.due = msg.due \ {s}
  <2>1. CASE msg = None
    BY <1>3, <2>1
  <2>2. CASE msg # None
    <3>1. msg \in Followed /\ msg' = [msg EXCEPT !.due = @ \ {s}]
      BY <1>3, <2>2 DEF ClusterTypeOK
    <3>2. None \notin Followed
      BY NoneAssumption DEF Followed
    <3>3. QED
      BY <2>2, <3>1, <3>2 DEF Followed
  <2>3. QED
    BY <2>1, <2>2
<1> HIDE DEF g1
<1>5. /\ rep' \in [Instances -> Gateways] /\ rep'[r] = g1
      /\ \A q \in Instances : (q # r => rep'[q] = rep[q]) /\ rep'[q].conn = rep[q].conn
  BY <1>1, <1>2, <1>3, OneGateway
<1>6. /\ presenceState(r, g1) \subseteq Notes
      /\ \A m \in presenceState(r, g1) : m.type \in Presences
  BY <1>1, <1>2, PresenceNotes
<1> HIDE DEF r, due
<1>7. ClusterTypeOK'
  <2>1. LeftBehind(r, s) \subseteq Instances \X Users
    BY <1>1 DEF LeftBehind, OwnerAssumption, ClusterTypeOK, Gateways
  <2>2. QED
    BY <1>3, <1>b, <1>4, <1>5, <1>6, <2>1 DEF ClusterTypeOK
<1>8. \A q \in Instances : rep'[q].rooms \subseteq rep[q].rooms \ {s}
  BY <1>1, <1>2, <1>5 DEF SocketsLive, r
<1>c. \A q \in Instances : rep[q].conn \subseteq Sockets /\ rep[q].rooms \subseteq Sockets
  BY DEF ClusterTypeOK, Gateways
<1>9. SocketsLive'
  BY <1>3, <1>b, <1>c, <1>5, <1>8 DEF SocketsLive
<1>10. NotesFit'
  BY <1>3, <1>4, <1>6 DEF NotesFit, Presences, Relays
<1>11. DueInRoom'
  <2> SUFFICES ASSUME msg # None, NEW t \in msg'.due
               PROVE  sock[t].st = "closed" \/ (sock[t].st = "open" /\ t \in rep'[sock[t].at].rooms)
    BY <1>3, <1>b, <1>4 DEF DueInRoom, Followed
  <2>1. t \in msg.due /\ t # s /\ t \in Sockets
    BY <1>4 DEF Followed
  <2>2. sock[t].st = "open" => sock[t].at \in Instances
    BY <2>1 DEF SocketsLive
  <2>3. QED
    BY <1>b, <1>2, <1>5, <2>1, <2>2 DEF DueInRoom
<1>12. RoomsMatchSockets'
  <2>1. ASSUME NEW q \in Instances, q # r
        PROVE  /\ \A u \in rep'[q].members :
                      (\E t \in rep'[q].rooms : Owner[t] = u) \/ <<q, u>> \in late'
               /\ \A t \in rep'[q].rooms :
                      Owner[t] \in rep'[q].members \/ <<q, Owner[t]>> \in overtaken'
    BY <1>3, <1>5, <2>1 DEF RoomsMatchSockets
  <2>2. ASSUME NEW u \in rep'[r].members
        PROVE  (\E t \in rep'[r].rooms : Owner[t] = u) \/ <<r, u>> \in late'
    <3>1. u \in rep[r].members /\ u # Owner[s]
      BY <1>2, <1>5
    <3>2. QED
      BY <1>1, <1>2, <1>3, <1>5, <3>1 DEF RoomsMatchSockets
  <2>3. ASSUME NEW t \in rep'[r].rooms
        PROVE  Owner[t] \in rep'[r].members \/ <<r, Owner[t]>> \in overtaken'
    <3>1. t \in rep[r].rooms \ {s}
      BY <1>2, <1>5
    <3>2. CASE Owner[t] = Owner[s]
      BY <1>1, <1>3, <3>1, <3>2 DEF LeftBehind
    <3>3. CASE Owner[t] # Owner[s]
      BY <1>1, <1>2, <1>3, <1>5, <3>1, <3>3 DEF RoomsMatchSockets
    <3>4. QED
      BY <3>2, <3>3
  <2>4. QED
    BY <2>1, <2>2, <2>3 DEF RoomsMatchSockets
<1>13. MessageReachesRoom'
  <2> SUFFICES ASSUME msg # None, NEW q \in Instances, NEW t \in rep'[q].rooms \cap msg'.due
               PROVE  \/ t \in msg'.got \/ q \in unheard
                      \/ \E m \in wire' : m.to = q /\ m.type \in Relays
    BY <1>3, <1>4 DEF MessageReachesRoom, Relays
  <2>1. t \in rep[q].rooms \cap msg.due
    BY <1>4, <1>8
  <2>2. \/ t \in msg.got \/ q \in unheard
        \/ \E m \in wire : m.to = q /\ m.type \in Relays
    BY <2>1 DEF MessageReachesRoom, Relays
  <2>3. QED
    BY <1>3, <1>4, <2>2
<1>14. KnownExcused'
  <2>1. \A q \in Instances, t \in Sockets : Known(q, t)' => Known(q, t)
    BY <1>3, <1>b, <1>5 DEF Known
  <2>2. QED
    BY <1>3, <2>1, ExcuseForms DEF KnownExcused, Excused
<1>15. QED
  BY <1>7, <1>9, <1>10, <1>11, <1>12, <1>13, <1>14, ExcuseFormsNext DEF ClusterInv

\* A message goes to the room of the instance and to every other instance that runs.
LEMMA SendStep ==
    ASSUME ClusterInv, NoneAssumption, NEW s \in Sockets, SendMessage(s)
    PROVE  ClusterInv'
<1>a. /\ ClusterTypeOK /\ SocketsLive /\ NotesFit /\ VerifiedExcused /\ DueInRoom
      /\ RoomsMatchSockets /\ BannedAreOut /\ MessageReachesRoom
  BY DEF ClusterInv
<1> USE <1>a
<1> DEFINE r == sock[s].at
<1>1. sock[s].st = "open" /\ r \in Instances
  BY DEF SendMessage, SocketsLive
<1>2. PICK type \in Relays : wire' = wire \cup ToPeers(r, Note(r, type, {}))
  BY DEF SendMessage, Relays
<1>3. /\ ToPeers(r, Note(r, type, {})) \subseteq Notes
      /\ \A m \in ToPeers(r, Note(r, type, {})) : m.type = type
      /\ \A q \in Instances \ {r} :
            up[q] = "on" =>
                \E m \in ToPeers(r, Note(r, type, {})) : m.to = q /\ m.type = type
  <2>1. {} \in SUBSET Users
    OBVIOUS
  <2>2. QED
    BY <1>1, <2>1, NotesToPeers
<1>4. /\ msg' = [got |-> rep[r].rooms, due |-> UNION {rep[q].rooms : q \in Instances}]
      /\ UNCHANGED <<up, rep, sock, asked, banned, kicks, late, overtaken, slipped, unkicked,
                     unheard>>
  BY DEF SendMessage, historyVars
<1> HIDE DEF r
<1>5. \A q \in Instances : rep[q].rooms \subseteq Sockets
  BY DEF ClusterTypeOK, Gateways
<1>6. /\ msg' \in Followed /\ msg'.got = rep[r].rooms
      /\ \A t \in msg'.due : \E q \in Instances : t \in rep[q].rooms
  BY <1>1, <1>4, <1>5 DEF Followed
<1>7. ClusterTypeOK'
  BY <1>2, <1>3, <1>4, <1>6 DEF ClusterTypeOK
<1>8. SocketsLive' /\ RoomsMatchSockets'
  BY <1>4 DEF SocketsLive, RoomsMatchSockets
<1>9. NotesFit'
  BY <1>2, <1>3, <1>6 DEF NotesFit, Relays
<1>10. DueInRoom'
  BY <1>4, <1>6 DEF DueInRoom, SocketsLive
<1>11. MessageReachesRoom'
  <2> SUFFICES ASSUME NEW q \in Instances, NEW t \in rep[q].rooms, t \notin msg'.got
               PROVE  \E m \in wire' : m.to = q /\ m.type \in Relays
    BY <1>4 DEF MessageReachesRoom, Relays
  <2>1. q # r /\ up[q] = "on"
    BY <1>5, <1>6 DEF SocketsLive
  <2>2. QED
    BY <1>2, <1>3, <2>1
<1>12. KnownExcused'
  BY <1>2, <1>4, ExcuseForms DEF KnownExcused, Known, Excused
<1>13. QED
  BY <1>7, <1>8, <1>9, <1>10, <1>11, <1>12, ExcuseFormsNext DEF ClusterInv

\* A message arrives at an instance: its room has it.
LEMMA MessageArrives ==
    ASSUME ClusterInv, NoneAssumption, NEW m \in wire, DeliverMessage(m)
    PROVE  ClusterInv'
<1>a. /\ ClusterTypeOK /\ SocketsLive /\ NotesFit /\ VerifiedExcused /\ DueInRoom
      /\ RoomsMatchSockets /\ BannedAreOut /\ MessageReachesRoom
  BY DEF ClusterInv
<1> USE <1>a
<1>1. /\ m.type \in Relays /\ m \in Notes /\ m.to \in Instances /\ msg \in Followed
      /\ rep[m.to].rooms \subseteq Sockets
  BY DEF DeliverMessage, Relays, ClusterTypeOK, Notes, NotesFit, Gateways
<1>2. /\ msg' = [msg EXCEPT !.got = @ \cup rep[m.to].rooms] /\ wire' = wire \ {m}
      /\ UNCHANGED <<up, rep, sock, asked, banned, kicks, late, overtaken, slipped, unkicked,
                     unheard>>
  BY DEF DeliverMessage, historyVars
<1>3. /\ msg' \in Followed /\ msg'.got = msg.got \cup rep[m.to].rooms /\ msg'.due = msg.due
  BY <1>1, <1>2 DEF Followed
<1>4. msg # None
  BY <1>1, NoneAssumption DEF Followed
<1>5. ClusterTypeOK'
  BY <1>2, <1>3 DEF ClusterTypeOK
<1>6. SocketsLive' /\ RoomsMatchSockets' /\ NotesFit'
  BY <1>2, <1>3 DEF SocketsLive, RoomsMatchSockets, NotesFit
<1>7. DueInRoom'
  BY <1>2, <1>3, <1>4 DEF DueInRoom
<1>8. MessageReachesRoom'
  <2> SUFFICES ASSUME NEW q \in Instances, NEW t \in rep[q].rooms \cap msg.due
               PROVE  \/ t \in msg'.got \/ q \in unheard
                      \/ \E n \in wire' : n.to = q /\ n.type \in Relays
    BY <1>2, <1>3 DEF MessageReachesRoom, Relays
  <2>1. CASE q = m.to
    BY <1>3, <2>1
  <2>2. CASE q # m.to
    <3>1. \/ t \in msg.got \/ q \in unheard
          \/ \E n \in wire : n.to = q /\ n.type \in Relays
      BY <1>4 DEF MessageReachesRoom, Relays
    <3>2. QED
      BY <1>2, <1>3, <2>2, <3>1
  <2>3. QED
    BY <2>1, <2>2
<1>9. KnownExcused'
  <2>1. \A n \in wire : n.type = "force_disconnect" => n \in wire'
    BY <1>1, <1>2 DEF Relays
  <2>2. \A q \in Instances, t \in Sockets : Excused(q, t) => Excused(q, t)'
    BY <1>2, <2>1 DEF Excused
  <2>3. QED
    BY <1>2, <2>2, ExcuseForms DEF KnownExcused, Known
<1>10. QED
  BY <1>5, <1>6, <1>7, <1>8, <1>9, ExcuseFormsNext DEF ClusterInv

\* A ban is written: the request that wrote it still has to disconnect the user.
LEMMA BanStep ==
    ASSUME ClusterInv, NEW u \in Users, NEW r \in Instances, Ban(u, r)
    PROVE  ClusterInv'
<1>a. /\ ClusterTypeOK /\ SocketsLive /\ NotesFit /\ VerifiedExcused /\ DueInRoom
      /\ RoomsMatchSockets /\ BannedAreOut /\ MessageReachesRoom
  BY DEF ClusterInv
<1> USE <1>a
<1>1. /\ banned' = banned \cup {u} /\ kicks' = kicks \cup {<<r, u>>}
      /\ UNCHANGED <<up, rep, wire, sock, asked, msg, late, overtaken, slipped, unkicked,
                     unheard>>
  BY DEF Ban, gatewayVars, historyVars
<1>2. ClusterTypeOK'
  BY <1>1 DEF ClusterTypeOK
<1>3. SocketsLive' /\ RoomsMatchSockets' /\ NotesFit' /\ DueInRoom' /\ MessageReachesRoom'
  BY <1>1 DEF SocketsLive, RoomsMatchSockets, NotesFit, DueInRoom, MessageReachesRoom
<1>4. KnownExcused'
  <2> SUFFICES ASSUME NEW q \in Instances, NEW s \in Sockets, Known(q, s), Owner[s] \in banned'
               PROVE  Excused(q, s)'
    BY <1>1 DEF KnownExcused, Known
  <2>1. CASE Owner[s] = u
    <3>1. <<r, u>> \in kicks' /\ <<r, u>>[2] = Owner[s]
      BY <1>1, <2>1
    <3>2. QED
      BY <3>1 DEF Excused
  <2>2. CASE Owner[s] # u
    BY <1>1, <2>2, ExcuseForms DEF KnownExcused, Excused
  <2>3. QED
    BY <2>1, <2>2
<1>5. QED
  BY <1>2, <1>3, <1>4, ExcuseFormsNext DEF ClusterInv

-----------------------------------------------------------------------------
\* Notifications that nobody handles are remembered as missed.
LEMMA NotesAreLost ==
    ASSUME ClusterInv, NEW lost \in SUBSET wire, wire' = wire \ lost, Missed(lost),
           UNCHANGED <<up, rep, sock, asked, banned, kicks, msg, late, overtaken, slipped>>
    PROVE  ClusterInv'
<1>a. /\ ClusterTypeOK /\ SocketsLive /\ NotesFit /\ VerifiedExcused /\ DueInRoom
      /\ RoomsMatchSockets /\ BannedAreOut /\ MessageReachesRoom
  BY DEF ClusterInv
<1> USE <1>a
<1>1. lost \subseteq Notes
  BY DEF ClusterTypeOK
<1>2. /\ unkicked \subseteq unkicked' /\ unheard \subseteq unheard'
      /\ unkicked' \subseteq Instances \X Users /\ unheard' \subseteq Instances
      /\ \A m \in lost : /\ m.type = "force_disconnect" =>
                                \A u \in m.users : <<m.to, u>> \in unkicked'
                         /\ m.type \in Relays => m.to \in unheard'
  <2>1. UNION {n.users : n \in lost} \subseteq Users
    BY <1>1 DEF Notes
  <2>2. unkicked' = unkicked \cup {<<m.to, u>> : m \in {n \in lost : n.type = "force_disconnect"},
                                                u \in UNION {n.users : n \in lost}}
    BY DEF Missed
  <2>3. unheard' = unheard \cup {m.to : m \in {n \in lost : n.type \in Relays}}
    BY DEF Missed, Relays
  <2>4. \A m \in lost : m.to \in Instances
    BY <1>1 DEF Notes
  <2>5. unkicked \subseteq unkicked' /\ unkicked' \subseteq Instances \X Users
    BY <2>1, <2>2, <2>4 DEF ClusterTypeOK
  <2>6. unheard \subseteq unheard' /\ unheard' \subseteq Instances
    BY <2>3, <2>4 DEF ClusterTypeOK
  <2>7. \A m \in lost : m.type \in Relays => m.to \in unheard'
    BY <2>3
  <2>8. \A m \in lost : m.type = "force_disconnect" => \A u \in m.users : <<m.to, u>> \in unkicked'
    BY <2>2
  <2>9. QED
    BY <2>5, <2>6, <2>7, <2>8
<1>3. ClusterTypeOK'
  BY <1>2 DEF ClusterTypeOK
<1>4. SocketsLive' /\ RoomsMatchSockets' /\ NotesFit' /\ DueInRoom'
  BY DEF SocketsLive, RoomsMatchSockets, NotesFit, DueInRoom
<1>5. MessageReachesRoom'
  <2> SUFFICES ASSUME msg # None, NEW q \in Instances, NEW t \in rep[q].rooms \cap msg.due
               PROVE  \/ t \in msg.got \/ q \in unheard'
                      \/ \E n \in wire' : n.to = q /\ n.type \in Relays
    BY DEF MessageReachesRoom, Relays
  <2>1. \/ t \in msg.got \/ q \in unheard
        \/ \E n \in wire : n.to = q /\ n.type \in Relays
    BY DEF MessageReachesRoom, Relays
  <2>2. QED
    BY <1>2, <2>1
<1>6. KnownExcused'
  <2> SUFFICES ASSUME NEW q \in Instances, NEW s \in Sockets, Excused(q, s)
               PROVE  Excused(q, s)'
    BY ExcuseForms DEF KnownExcused, Known
  <2>1. ASSUME NEW m \in wire, m.to = q, m.type = "force_disconnect", Owner[s] \in m.users
        PROVE  m \in wire' \/ <<q, Owner[s]>> \in unkicked'
    BY <1>2, <2>1
  <2>2. QED
    BY <1>2, <2>1 DEF Excused
<1>7. QED
  BY <1>3, <1>4, <1>5, <1>6, ExcuseFormsNext DEF ClusterInv

\* A listener that is away and a failed publication lose notifications.
LEMMA LossKeepsCluster ==
    ASSUME ClusterInv, NEW m \in wire, DropNote(m) \/ FailNote(m)
    PROVE  ClusterInv'
<1>1. CASE DropNote(m)
  BY <1>1, NotesAreLost DEF DropNote
<1>2. CASE FailNote(m)
  <2> DEFINE copies == {n \in wire : [n EXCEPT !.to = m.to] = m}
  <2>1. /\ wire' = wire \ copies /\ Missed(copies)
        /\ UNCHANGED <<up, rep, sock, asked, banned, kicks, msg, late, overtaken, slipped>>
    BY <1>2 DEF FailNote
  <2>2. copies \in SUBSET wire
    OBVIOUS
  <2> HIDE DEF copies
  <2>3. QED
    BY <2>1, <2>2, NotesAreLost
<1>3. QED
  BY <1>1, <1>2

\* An instance dies: its sockets close, its maps are gone, its bans are not announced.
LEMMA CrashStep ==
    ASSUME ClusterInv, NEW r \in Instances, Crash(r)
    PROVE  ClusterInv'
<1>a. /\ ClusterTypeOK /\ SocketsLive /\ NotesFit /\ VerifiedExcused /\ DueInRoom
      /\ RoomsMatchSockets /\ BannedAreOut /\ MessageReachesRoom
  BY DEF ClusterInv
<1> USE <1>a
<1> DEFINE mine == {k \in kicks : k[1] = r}
           closed(s) == [sock[s] EXCEPT !.st = "closed"]
<1>1. /\ up' = [up EXCEPT ![r] = "dead"] /\ rep' = [rep EXCEPT ![r] = NewGateway]
      /\ sock' = [s \in Sockets |-> IF sock[s].at = r THEN closed(s) ELSE sock[s]]
      /\ asked' = {s \in asked : sock[s].at # r}
      /\ kicks' = kicks \ mine
      /\ unkicked' = unkicked \cup {<<q, k[2]>> : q \in Instances, k \in mine}
      /\ UNCHANGED <<wire, banned, msg, late, overtaken, slipped, unheard>>
  BY DEF Crash
<1>2. /\ NewGateway \in Gateways /\ NewGateway.conn = {} /\ NewGateway.rooms = {}
      /\ NewGateway.members = {}
  BY DEF NewGateway, Declared, Gateways, PeerViews
<1>3. /\ rep' \in [Instances -> Gateways]
      /\ rep'[r].conn = {} /\ rep'[r].rooms = {} /\ rep'[r].members = {}
      /\ \A q \in Instances : q # r => rep'[q] = rep[q]
  BY <1>1, <1>2, OneGateway
<1>4. \A s \in Sockets : /\ closed(s).st = "closed" /\ closed(s).at = sock[s].at
                         /\ closed(s) \in [st : {"idle", "verified", "open", "closed"},
                                           at : Instances \cup {None}, asks : Nat, leaves : Nat]
  BY DEF ClusterTypeOK
<1> HIDE DEF closed
<1>5. /\ sock' \in [Sockets -> [st : {"idle", "verified", "open", "closed"},
                                at : Instances \cup {None}, asks : Nat, leaves : Nat]]
      /\ \A s \in Sockets : /\ sock[s].at = r => sock'[s].st = "closed" /\ sock'[s].at = r
                            /\ sock[s].at # r => sock'[s] = sock[s]
  BY <1>1, <1>4 DEF ClusterTypeOK
<1>6. /\ up' \in [Instances -> {"off", "on", "dead"}]
      /\ \A q \in Instances : q # r => up'[q] = up[q]
  BY <1>1 DEF ClusterTypeOK
<1>7. unkicked \subseteq unkicked' /\ unkicked' \subseteq Instances \X Users
  BY <1>1 DEF ClusterTypeOK
<1>8. ClusterTypeOK'
  BY <1>1, <1>3, <1>5, <1>6, <1>7 DEF ClusterTypeOK
<1>9. \A q \in Instances : rep[q].conn \subseteq Sockets /\ rep[q].rooms \subseteq Sockets
  BY DEF ClusterTypeOK, Gateways
<1>10. SocketsLive'
  BY <1>1, <1>3, <1>5, <1>6, <1>9 DEF SocketsLive
<1>11. NotesFit'
  BY <1>1 DEF NotesFit
<1>12. DueInRoom'
  <2>1. msg # None => msg.due \subseteq Sockets
    BY DEF ClusterTypeOK, Followed
  <2>2. \A s \in Sockets : sock[s].st = "open" => sock[s].at \in Instances
    BY DEF SocketsLive
  <2>3. QED
    BY <1>1, <1>3, <1>5, <2>1, <2>2 DEF DueInRoom
<1>13. RoomsMatchSockets' /\ MessageReachesRoom'
  BY <1>1, <1>3 DEF RoomsMatchSockets, MessageReachesRoom
<1>14. KnownExcused'
  <2> SUFFICES ASSUME NEW q \in Instances, NEW s \in Sockets, Known(q, s)', Owner[s] \in banned
               PROVE  Excused(q, s)'
    BY <1>1 DEF KnownExcused
  <2>1. Known(q, s)
    BY <1>3, <1>5 DEF Known
  <2>2. Excused(q, s)
    BY <2>1, ExcuseForms DEF KnownExcused
  <2>3. ASSUME NEW k \in kicks, k[2] = Owner[s]
        PROVE  k \in kicks' \/ <<q, Owner[s]>> \in unkicked'
    BY <1>1, <2>3
  <2>4. QED
    BY <1>1, <1>7, <2>2, <2>3 DEF Excused
<1>15. QED
  BY <1>8, <1>10, <1>11, <1>12, <1>13, <1>14, ExcuseFormsNext DEF ClusterInv

-----------------------------------------------------------------------------
\* Every step of the gateways and their bus.
LEMMA ClusterStep ==
    ASSUME ClusterInv, OwnerAssumption, TTLAssumption, NoneAssumption,
           [ClusterNext]_clusterVars
    PROVE  ClusterInv'
<1>1. CASE UNCHANGED clusterVars
  BY <1>1 DEF clusterVars, historyVars, ClusterInv, ClusterTypeOK, SocketsLive, NotesFit,
     VerifiedExcused, Excused, DueInRoom, RoomsMatchSockets, BannedAreOut, MessageReachesRoom
<1>2. CASE \E s \in Sockets :
              \/ \E r \in Instances : Authenticate(s, r)
              \/ handleConnection(s) \/ CloseTab(s)
              \/ AskJoin(s) \/ Join(s) \/ handleLeaveConversation(s) \/ SendMessage(s)
  BY <1>2, AuthenticateStep, ConnectionStep, CloseTabStep, AskJoinStep, JoinStep, LeaveStep,
     SendStep
<1>3. CASE \E u \in Users, r \in Instances : Ban(u, r) \/ disconnectUser(r, u)
  BY <1>3, BanStep, DisconnectStep
<1>4. CASE \E m \in wire : Deliver(m) \/ FailNote(m)
  BY <1>4, PresenceArrives, MessageArrives, KickArrives, LossKeepsCluster DEF Deliver
<1>5. CASE \E r \in Instances :
              LoseListener(r) \/ connectListener(r) \/ Start(r) \/ Crash(r) \/ Heartbeat(r)
  BY <1>5, InstancesKeepCluster, CrashStep, HeartbeatStep
<1>6. CASE Period
  BY <1>6, PeriodStep
<1>7. QED
  BY <1>1, <1>2, <1>3, <1>4, <1>5, <1>6 DEF ClusterNext

-----------------------------------------------------------------------------
(* Proofs: the live updates *)

\* The centre is empty at first.
LEMMA BellStarts ==
    ASSUME BellAssumption, BellInit
    PROVE  BellInv
<1>1. PICK b \in BellBounds : bellLog = [left |-> b, told |-> {}, known |-> {}]
  BY DEF BellInit
<1>2. /\ noteRow = [n \in NoteIds |-> Absent] /\ bellLine = [polls |-> {}, acts |-> {}]
      /\ centre = [list |-> [n \in NoteIds |-> Absent], seen |-> NoAnswer]
  BY DEF BellInit
<1>3. [n \in NoteIds |-> Absent] \in NoteList
  <2>1. Absent \in [count : Nat, read : BOOLEAN]
    BY DEF Absent
  <2>2. QED
    BY <2>1 DEF NoteList
<1>4. BellTypeOK
  BY <1>1, <1>2, <1>3 DEF BellAssumption, BellTypeOK
<1>5. SeenIsTold
  BY <1>2 DEF SeenIsTold
<1>6. MessagesAreTold
  <2>1. Unread(centre.list) = {}
    BY <1>2 DEF Unread, Absent
  <2>2. QED
    BY <2>1 DEF MessagesAreTold
<1>7. QED
  BY <1>4, <1>5, <1>6 DEF BellInv

\* The page is loading, no gesture was made.
LEMMA FeedStarts ==
    ASSUME FeedAssumption, FeedInit
    PROVE  FeedInv
<1>1. PICK b \in FeedBounds :
         feedLog = [left |-> b, last |-> [n \in News |-> "none"], mixed |-> {}, cut |-> {}]
  BY DEF FeedInit
<1>2. /\ rows = [live |-> Published0, status |-> [n \in News |-> NoRow],
                 gen |-> [n \in News |-> 0]]
      /\ feed = [news |-> {}, archived |-> {}, removed |-> {}, open |-> TRUE]
      /\ traffic = [stream |-> NoList, loads |-> {Loading}, acts |-> {}]
  BY DEF FeedInit
<1>3. FeedTypeOK
  <2>1. Loading \in Loads
    BY DEF Loading, Loads, MaybeList
  <2>2. rows \in [live : SUBSET News, status : [News -> Statuses], gen : [News -> Nat]]
    BY <1>2 DEF FeedAssumption, Statuses
  <2>3. feedLog \in [left : [gestures : Nat, edits : Nat, troubles : Nat],
                     last : [News -> Gestures \cup {"none"}],
                     mixed : SUBSET News, cut : SUBSET News]
    BY <1>1 DEF FeedAssumption
  <2>4. feed \in [news : SUBSET News, archived : SUBSET News, removed : SUBSET News,
                  open : BOOLEAN]
    BY <1>2, Zenon
  <2>5. traffic \in [stream : MaybeList, loads : SUBSET Loads, acts : SUBSET Acts]
    BY <1>2, <2>1 DEF MaybeList
  <2>6. QED
    BY <2>2, <2>3, <2>4, <2>5 DEF FeedTypeOK
<1>4. OneRequest /\ FoundToWrite
  BY <1>2 DEF OneRequest, FoundToWrite
<1>5. DismissedIsKept /\ DismissedStaysGone
  BY <1>1 DEF DismissedIsKept, DismissedStaysGone
<1>6. LastGestureHolds
  BY <1>1, <1>2, Afterwards DEF LastGestureHolds
<1>7. QED
  BY <1>3, <1>4, <1>5, <1>6 DEF FeedInv

\* No socket is connected and no gateway knows anything.
LEMMA ClusterStarts ==
    ASSUME ClusterInit
    PROVE  ClusterInv
<1>1. NewGateway \in Gateways /\ NewGateway.conn = {} /\ NewGateway.rooms = {}
      /\ NewGateway.members = {}
  BY DEF NewGateway, Declared, Gateways, PeerViews
<1>2. ClusterTypeOK
  BY <1>1 DEF ClusterInit, ClusterTypeOK
<1>3. SocketsLive /\ NotesFit /\ VerifiedExcused
  BY <1>1 DEF ClusterInit, SocketsLive, NotesFit, VerifiedExcused
<1>4. DueInRoom /\ RoomsMatchSockets /\ BannedAreOut /\ MessageReachesRoom
  BY <1>1 DEF ClusterInit, DueInRoom, RoomsMatchSockets, BannedAreOut, MessageReachesRoom
<1>5. QED
  BY <1>2, <1>3, <1>4 DEF ClusterInv

\* A step is a step of one part, the others stay where they are.
LEMMA LiveStep ==
    ASSUME IInv, OwnerAssumption, TTLAssumption, NoneAssumption, [LiveNext]_liveVars
    PROVE  IInv'
<1>1. /\ [ClusterNext]_clusterVars /\ [FeedNext]_feedVars /\ [BellNext]_bellVars
  BY DEF LiveNext, liveVars
<1>2. BellInv'
  BY <1>1, BellStep DEF IInv
<1>3. FeedInv'
  BY <1>1, FeedStep DEF IInv
<1>4. ClusterInv'
  BY <1>1, ClusterStep DEF IInv
<1>5. QED
  BY <1>2, <1>3, <1>4 DEF IInv

\* The inductive invariant of the live updates holds throughout.
THEOREM Invariant == LiveSpec => []IInv
<1>1. LiveInit => IInv
  BY BellAssumption, FeedAssumption, BellStarts, FeedStarts, ClusterStarts DEF LiveInit, IInv
<1>2. IInv /\ [LiveNext]_liveVars => IInv'
  BY OwnerAssumption, TTLAssumption, NoneAssumption, LiveStep
<1>3. QED
  BY <1>1, <1>2, PTL DEF LiveSpec

\* What chat.gateway.ts announces of a room is what its sockets say, but for a join that
\* ended after its socket closed and a user overtaken by another of their tabs.
THEOREM RoomsCorrect == LiveSpec => []RoomsMatchSockets
<1>1. IInv => RoomsMatchSockets
  BY DEF IInv, ClusterInv
<1>2. QED
  BY <1>1, Invariant, PTL

\* Once disconnectUser and its announcements are through, a banned user has no socket
\* left, but where the handshake had passed or an instance heard nothing.
THEOREM BannedUsersOut == LiveSpec => []BannedAreOut
<1>1. IInv => BannedAreOut
  BY DEF IInv, ClusterInv
<1>2. QED
  BY <1>1, Invariant, PTL

\* A socket that stayed in the room gets the message, is about to get it, or is on an
\* instance the notification did not reach.
THEOREM MessagesReachRooms == LiveSpec => []MessageReachesRoom
<1>1. IInv => MessageReachesRoom
  BY DEF IInv, ClusterInv
<1>2. QED
  BY <1>1, Invariant, PTL

\* A dismissed news stays away and the last gesture of the user is in the row of
\* user_news_status, unless requests about the news crossed or failed.
THEOREM GesturesCorrect == LiveSpec => []GesturesHold
<1>1. IInv => GesturesHold
  BY DEF IInv, FeedInv, GesturesHold
<1>2. QED
  BY <1>1, Invariant, PTL

\* What the notification centre shows as an unread message was told to the list of
\* conversations, or was there from the start or once seen read.
THEOREM UnreadAreTold == LiveSpec => []MessagesAreTold
<1>1. IInv => MessagesAreTold
  BY DEF IInv, BellInv
<1>2. QED
  BY <1>1, Invariant, PTL
=============================================================================
