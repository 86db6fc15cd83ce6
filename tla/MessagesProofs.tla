--------------------------- MODULE MessagesProofs ---------------------------
(***************************************************************************)
(* Proofs about the messages of a conversation, what its members have read   *)
(* and hidden, and the notifications, for any number of members and requests. *)
(***************************************************************************)
EXTENDS Messages, TLAPS

-----------------------------------------------------------------------------
(* The inductive invariant. *)

SaveKinds == {"read", "hide", "open", "reassign"}

\* What a request is, and what it has in memory, at each statement.
StageFits(r) ==
    /\ pc[r] = "idle" <=> req[r] = Nobody
    /\ pc[r] = "done" <=> outcome[r] # "none"
    /\ pc[r] \in SendStages => req[r].do = "send"
    /\ pc[r] = "insert" => at[r] > 0
    /\ pc[r] = "allowed" => req[r].do = "open"
    /\ pc[r] = "unlink" => req[r].do = "reassign" /\ whom[r] = Client
    /\ pc[r] \in {"load", "select", "write"} => req[r].do \in SaveKinds
    /\ pc[r] \in ReadStages => req[r].do = "read"
    /\ pc[r] \in MuteStages => req[r].do \in {"mute", "unmute"}
    /\ req[r] # Nobody /\ req[r].do = "reassign" => private
    /\ pc[r] \in SaveStages \cup ReadStages =>
            whom[r] \in Users /\ (req[r].do # "reassign" => whom[r] = User(r))
    /\ pc[r] \in {"find", "notify"} => whom[r] \in Users
    /\ pc[r] = "select" =>
            /\ seen[r] \in Maybe(StateRow)
            /\ seen[r] # Nobody => seen[r].read <= clock /\ state[whom[r]] # Nobody
    /\ pc[r] = "write" =>
            /\ mine[r] \in StateRow /\ mine[r].read <= clock
            /\ "insert" \in dirty[r] \/ state[whom[r]] # Nobody
    /\ pc[r] \in {"notify", "markNote"} /\ seen[r] # Nobody =>
            seen[r] \in NoteId /\ seen[r].user = whom[r]

\* A request that ended before another came.
BeforeFits(p, r) == <<p, r>> \in before => p # r /\ pc[p] = "done" /\ pc[r] # "idle"

Shape ==
    /\ TypeOK
    /\ \A r \in Requests : StageFits(r)
    /\ \A p, r \in Requests : BeforeFits(p, r)

Unread(n) == notes[n] # Nobody /\ notes[n].read = FALSE

\* Who creates a notification had found no unread one of an earlier send.
NotesFit ==
    /\ \A n \in NoteId : notes[n] # Nobody => pc[n.by] # "idle"
    /\ \A r \in Requests : pc[r] = "notify" /\ seen[r] = Nobody =>
            \A n \in NoteId : Unread(n) /\ n.user = whom[r] => <<n.by, r>> \notin before
    /\ \A m, n \in NoteId :
            m # n /\ m.user = n.user /\ Unread(m) /\ Unread(n) => Overlap(m.by, n.by)

\* Another request of u that writes his row overlapped q.
RowOverlap(u, q) == \E p \in WritesRow(u) : Overlap(p, q)

Marked(q) ==
    req[q] # Nobody /\ req[q].do = "read" /\ (pc[q] \in {"findNote", "markNote"} \/ outcome[q] = "ok")

\* The row of u, and what p has loaded of it, are as new as t.
RowCovers(u, t) == state[u] # Nobody /\ state[u].read >= t
MemoryCovers(p, t) ==
    /\ pc[p] = "select" => seen[p] # Nobody /\ seen[p].read >= t
    /\ pc[p] = "write" => mine[p].read >= t

\* What q marked read covers the sends that ended before it, in the row and in what later
\* requests have loaded of it.
ReadHolds(q, s) ==
    <<s, q>> \in before /\ req[q] # Nobody /\ req[q].do = "read" =>
        /\ pc[q] = "write" =>
            /\ mine[q].read >= at[s]
            /\ dirty[q] \cap {"insert", "read"} = {} =>
                  RowOverlap(User(q), q) \/ RowCovers(User(q), at[s])
        /\ Marked(q) =>
            \/ RowOverlap(User(q), q)
            \/ /\ RowCovers(User(q), at[s])
               /\ \A p \in Requests :
                    <<q, p>> \in before /\ whom[p] = User(q) => MemoryCovers(p, at[s])

\* A request that marked the conversation read for u came during s or after it.
ReadLater(u, s) ==
    \E q \in Of({"read"}) :
        User(q) = u /\ (Overlap(q, s) \/ (outcome[q] = "ok" /\ <<s, q>> \in before))

MutedOnce(u) == \E m \in Of({"mute"}) : User(m) = u

\* Why u may have no unread notification of s left, or has one.
Told(u, s) ==
    u \in bell \/ MutedOnce(u) \/ (\E n \in NoteId : Unread(n) /\ n.user = u) \/ ReadLater(u, s)

\* s has come to u.
Passed(s, u) ==
    \/ pc[s] \in {"settings", "find", "notify"} /\ u \notin left[s]
       /\ (pc[s] \in {"find", "notify"} => whom[s] # u)
    \/ outcome[s] = "ok"

Announces(s) ==
    /\ pc[s] = "notify" /\ seen[s] # Nobody =>
            Unread(seen[s]) \/ whom[s] \in bell \/ ReadLater(whom[s], s)
    /\ req[s] # Nobody /\ req[s].do = "send" =>
            \A u \in Members \ {User(s)} : Passed(s, u) => Told(u, s)

AnnounceFits ==
    /\ \A u \in Users : Muted(u) => MutedOnce(u)
    /\ messages \subseteq Of({"send"})
    /\ \A s \in Requests : Announces(s)

Showing(s) ==
    /\ req[s] # Nobody /\ req[s].do = "send"
    /\ pc[s] \in {"settings", "find", "notify"} \/ outcome[s] = "ok"

\* The row of u, and what p has loaded of it, was not hidden before s came.
RowShows(u, s) == state[u] # Nobody => <<state[u].hidden, s>> \notin before
MemoryShows(p, s) ==
    /\ pc[p] = "select" /\ seen[p] # Nobody => <<seen[p].hidden, s>> \notin before
    /\ pc[p] = "write" => <<mine[p].hidden, s>> \notin before

\* Nobody brings back what was hidden before s, but requests that overlapped it.
ShowHolds(s, u) ==
    Showing(s) =>
        \/ RowOverlap(u, s)
        \/ /\ RowShows(u, s)
           /\ \A p \in Requests : <<s, p>> \in before /\ whom[p] = u => MemoryShows(p, s)

Unlinked(z) ==
    /\ req[z] # Nobody /\ req[z].do = "reassign"
    /\ pc[z] \in {"load", "select", "write"} \/ outcome[z] = "ok"

FreezeOverlap(u, z) == \E q \in Of({"send"}) \cup WritesRow(u) : Overlap(q, z)

HasHidden(z, u) == Unlinked(z) /\ (outcome[z] = "ok" \/ (u = Client /\ whom[z] # Client))

\* The row of u, and what p has loaded of it, is hidden.
RowHides(u) == state[u] # Nobody /\ state[u].hidden # Nobody
MemoryHides(p) ==
    /\ pc[p] = "select" => seen[p] # Nobody /\ seen[p].hidden # Nobody
    /\ pc[p] = "write" => mine[p].hidden # Nobody

\* Where a request stands that finds the link gone.
Stopped(p) ==
    /\ req[p].do = "send" => pc[p] \in {"writable", "done"}
    /\ req[p].do = "open" => pc[p] \in {"allowed", "done"}
    /\ req[p].do = "reassign" => pc[p] \in {"unlink", "done"}

\* After the link is gone no new send and no opening gets through, and what a
\* reassignment hid stays hidden, in the row and in what later requests loaded of it.
FreezeHolds(z) ==
    Unlinked(z) =>
        /\ ~assigned
        /\ outcome[z] # "ok" => whom[z] \in Pair
        /\ \A p \in Requests : <<z, p>> \in before => Stopped(p)
        /\ pc[z] = "write" =>
            /\ mine[z].hidden # Nobody
            /\ dirty[z] \cap {"insert", "hidden"} = {} =>
                  FreezeOverlap(whom[z], z) \/ RowHides(whom[z])
        /\ \A u \in Pair : HasHidden(z, u) =>
            \/ FreezeOverlap(u, z)
            \/ /\ RowHides(u)
               /\ \A p \in Requests : <<z, p>> \in before /\ whom[p] = u => MemoryHides(p)

RowsFit ==
    /\ \A q, s \in Requests : ReadHolds(q, s)
    /\ \A s \in Requests, u \in Users : ShowHolds(s, u)
    /\ \A z \in Requests : FreezeHolds(z)

IInv == Shape /\ NotesFit /\ AnnounceFits /\ RowsFit

-----------------------------------------------------------------------------
\* The types, as the steps below use them.
LEMMA MessageTypes ==
    ASSUME Shape
    PROVE  /\ setting \in Settings /\ assigned \in BOOLEAN
           /\ clock \in Nat /\ at \in [Requests -> 0..clock]
           /\ state \in [Users -> StateRow \cup {Nobody}]
           /\ mute \in [Users -> MuteRow \cup {Nobody}]
           /\ notes \in [NoteId -> Note \cup {Nobody}]
           /\ req \in [Requests -> Request \cup {Nobody}]
           /\ pc \in [Requests -> Stages]
           /\ seen \in [Requests -> StateRow \cup MuteRow \cup NoteId \cup {Nobody}]
           /\ dirty \in [Requests -> SUBSET (Columns \cup {"insert"})]
           /\ mine \in [Requests -> StateRow \cup {Nobody}]
           /\ whom \in [Requests -> Users \cup {Nobody}]
           /\ left \in [Requests -> SUBSET Users]
           /\ outcome \in [Requests -> {"none", "ok", "error", "refused"}]
           /\ before \subseteq Requests \X Requests /\ bell \subseteq Users
           /\ \A r \in Requests : StageFits(r)
           /\ \A p, r \in Requests : BeforeFits(p, r)
    BY DEF Shape, TypeOK, Maybe

\* What is assumed of the constants.
LEMMA Constants ==
    /\ Nobody \notin Requests /\ Nobody \notin Users /\ Nobody \notin Request
    /\ Nobody \notin StateRow /\ Nobody \notin MuteRow /\ Nobody \notin NoteId /\ Nobody \notin Note
    /\ Client \in Users /\ Pair \subseteq Users
    /\ \A r \in Request : r.do \in Kinds /\ r.user \in Users
    BY MessagesAssumption DEF Request

\* Nothing is sent, read, hidden or announced at the start.
LEMMA InitIInv == Init => IInv
<1> SUFFICES ASSUME Init PROVE IInv
    OBVIOUS
<1> USE MessagesAssumption DEF Init
<1>1. TypeOK
<2>1. pc \in [Requests -> Stages]
    BY DEF Stages
<2>2. /\ at \in [Requests -> 0..clock] /\ clock \in Nat
      /\ state \in [Users -> Maybe(StateRow)] /\ mute \in [Users -> Maybe(MuteRow)]
      /\ notes \in [NoteId -> Maybe(Note)] /\ req \in [Requests -> Maybe(Request)]
      /\ seen \in [Requests -> Maybe(StateRow \cup MuteRow \cup NoteId)]
      /\ mine \in [Requests -> Maybe(StateRow)] /\ whom \in [Requests -> Maybe(Users)]
    BY DEF Maybe
<2>3. /\ dirty \in [Requests -> SUBSET (Columns \cup {"insert"})]
      /\ left \in [Requests -> SUBSET Users]
      /\ outcome \in [Requests -> {"none", "ok", "error", "refused"}]
    OBVIOUS
<2> QED
    BY <2>1, <2>2, <2>3 DEF TypeOK
<1>2. \A r \in Requests : StageFits(r)
    BY DEF StageFits, SendStages, SaveStages, ReadStages, MuteStages
<1>3. \A p, r \in Requests : BeforeFits(p, r)
    BY DEF BeforeFits
<1>4. NotesFit
    BY DEF NotesFit, Unread
<1>5. AnnounceFits
    BY DEF AnnounceFits, Announces, Muted
<1>6. RowsFit
    BY DEF RowsFit, ReadHolds, ShowHolds, Showing, FreezeHolds, Unlinked
<1> QED
    BY <1>1, <1>2, <1>3, <1>4, <1>5, <1>6 DEF IInv, Shape

-----------------------------------------------------------------------------
(* What a step of one request leaves as it was. *)

OthersKept(r) ==
    \A q \in Requests \ {r} :
        /\ req'[q] = req[q] /\ pc'[q] = pc[q] /\ seen'[q] = seen[q] /\ dirty'[q] = dirty[q]
        /\ mine'[q] = mine[q] /\ whom'[q] = whom[q] /\ left'[q] = left[q]
        /\ outcome'[q] = outcome[q]

\* Only when it comes, the requests that are done are before r.
OrderKept(r) ==
    /\ pc[r] # "done" /\ pc'[r] # "idle" /\ setting' = setting
    /\ req[r] # Nobody => req'[r] = req[r]
    /\ before \subseteq before'
    /\ \A x \in before' :
            x \in before \/ (pc[r] = "idle" /\ \E p \in Requests : x = <<p, r>> /\ pc[p] = "done")

\* What was said of submitted requests stays true.
LEMMA Stays ==
    ASSUME Shape, NEW r \in Requests, OthersKept(r), OrderKept(r)
    PROVE  /\ Submitted \subseteq Submitted'
           /\ \A p, q \in Submitted : <<p, q>> \in before' <=> <<p, q>> \in before
           /\ \A p \in Submitted : req'[p] = req[p]
           /\ \A u : WritesRow(u) \subseteq WritesRow(u)'
           /\ \A K : Of(K) \subseteq Of(K)'
           /\ Members' = Members
<1> USE MessageTypes
<1>1. \A p \in Submitted : req'[p] = req[p] /\ pc[p] # "idle"
    BY DEF Submitted, OthersKept, OrderKept, StageFits
<1>2. Submitted \subseteq Submitted'
    BY <1>1 DEF Submitted
<1>3. \A p, q \in Submitted : <<p, q>> \in before' <=> <<p, q>> \in before
    BY <1>1 DEF Submitted, OrderKept
<1>4. \A K : Of(K) \subseteq Of(K)'
    BY <1>1, <1>2 DEF Of
<1>5. \A u : WritesRow(u) \subseteq WritesRow(u)'
<2>1. ASSUME NEW u, NEW p \in WritesRow(u) PROVE p \in WritesRow(u)'
<3>1. p \in Of(SaveKinds) /\ p \in Submitted /\ (User(p) = u \/ req[p].do = "reassign")
    BY DEF WritesRow, SaveKinds, Of
<3> QED
    BY <1>1, <1>4, <3>1 DEF WritesRow, SaveKinds, User
<2> QED
    BY <2>1
<1>6. Members' = Members
    BY DEF Members, private, OrderKept
<1> QED
    BY <1>1, <1>2, <1>3, <1>4, <1>5, <1>6

\* Overlaps, later reads and mutes are facts about the past: they stay true.
LEMMA OverlapStays ==
    ASSUME Shape, NEW r \in Requests, OthersKept(r), OrderKept(r),
           NEW q \in Submitted, NEW u
    PROVE  /\ RowOverlap(u, q) => RowOverlap(u, q)'
           /\ FreezeOverlap(u, q) => FreezeOverlap(u, q)'
           /\ ReadLater(u, q) => ReadLater(u, q)'
           /\ MutedOnce(u) => MutedOnce(u)'
<1> USE Stays, MessageTypes
<1>1. \A p \in Submitted : Overlap(p, q) => Overlap(p, q)'
    BY DEF Overlap
<1>2. WritesRow(u) \subseteq Submitted /\ \A K : Of(K) \subseteq Submitted
    BY DEF WritesRow, Of
<1>3. RowOverlap(u, q) => RowOverlap(u, q)'
    BY <1>1, <1>2 DEF RowOverlap
<1>4. FreezeOverlap(u, q) => FreezeOverlap(u, q)'
    BY <1>1, <1>2 DEF FreezeOverlap
<1>5. \A p \in Submitted : outcome[p] = "ok" => outcome'[p] = "ok"
    BY DEF OthersKept, OrderKept, StageFits, Submitted
<1>6. ReadLater(u, q) => ReadLater(u, q)'
    BY <1>1, <1>2, <1>5 DEF ReadLater, User
<1>7. MutedOnce(u) => MutedOnce(u)'
    BY <1>2 DEF MutedOnce, User
<1> QED
    BY <1>3, <1>4, <1>6, <1>7

\* A step of one request keeps the shape of what the others have in memory.
LEMMA ShapeKept ==
    ASSUME Shape, NEW r \in Requests, OthersKept(r), OrderKept(r), TypeOK', clock <= clock',
           StageFits(r)', \A q \in Requests \ {r} : at'[q] = at[q],
           \A u \in Users : state[u] # Nobody => state'[u] # Nobody
    PROVE  Shape'
<1> USE MessageTypes
<1>1. ASSUME NEW q \in Requests \ {r} PROVE StageFits(q)'
<2>1. clock \in Nat /\ clock' \in Nat
    BY DEF TypeOK
<2>2. /\ seen[q] \in StateRow => seen[q].read \in Nat
      /\ mine[q] \in StateRow => mine[q].read \in Nat
    BY DEF StateRow
<2>3. StageFits(q) /\ private' = private /\ User(q)' = User(q)
    BY DEF OthersKept, OrderKept, private, User
<2>4. pc[q] \in {"select", "write"} => whom[q] \in Users
    BY DEF StageFits, SaveStages
<2> QED
    BY <2>1, <2>2, <2>3, <2>4, Constants DEF OthersKept, StageFits, Maybe
<1>2. ASSUME NEW p \in Requests, NEW q \in Requests PROVE BeforeFits(p, q)'
    BY DEF BeforeFits, OthersKept, OrderKept, StageFits
<1> QED
    BY <1>1, <1>2 DEF Shape

\* A step that creates no unread notification keeps them grouped.
LEMMA NotesKept ==
    ASSUME IInv, NEW r \in Requests, OthersKept(r), OrderKept(r),
           \A n \in NoteId : /\ notes'[n] # Nobody => notes[n] # Nobody
                             /\ Unread(n)' => Unread(n),
           pc'[r] = "notify" /\ seen'[r] = Nobody =>
                pc[r] # "idle" /\ \A n \in NoteId : Unread(n) /\ n.user = whom'[r] => <<n.by, r>> \notin before
    PROVE  NotesFit'
<1> USE MessageTypes DEF IInv
<1>1. \A n \in NoteId : n.by \in Requests
    BY DEF NoteId
<1>2. \A n \in NoteId : notes[n] # Nobody => n.by \in Submitted
    BY <1>1 DEF NotesFit, StageFits, Submitted
<1>3. \A n \in NoteId : notes'[n] # Nobody => pc'[n.by] # "idle"
    BY <1>1 DEF NotesFit, OthersKept, OrderKept
<1>4. ASSUME NEW q \in Requests, pc'[q] = "notify", seen'[q] = Nobody,
             NEW n \in NoteId, Unread(n)', n.user = whom'[q]
      PROVE  <<n.by, q>> \notin before'
    BY <1>1, <1>4 DEF NotesFit, OthersKept, OrderKept
<1>5. ASSUME NEW m \in NoteId, NEW n \in NoteId, m # n, m.user = n.user, Unread(m)', Unread(n)'
      PROVE  Overlap(m.by, n.by)'
<2>1. Overlap(m.by, n.by) /\ m.by \in Submitted /\ n.by \in Submitted
    BY <1>2, <1>5 DEF NotesFit, Unread
<2> QED
    BY <2>1, Stays DEF Overlap
<1> QED
    BY <1>3, <1>4, <1>5 DEF NotesFit

\* A notification is lost to nobody but the bell or a request that marks it read.
LEMMA AnnounceKept ==
    ASSUME IInv, NEW r \in Requests, OthersKept(r), OrderKept(r), Announces(r)',
           bell \subseteq bell', messages' \subseteq messages \/ messages' \subseteq Of({"send"}),
           \A u \in Users : Muted(u)' => Muted(u) \/ MutedOnce(u)',
           \A n \in NoteId : Unread(n) =>
                \/ Unread(n)'
                \/ n.user \in bell'
                \/ r \in Of({"read"}) /\ User(r) = n.user /\ outcome'[r] = "ok"
    PROVE  AnnounceFits'
<1> USE MessageTypes DEF IInv
<1>1. ASSUME NEW u \in Users, Muted(u)' PROVE MutedOnce(u)'
<2>1. Muted(u) => MutedOnce(u)
    BY DEF AnnounceFits
<2>2. MutedOnce(u) => MutedOnce(u)'
<3>1. SUFFICES ASSUME MutedOnce(u) PROVE MutedOnce(u)'
    OBVIOUS
<3>2. PICK q \in Submitted : TRUE
    BY <3>1 DEF MutedOnce, Of
<3> QED
    BY <3>1, <3>2, OverlapStays
<2> QED
    BY <1>1, <2>1, <2>2
<1>2. messages' \subseteq Of({"send"})'
    BY Stays DEF AnnounceFits
<1>3. ASSUME NEW s \in Requests, s # r PROVE Announces(s)'
<2>1. ASSUME NEW n \in NoteId, Unread(n), s \in Of({"send"})
      PROVE  Unread(n)' \/ n.user \in bell' \/ ReadLater(n.user, s)'
<3>1. CASE r \in Of({"read"}) /\ User(r) = n.user /\ outcome'[r] = "ok"
<4>1. s \in Submitted /\ r \in Submitted /\ <<r, s>> \notin before
    BY <2>1, <3>1 DEF Of, BeforeFits, OrderKept
<4>2. Overlap(r, s)' \/ <<s, r>> \in before'
    BY <1>3, <4>1, Stays DEF Overlap
<4>3. r \in Of({"read"})' /\ User(r)' = n.user
    BY <3>1, <4>1, Stays DEF User
<4> QED
    BY <3>1, <4>2, <4>3 DEF ReadLater
<3> QED
    BY <2>1, <3>1
<2>2. /\ pc'[s] = pc[s] /\ seen'[s] = seen[s] /\ whom'[s] = whom[s] /\ left'[s] = left[s]
      /\ outcome'[s] = outcome[s] /\ req'[s] = req[s] /\ Announces(s)
    BY <1>3 DEF OthersKept, AnnounceFits
<2>3. ASSUME pc[s] = "notify", seen[s] # Nobody
      PROVE  Unread(seen[s])' \/ whom[s] \in bell' \/ ReadLater(whom[s], s)'
<3>1. seen[s] \in NoteId /\ seen[s].user = whom[s] /\ s \in Of({"send"}) /\ s \in Submitted
    BY <2>3 DEF StageFits, SendStages, Of, Submitted
<3>2. ReadLater(whom[s], s) => ReadLater(whom[s], s)'
<4>1. PICK w : w = whom[s]
    OBVIOUS
<4>2. ReadLater(w, s) => ReadLater(w, s)'
    BY <3>1, OverlapStays
<4> QED
    BY <2>2, <4>1, <4>2 DEF ReadLater
<3>3. Unread(seen[s]) \/ whom[s] \in bell \/ ReadLater(whom[s], s)
    BY <2>2, <2>3 DEF Announces
<3>4. Unread(seen[s]) => Unread(seen[s])' \/ whom[s] \in bell' \/ ReadLater(whom[s], s)'
<4>1. PICK n \in NoteId : n = seen[s] /\ n.user = whom[s]
    BY <3>1
<4>2. Unread(n) => Unread(n)' \/ n.user \in bell' \/ ReadLater(n.user, s)'
    BY <2>1, <3>1
<4> QED
    BY <2>2, <4>1, <4>2 DEF Unread, ReadLater
<3> QED
    BY <3>2, <3>3, <3>4
<2>4. ASSUME req[s] # Nobody, req[s].do = "send", NEW u \in Members \ {User(s)}, Passed(s, u)
      PROVE  Told(u, s)'
<3>1. s \in Of({"send"}) /\ s \in Submitted
    BY <2>4 DEF Of, Submitted
<3>2. Told(u, s)
    BY <2>2, <2>4 DEF Announces
<3> QED
    BY <2>1, <3>1, <3>2, OverlapStays DEF Told
<2>5. Members' = Members /\ User(s)' = User(s) /\ \A u : Passed(s, u)' <=> Passed(s, u)
    BY <2>2, Stays DEF User, Passed
<2> QED
    BY <2>2, <2>3, <2>4, <2>5 DEF Announces
<1> QED
    BY <1>1, <1>2, <1>3 DEF AnnounceFits

\* The rows, as far as another request than r goes by them.
LEMMA ReadKept ==
    ASSUME IInv, NEW r \in Requests, OthersKept(r), OrderKept(r),
           NEW q \in Requests \ {r}, NEW s \in Requests, at'[s] = at[s] \/ s = r,
           <<s, q>> \in before /\ (pc[q] = "write" \/ Marked(q)) /\ RowCovers(User(q), at[s]) =>
                RowOverlap(User(q), q)' \/ RowCovers(User(q), at[s])',
           ASSUME Marked(q), <<s, q>> \in before, <<q, r>> \in before', whom'[r] = User(q),
                  RowCovers(User(q), at[s]),
                  <<q, r>> \in before /\ whom[r] = User(q) => MemoryCovers(r, at[s])
           PROVE  MemoryCovers(r, at[s])' \/ RowOverlap(User(q), q)'
    PROVE  ReadHolds(q, s)'
<1> USE MessageTypes DEF IInv
<1>1. SUFFICES ASSUME <<s, q>> \in before', req[q] # Nobody, req[q].do = "read"
      PROVE  ReadHolds(q, s)'
    BY DEF ReadHolds, OthersKept
<1>2. /\ pc'[q] = pc[q] /\ mine'[q] = mine[q] /\ dirty'[q] = dirty[q] /\ req'[q] = req[q]
      /\ outcome'[q] = outcome[q] /\ seen'[q] = seen[q] /\ whom'[q] = whom[q]
    BY DEF OthersKept
<1>3. /\ <<s, q>> \in before /\ at'[s] = at[s] /\ q \in Submitted
      /\ User(q)' = User(q) /\ (Marked(q)' <=> Marked(q)) /\ ReadHolds(q, s)
    BY <1>1, <1>2 DEF OrderKept, BeforeFits, Submitted, User, Marked, RowsFit
<1>4. RowOverlap(User(q), q) => RowOverlap(User(q), q)'
<2>1. PICK u : u = User(q)
    OBVIOUS
<2>2. RowOverlap(u, q) => RowOverlap(u, q)'
    BY <1>3, OverlapStays
<2> QED
    BY <1>3, <2>1, <2>2 DEF RowOverlap, WritesRow, User, Of, Submitted, Overlap
<1>5. ASSUME pc[q] = "write"
      PROVE  /\ mine[q].read >= at[s]
             /\ dirty[q] \cap {"insert", "read"} = {} =>
                  RowOverlap(User(q), q)' \/ RowCovers(User(q), at[s])'
    BY <1>1, <1>3, <1>4, <1>5 DEF ReadHolds
<1>6. ASSUME Marked(q), ~RowOverlap(User(q), q)'
      PROVE  /\ RowCovers(User(q), at[s])'
             /\ \A p \in Requests :
                    <<q, p>> \in before' /\ whom'[p] = User(q) => MemoryCovers(p, at[s])'
<2>1. /\ RowCovers(User(q), at[s])
      /\ \A p \in Requests : <<q, p>> \in before /\ whom[p] = User(q) => MemoryCovers(p, at[s])
    BY <1>1, <1>3, <1>4, <1>6 DEF ReadHolds
<2>2. ASSUME NEW p \in Requests \ {r}, <<q, p>> \in before', whom'[p] = User(q)
      PROVE  MemoryCovers(p, at[s])'
    BY <1>3, <2>1, <2>2 DEF OthersKept, OrderKept, MemoryCovers
<2>3. <<q, r>> \in before' /\ whom'[r] = User(q) => MemoryCovers(r, at[s])'
    BY <1>3, <1>6, <2>1
<2> QED
    BY <1>3, <1>6, <2>1, <2>2, <2>3
<1> QED
    BY <1>2, <1>3, <1>5, <1>6 DEF ReadHolds

\* A row that shows the conversation again for another request's message.
LEMMA ShowKept ==
    ASSUME IInv, NEW r \in Requests, OthersKept(r), OrderKept(r),
           NEW s \in Requests \ {r}, NEW u \in Users,
           Showing(s) /\ RowShows(u, s) => RowOverlap(u, s)' \/ RowShows(u, s)',
           ASSUME Showing(s), <<s, r>> \in before', whom'[r] = u, RowShows(u, s),
                  <<s, r>> \in before /\ whom[r] = u => MemoryShows(r, s)
           PROVE  MemoryShows(r, s)' \/ RowOverlap(u, s)'
    PROVE  ShowHolds(s, u)'
<1> USE MessageTypes DEF IInv
<1>1. /\ pc'[s] = pc[s] /\ req'[s] = req[s] /\ outcome'[s] = outcome[s]
    BY DEF OthersKept
<1>2. SUFFICES ASSUME Showing(s), ~RowOverlap(u, s)'
      PROVE  /\ RowShows(u, s)'
             /\ \A p \in Requests : <<s, p>> \in before' /\ whom'[p] = u => MemoryShows(p, s)'
    BY <1>1 DEF ShowHolds, Showing
<1>3. s \in Submitted /\ \A h : <<h, s>> \in before' <=> <<h, s>> \in before
    BY <1>2 DEF Showing, Submitted, OrderKept, TypeOK, Shape, StageFits
<1>4. /\ RowShows(u, s)
      /\ \A p \in Requests : <<s, p>> \in before /\ whom[p] = u => MemoryShows(p, s)
    BY <1>2, <1>3, OverlapStays DEF RowsFit, ShowHolds
<1>5. ASSUME NEW p \in Requests \ {r}, <<s, p>> \in before', whom'[p] = u
      PROVE  MemoryShows(p, s)'
    BY <1>3, <1>4, <1>5 DEF OthersKept, OrderKept, MemoryShows
<1>6. <<s, r>> \in before' /\ whom'[r] = u => MemoryShows(r, s)'
    BY <1>2, <1>4
<1> QED
    BY <1>2, <1>4, <1>5, <1>6

\* A row another request's reassignment hid.
LEMMA FreezeKept ==
    ASSUME IInv, NEW r \in Requests, OthersKept(r), OrderKept(r),
           NEW z \in Requests \ {r}, ~assigned => ~assigned',
           Unlinked(z) /\ <<z, r>> \in before' => Stopped(r)',
           \A u \in Pair : Unlinked(z) /\ RowHides(u) => FreezeOverlap(u, z)' \/ RowHides(u)',
           \A u \in Pair :
                /\ Unlinked(z) /\ <<z, r>> \in before' /\ whom'[r] = u /\ RowHides(u)
                /\ (<<z, r>> \in before /\ whom[r] = u => MemoryHides(r))
                => MemoryHides(r)' \/ FreezeOverlap(u, z)'
    PROVE  FreezeHolds(z)'
<1> USE MessageTypes DEF IInv
<1>1. /\ pc'[z] = pc[z] /\ req'[z] = req[z] /\ outcome'[z] = outcome[z] /\ whom'[z] = whom[z]
      /\ mine'[z] = mine[z] /\ dirty'[z] = dirty[z]
    BY DEF OthersKept
<1>2. SUFFICES ASSUME Unlinked(z) PROVE FreezeHolds(z)'
    BY <1>1 DEF FreezeHolds, Unlinked
<1>3. FreezeHolds(z) /\ z \in Submitted
    BY <1>2 DEF RowsFit, Unlinked, Submitted
<1>4. ~assigned' /\ (outcome[z] # "ok" => whom[z] \in Pair)
    BY <1>2, <1>3 DEF FreezeHolds
<1>5. ASSUME NEW p \in Requests, <<z, p>> \in before' PROVE Stopped(p)'
<2>1. CASE p = r
    BY <1>2, <1>5, <2>1
<2>2. CASE p # r
    BY <1>2, <1>3, <1>5, <2>2 DEF FreezeHolds, OthersKept, OrderKept, Stopped
<2> QED
    BY <2>1, <2>2
<1>6. ASSUME NEW u \in Pair, FreezeOverlap(u, z) \/ RowHides(u)
      PROVE  FreezeOverlap(u, z)' \/ RowHides(u)'
    BY <1>2, <1>3, <1>6, OverlapStays
<1>7. ASSUME pc[z] = "write"
      PROVE  /\ mine[z].hidden # Nobody
             /\ dirty[z] \cap {"insert", "hidden"} = {} =>
                  FreezeOverlap(whom[z], z)' \/ RowHides(whom[z])'
<2>1. whom[z] \in Pair
    BY <1>2, <1>3, <1>7 DEF FreezeHolds, StageFits
<2>2. PICK u \in Pair : u = whom[z]
    BY <2>1
<2>3. /\ mine[z].hidden # Nobody
      /\ dirty[z] \cap {"insert", "hidden"} = {} => FreezeOverlap(u, z) \/ RowHides(u)
    BY <1>2, <1>3, <1>7, <2>2 DEF FreezeHolds
<2>4. FreezeOverlap(u, z)' <=> FreezeOverlap(whom[z], z)'
    BY <1>1, <2>2 DEF FreezeOverlap, WritesRow, User, Of, Submitted, Overlap
<2>5. RowHides(u)' <=> RowHides(whom[z])'
    BY <1>1, <2>2 DEF RowHides
<2> QED
    BY <1>6, <2>3, <2>4, <2>5
<1>8. ASSUME NEW u \in Pair, HasHidden(z, u), ~FreezeOverlap(u, z)'
      PROVE  /\ RowHides(u)'
             /\ \A p \in Requests : <<z, p>> \in before' /\ whom'[p] = u => MemoryHides(p)'
<2>1. u \in Users
    BY Constants
<2>2. /\ RowHides(u)
      /\ \A p \in Requests : <<z, p>> \in before /\ whom[p] = u => MemoryHides(p)
    BY <1>2, <1>3, <1>8, <2>1, OverlapStays DEF FreezeHolds
<2>3. ASSUME NEW p \in Requests \ {r}, <<z, p>> \in before', whom'[p] = u
      PROVE  MemoryHides(p)'
    BY <1>3, <2>2, <2>3 DEF OthersKept, OrderKept, MemoryHides
<2>4. <<z, r>> \in before' /\ whom'[r] = u => MemoryHides(r)'
    BY <1>2, <1>8, <2>1, <2>2
<2> QED
    BY <1>2, <1>8, <2>1, <2>2, <2>3, <2>4
<1>9. \A u : HasHidden(z, u)' <=> HasHidden(z, u)
    BY <1>1 DEF HasHidden, Unlinked
<1> QED
    BY <1>1, <1>4, <1>5, <1>7, <1>8, <1>9 DEF FreezeHolds

\* A step that neither loads nor writes a row.
LEMMA RowsKept ==
    ASSUME IInv, NEW r \in Requests, OthersKept(r), OrderKept(r),
           state' = state, \A s \in Requests \ {r} : at'[s] = at[s], ~assigned => ~assigned',
           pc'[r] \notin {"select", "write"}, Marked(r)' => Marked(r), Showing(r)' => Showing(r),
           FreezeHolds(r)',
           \A z \in Requests : Unlinked(z) /\ <<z, r>> \in before' => Stopped(r)'
    PROVE  RowsFit'
<1> USE MessageTypes DEF IInv
<1>1. \A u, t : /\ RowCovers(u, t) => state'[u] # Nobody /\ state'[u].read >= t
                /\ (RowHides(u)' <=> RowHides(u))
    BY DEF RowCovers, RowHides
<1>2. \A t : MemoryCovers(r, t)' /\ MemoryShows(r, t)' /\ MemoryHides(r)'
    BY DEF MemoryCovers, MemoryShows, MemoryHides
<1>3. ASSUME NEW q \in Requests, NEW s \in Requests PROVE ReadHolds(q, s)'
<2>1. CASE q # r
<3>1. pc[q] = "write" \/ Marked(q) => User(q)' = User(q)
    BY <2>1 DEF OthersKept, User
<3>2. CASE at'[s] = at[s]
<4>1. (pc[q] = "write" \/ Marked(q)) /\ RowCovers(User(q), at[s]) => RowCovers(User(q), at[s])'
    BY <3>1, <3>2 DEF RowCovers
<4>2. MemoryCovers(r, at[s])'
    BY DEF MemoryCovers
<4> QED
    BY <2>1, <3>2, <4>1, <4>2, ReadKept
<3>3. CASE s = r
<4>1. <<r, q>> \notin before'
    BY <2>1 DEF OrderKept, BeforeFits
<4> QED
    BY <3>3, <4>1 DEF ReadHolds
<3> QED
    BY <3>2, <3>3
<2>2. CASE q = r
<3>1. SUFFICES ASSUME <<s, r>> \in before', Marked(r)' PROVE ReadHolds(r, s)'
    BY <2>2 DEF ReadHolds
<3>2. /\ Marked(r) /\ r \in Submitted /\ req'[r] = req[r] /\ User(r)' = User(r)
    BY <3>1 DEF Marked, Submitted, OrderKept, User
<3>3. /\ <<s, r>> \in before /\ s # r /\ at'[s] = at[s]
    BY <3>1, <3>2 DEF OrderKept, BeforeFits, Submitted, StageFits
<3>4. \/ RowOverlap(User(r), r)
      \/ /\ RowCovers(User(r), at[s])
         /\ \A p \in Requests : <<r, p>> \in before /\ whom[p] = User(r) => MemoryCovers(p, at[s])
    BY <3>2, <3>3 DEF RowsFit, ReadHolds, Marked
<3>5. \A p : <<r, p>> \notin before /\ <<r, p>> \notin before'
    BY DEF OrderKept, BeforeFits, TypeOK, Shape
<3>6. RowOverlap(User(r), r) => RowOverlap(User(r), r)'
<4>1. PICK u : u = User(r)
    OBVIOUS
<4>2. RowOverlap(u, r) => RowOverlap(u, r)'
    BY <3>2, OverlapStays
<4> QED
    BY <3>2, <4>1, <4>2 DEF RowOverlap, WritesRow, User, Of, Submitted, Overlap
<3>7. RowCovers(User(r), at[s]) => RowCovers(User(r), at[s])'
    BY <3>2, <3>3 DEF RowCovers
<3> QED
    BY <3>4, <3>5, <3>6, <3>7 DEF ReadHolds
<2> QED
    BY <2>1, <2>2
<1>4. ASSUME NEW s \in Requests, NEW u \in Users PROVE ShowHolds(s, u)'
<2>1. s \in Submitted /\ RowShows(u, s) => RowShows(u, s)'
    BY DEF RowShows, OrderKept, Submitted, StageFits
<2>2. CASE s # r
<3>1. Showing(s) => s \in Submitted
    BY DEF Showing, Submitted
<3> QED
    BY <1>2, <2>1, <2>2, <3>1, ShowKept
<2>3. CASE s = r
<3>1. SUFFICES ASSUME Showing(r)' PROVE ShowHolds(r, u)'
    BY <2>3 DEF ShowHolds
<3>2. Showing(r) /\ r \in Submitted
    BY <3>1 DEF Showing, Submitted
<3>3. RowOverlap(u, r) \/ RowShows(u, r)
    BY <2>3, <3>2 DEF RowsFit, ShowHolds
<3>4. \A p : <<r, p>> \notin before'
    BY DEF OrderKept, BeforeFits, TypeOK, Shape
<3> QED
    BY <2>1, <2>3, <3>2, <3>3, <3>4, OverlapStays DEF ShowHolds
<2> QED
    BY <2>2, <2>3
<1>5. ASSUME NEW z \in Requests PROVE FreezeHolds(z)'
<2>1. CASE z # r
    BY <1>1, <1>2, <2>1, FreezeKept
<2>2. CASE z = r
    BY <2>2
<2> QED
    BY <2>1, <2>2
<1> QED
    BY <1>3, <1>4, <1>5 DEF RowsFit

\* A step that writes no table the others go by and only moves on.
LEMMA Quiet ==
    ASSUME IInv, NEW r \in Requests, OthersKept(r), OrderKept(r), TypeOK', clock <= clock',
           StageFits(r)', UNCHANGED <<assigned, state, mute, notes, bell>>,
           \A s \in Requests \ {r} : at'[s] = at[s],
           messages' \subseteq messages \/ messages' \subseteq Of({"send"}),
           pc'[r] \notin {"select", "write", "notify"}, Marked(r)' => Marked(r),
           Showing(r)' => Showing(r), ~Unlinked(r)',
           \A z \in Requests : Unlinked(z) /\ <<z, r>> \in before' => Stopped(r)',
           req'[r].do = "send" => \A u \in Members : Passed(r, u)' => Passed(r, u)
    PROVE  IInv'
<1> USE MessageTypes DEF IInv
<1>1. Shape'
    BY ShapeKept
<1>2. NotesFit'
    BY NotesKept DEF Unread
<1>3. RowsFit'
<2>1. FreezeHolds(r)'
    BY DEF FreezeHolds
<2> QED
    BY <2>1, RowsKept
<1>4. Announces(r)'
<2>1. SUFFICES ASSUME req'[r] # Nobody, req'[r].do = "send", NEW u \in Members \ {User(r)'}, Passed(r, u)'
      PROVE  Told(u, r)'
    BY Stays DEF Announces
<2>2. Passed(r, u)
    BY <2>1
<2>3. r \in Submitted /\ req'[r] = req[r] /\ User(r)' = User(r)
    BY <2>2 DEF Passed, Submitted, OrderKept, StageFits, User
<2>4. Told(u, r)
    BY <2>1, <2>2, <2>3 DEF AnnounceFits, Announces
<2> QED
    BY <2>3, <2>4, OverlapStays DEF Told, Unread
<1>5. AnnounceFits'
    BY <1>4, AnnounceKept DEF Muted, Unread
<1> QED
    BY <1>1, <1>2, <1>3, <1>5

-----------------------------------------------------------------------------
(* The steps. *)

\* A request that ends forgets what it had in memory.
LEMMA Ends ==
    ASSUME Shape, NEW r \in Requests, NEW how \in {"ok", "error", "refused"}, End(r, how),
           pc[r] \notin {"idle", "done"}, setting' = setting
    PROVE  /\ OthersKept(r) /\ OrderKept(r) /\ StageFits(r)'
           /\ pc'[r] = "done" /\ outcome'[r] = how /\ req' = req /\ bell' = bell
           /\ req[r] # Nobody /\ pc' \in [Requests -> Stages]
           /\ outcome' \in [Requests -> {"none", "ok", "error", "refused"}]
           /\ seen' \in [Requests -> StateRow \cup MuteRow \cup NoteId \cup {Nobody}]
           /\ dirty' \in [Requests -> SUBSET (Columns \cup {"insert"})]
           /\ mine' \in [Requests -> StateRow \cup {Nobody}]
           /\ whom' \in [Requests -> Users \cup {Nobody}]
           /\ left' \in [Requests -> SUBSET Users] /\ before' = before
<1> USE MessageTypes DEF End
<1>1. pc' \in [Requests -> Stages] /\ pc'[r] = "done" /\ outcome'[r] = how /\ req[r] # Nobody
    BY DEF Stages, StageFits
<1>2. OthersKept(r)
    BY DEF OthersKept
<1>3. OrderKept(r)
    BY <1>1 DEF OrderKept
<1>4. StageFits(r)'
    BY <1>1 DEF StageFits, SendStages, SaveStages, ReadStages, MuteStages, private
<1> QED
    BY <1>1, <1>2, <1>3, <1>4

\* A request that is refused or fails, or ends well but for what it was asked.
LEMMA Over ==
    ASSUME IInv, NEW r \in Requests, NEW how \in {"ok", "error", "refused"}, End(r, how),
           pc[r] \notin {"idle", "done"}, UNCHANGED <<setting, tables>>,
           how = "ok" => req[r].do \notin {"read", "reassign"} /\ (Showing(r)' => Showing(r)),
           how = "ok" /\ req[r].do = "send" => \A u \in Members : Passed(r, u)
    PROVE  IInv'
<1> USE MessageTypes DEF IInv
<1>1. Shape
    OBVIOUS
<1>2. OthersKept(r) /\ OrderKept(r) /\ StageFits(r)' /\ pc'[r] = "done" /\ outcome'[r] = how
      /\ req' = req /\ req[r] # Nobody
    BY <1>1, Ends
<1>3. TypeOK'
<2>1. setting' \in Settings /\ assigned' \in BOOLEAN
    BY Zenon DEF tables
<2>2. UNCHANGED <<clock, at, messages, state, mute, notes>>
    BY DEF tables
<2>3. \A q \in Requests : pc'[q] # "idle" => req'[q] # Nobody
    BY <1>2 DEF OthersKept, StageFits
<2> QED
    BY <1>1, <2>1, <2>2, <2>3, Ends DEF TypeOK, Shape, Maybe
<1>4. /\ Marked(r)' => Marked(r)
      /\ Showing(r)' => Showing(r)
      /\ ~Unlinked(r)'
      /\ req[r].do = "send" => \A u \in Members : Passed(r, u)' => Passed(r, u)
    BY <1>2 DEF Marked, Showing, Unlinked, Passed
<1>5. Stopped(r)'
    BY <1>2 DEF Stopped
<1> QED
<2>1. UNCHANGED <<assigned, state, mute, notes, bell, at, messages, clock>> /\ clock <= clock'
    BY <1>1, Ends DEF tables
<2>2. /\ \A s \in Requests \ {r} : at'[s] = at[s]
      /\ messages' \subseteq messages /\ pc'[r] \notin {"select", "write", "notify"}
      /\ req'[r].do = "send" => \A u \in Members : Passed(r, u)' => Passed(r, u)
    BY <1>2, <1>4, <2>1
<2> QED
    BY <1>2, <1>3, <1>4, <1>5, <2>1, <2>2, Quiet

\* A request that goes on.
LEMMA GoesOn ==
    ASSUME Shape, NEW r \in Requests, NEW s \in Stages \ {"idle", "done"}, Goto(r, s),
           UNCHANGED <<req, history, setting>>,
           pc[r] \notin {"idle", "done"},
           \A q \in Requests \ {r} :
                /\ seen'[q] = seen[q] /\ dirty'[q] = dirty[q] /\ mine'[q] = mine[q]
                /\ whom'[q] = whom[q] /\ left'[q] = left[q]
    PROVE  /\ OthersKept(r) /\ OrderKept(r) /\ pc'[r] = s /\ pc' \in [Requests -> Stages]
           /\ outcome[r] = "none" /\ req[r] # Nobody
    BY MessageTypes DEF Goto, history, OthersKept, OrderKept, StageFits

\* The statements of a request that only it sees: the checks, the time stamp, the INSERT
\* of the message, what it looks up before it marks a notification or a setting.
LEMMA Moves ==
    ASSUME IInv, NEW r \in Requests,
           \/ CheckWritable(r) /\ Writable
           \/ CheckAllowed(r) /\ assigned
           \/ Stamp(r) \/ Insert(r) \/ FindRead(r) \/ LoadMute(r)
    PROVE  IInv'
<1> USE MessageTypes DEF IInv, At
<1> DEFINE s == pc'[r]
<1>1. /\ Shape /\ s \in {"stamp", "insert", "clear", "load", "markNote", "writeMute"}
      /\ pc[r] \in {"writable", "stamp", "insert", "allowed", "findNote", "loadMute"}
      /\ Goto(r, s) /\ UNCHANGED <<req, history, setting, assigned, state, mute, notes>>
      /\ UNCHANGED <<dirty, mine, whom, left>> /\ \A q \in Requests \ {r} : seen'[q] = seen[q]
      /\ s = "load" => pc[r] = "allowed"
      /\ s = "load" => assigned
      /\ s \in {"stamp", "insert", "clear"} => pc[r] \in {"writable", "stamp", "insert"}
      /\ s = "stamp" => Writable
      /\ s \in {"insert", "clear"} => pc[r] \in {"stamp", "insert"}
      /\ s = "markNote" <=> pc[r] = "findNote"
      /\ s = "writeMute" <=> pc[r] = "loadMute"
    BY DEF CheckWritable, Stamp, Insert, CheckAllowed, FindRead, FindNote, LoadMute, GoOn, Goto,
           tables, locals, history
<1> HIDE DEF s
<1>2. s \in Stages \ {"idle", "done"}
    BY <1>1 DEF Stages, SendStages, SaveStages, ReadStages, MuteStages
<1>3. /\ OthersKept(r) /\ OrderKept(r) /\ pc'[r] = s /\ pc' \in [Requests -> Stages]
      /\ outcome[r] = "none" /\ req[r] # Nobody
    BY <1>1, <1>2, GoesOn
<1>4. seen' \in [Requests -> StateRow \cup MuteRow \cup NoteId \cup {Nobody}]
      /\ (s = "markNote" /\ seen'[r] # Nobody => seen'[r] \in NoteId /\ seen'[r].user = whom[r])
<2>1. CASE FindRead(r)
    BY <2>1 DEF FindRead, FindNote, Grouped, UnreadNotes, NotesOf
<2>2. CASE LoadMute(r)
<3>1. User(r) \in Users
    BY <1>3, Constants DEF User
<3> QED
    BY <1>1, <2>2, <3>1 DEF LoadMute
<2>3. CASE ~FindRead(r) /\ ~LoadMute(r)
<3>1. seen' = seen /\ s # "markNote"
    BY <1>1, <2>3 DEF CheckWritable, Stamp, Insert, CheckAllowed, GoOn, locals
<3> QED
    BY <3>1
<2> QED
    BY <2>1, <2>2, <2>3
<1>5. /\ clock' \in Nat /\ clock <= clock' /\ at' \in [Requests -> 0..clock']
      /\ \A q \in Requests \ {r} : at'[q] = at[q]
      /\ \A q \in Requests : at'[q] >= at[q]
<2>1. CASE Stamp(r)
    BY <2>1 DEF Stamp
<2>2. CASE ~Stamp(r)
    BY <1>1, <2>2 DEF CheckWritable, Insert, CheckAllowed, FindRead, FindNote, LoadMute, tables
<2> QED
    BY <2>1, <2>2
<1>6. messages' \subseteq Requests /\ \A q \in messages' : at'[q] > 0
      /\ (messages' \subseteq messages \/ messages' \subseteq Of({"send"}))
<2>1. \A q \in messages : q \in Requests /\ at[q] > 0 /\ q \in Of({"send"})
    BY DEF Shape, TypeOK, AnnounceFits, Of, Submitted
<2>2. CASE Insert(r)
<3>1. r \in Of({"send"}) /\ at[r] > 0 /\ messages' = messages \cup {r} /\ at' = at
    BY <1>3, <2>2 DEF Insert, StageFits, SendStages, Of, Submitted
<3> QED
    BY <2>1, <3>1
<2>3. CASE ~Insert(r)
<3>1. messages' = messages
    BY <2>3 DEF CheckWritable, Stamp, CheckAllowed, FindRead, FindNote, LoadMute, tables
<3> QED
    BY <1>5, <2>1, <3>1
<2> QED
    BY <2>2, <2>3
<1>7. TypeOK'
<2>1. setting' \in Settings /\ assigned' \in BOOLEAN
    BY <1>1, Zenon
<2>2. \A u \in Users : state'[u] # Nobody => state'[u].read <= clock'
<3>1. \A u \in Users : state[u] # Nobody => state[u] \in StateRow /\ state[u].read \in Nat
    BY DEF StateRow
<3> QED
    BY <1>1, <1>5, <3>1 DEF TypeOK, Shape
<2>3. \A q \in Requests : pc'[q] # "idle" => req'[q] # Nobody
    BY <1>1, <1>3 DEF OthersKept, StageFits
<2> QED
    BY <1>1, <1>3, <1>4, <1>5, <1>6, <2>1, <2>2, <2>3 DEF TypeOK, Shape, Maybe, history
<1>8. StageFits(r)'
<2>1. req[r] # Nobody /\ req[r].do = "reassign" => private'
    BY <1>1 DEF StageFits, private
<2>2. s = "insert" => at'[r] > 0
    BY <1>1, <1>3 DEF Stamp, CheckWritable, Insert, CheckAllowed, FindRead, FindNote, LoadMute, GoOn, Goto
<2>3. /\ s \in SendStages => req[r].do = "send"
      /\ s = "load" => req[r].do = "open" /\ whom[r] \in Users /\ whom[r] = User(r)
      /\ s = "markNote" => req[r].do = "read" /\ whom[r] \in Users /\ whom[r] = User(r)
      /\ s = "writeMute" => req[r].do \in {"mute", "unmute"}
    BY <1>1 DEF StageFits, SendStages, SaveStages, ReadStages, MuteStages
<2> QED
    BY <1>1, <1>3, <1>4, <2>1, <2>2, <2>3
       DEF StageFits, SendStages, SaveStages, ReadStages, MuteStages, SaveKinds, User, history
<1>9. /\ Marked(r)' => Marked(r)
      /\ ~Showing(r)' /\ ~Unlinked(r)'
      /\ req'[r].do = "send" => \A u \in Members : ~Passed(r, u)'
    BY <1>1, <1>3 DEF Marked, Showing, Unlinked, Passed, StageFits, history
<1>10. ASSUME NEW z \in Requests, Unlinked(z), <<z, r>> \in before' PROVE Stopped(r)'
<2>1. <<z, r>> \in before /\ z \in Submitted
    BY <1>1, <1>10 DEF Unlinked, Submitted, history
<2>2. ~assigned /\ Stopped(r)
    BY <1>10, <2>1 DEF RowsFit, FreezeHolds
<2>3. private
    BY <1>10 DEF Unlinked, StageFits
<2> QED
    BY <1>1, <1>3, <2>2, <2>3 DEF Stopped, Writable, StageFits, SendStages, ReadStages, MuteStages
<1> QED
    BY <1>1, <1>3, <1>5, <1>6, <1>7, <1>8, <1>9, <1>10, Quiet DEF history

\* Refusals, failures, lost races, and the answer to a send that came to every recipient.
LEMMA Leaves ==
    ASSUME IInv, NEW r \in Requests,
           \/ CheckWritable(r) /\ ~Writable
           \/ CheckAllowed(r) /\ ~assigned
           \/ Unlink(r) /\ ~assigned
           \/ Write(r) /\ Clash(r)
           \/ WriteMute(r) /\ seen[r] = Nobody /\ mute[User(r)] # Nobody
           \/ Answer(r) \/ Fail(r)
    PROVE  IInv'
<1> USE MessageTypes DEF IInv, At
<1>1. CASE Answer(r)
<2>1. pc[r] = "settings" /\ left[r] = {} /\ End(r, "ok") /\ UNCHANGED <<setting, tables>>
    BY <1>1 DEF Answer
<2>2. req[r].do = "send" /\ req[r] # Nobody /\ Showing(r) /\ \A u : Passed(r, u)
    BY <2>1 DEF StageFits, SendStages, Showing, Passed
<2> QED
    BY <2>1, <2>2, Over
<1>2. CASE ~Answer(r)
<2>1. PICK how \in {"error", "refused"} : End(r, how)
    BY <1>2 DEF CheckWritable, CheckAllowed, Unlink, Write, WriteMute, Fail
<2>2. pc[r] \notin {"idle", "done"}
    BY <1>2 DEF CheckWritable, CheckAllowed, Unlink, Write, WriteMute, Fail
<2>3. UNCHANGED <<setting, tables>>
<3>1. CASE Unlink(r) /\ ~assigned
<4>1. assigned = FALSE
    BY <3>1, Zenon
<4> QED
    BY <3>1, <4>1 DEF Unlink, tables
<3> QED
    BY <1>2, <3>1 DEF CheckWritable, CheckAllowed, Write, WriteMute, Fail, tables
<2> QED
    BY <2>1, <2>2, <2>3, Over
<1> QED
    BY <1>1, <1>2

\* The types, for a step of a request that has begun.
LEMMA TypesKept ==
    ASSUME Shape, NEW r \in Requests, OthersKept(r), OrderKept(r), setting' = setting,
           assigned' = assigned, req[r] # Nobody, UNCHANGED <<clock, at, messages, req, before>>,
           state' \in [Users -> StateRow \cup {Nobody}],
           \A u \in Users : state'[u] # Nobody => state'[u].read <= clock,
           mute' \in [Users -> MuteRow \cup {Nobody}], notes' \in [NoteId -> Note \cup {Nobody}],
           pc' \in [Requests -> Stages],
           seen' \in [Requests -> StateRow \cup MuteRow \cup NoteId \cup {Nobody}],
           dirty' \in [Requests -> SUBSET (Columns \cup {"insert"})],
           mine' \in [Requests -> StateRow \cup {Nobody}],
           whom' \in [Requests -> Users \cup {Nobody}],
           left' \in [Requests -> SUBSET Users],
           outcome' \in [Requests -> {"none", "ok", "error", "refused"}], bell' = bell
    PROVE  TypeOK'
<1> USE MessageTypes
<1>1. setting' \in Settings /\ assigned' \in BOOLEAN
    BY Zenon
<1>2. \A q \in Requests : pc'[q] # "idle" => req'[q] # Nobody
    BY DEF OthersKept, StageFits
<1> QED
    BY <1>1, <1>2 DEF TypeOK, Shape, Maybe

\* Where a request of a conversation whose link is gone cannot be.
LEMMA NeverAfter ==
    ASSUME IInv, NEW r \in Requests, NEW z \in Requests, Unlinked(z), <<z, r>> \in before
    PROVE  /\ pc[r] \notin {"stamp", "insert", "clear", "settings", "find", "notify"}
           /\ outcome[z] = "ok" /\ pc[z] = "done" /\ ~assigned
           /\ pc[r] \in {"load", "select", "write"} => req[r].do \in {"read", "hide"}
<1> USE MessageTypes DEF IInv
<1>1. Stopped(r) /\ ~assigned /\ pc[z] = "done"
    BY DEF RowsFit, FreezeHolds, BeforeFits
<1>2. outcome[z] = "ok"
    BY <1>1 DEF Unlinked
<1>3. pc[r] \notin {"stamp", "insert", "clear", "settings", "find", "notify"}
    BY <1>1 DEF Stopped, StageFits, SendStages
<1>4. pc[r] \in {"load", "select", "write"} => req[r].do \in {"read", "hide"}
    BY <1>1 DEF Stopped, StageFits, SaveKinds
<1> QED
    BY <1>1, <1>2, <1>3, <1>4

\* The next recipient is skipped only when he muted the conversation.
LEMMA MutedChecked ==
    ASSUME IInv, NEW r \in Requests, CheckMuted(r)
    PROVE  IInv'
<1> USE MessageTypes DEF IInv
<1>1. PICK u \in left[r] :
        /\ pc[r] = "settings"
        /\ whom' = [whom EXCEPT ![r] = u]
        /\ left' = [left EXCEPT ![r] = @ \ {u}]
        /\ Goto(r, IF Muted(u) THEN "settings" ELSE "find")
    BY DEF CheckMuted, At
<1>2. /\ UNCHANGED <<setting, assigned, clock, at, messages, state, mute, notes>>
      /\ UNCHANGED <<req, seen, dirty, mine, outcome, before, bell>>
    BY DEF CheckMuted, tables, history
<1>3. u \in Users /\ pc'[r] \in {"settings", "find"} /\ whom'[r] = u /\ left'[r] = left[r] \ {u}
      /\ (pc'[r] = "settings" => Muted(u))
      /\ whom' \in [Requests -> Users \cup {Nobody}] /\ left' \in [Requests -> SUBSET Users]
    BY <1>1 DEF Goto
<1>4. /\ OthersKept(r) /\ OrderKept(r) /\ pc' \in [Requests -> Stages]
      /\ outcome[r] = "none" /\ req[r] # Nobody
<2>1. pc'[r] \in Stages \ {"idle", "done"}
    BY <1>3 DEF Stages, SendStages
<2>2. /\ UNCHANGED <<req, history, setting>> /\ pc[r] \notin {"idle", "done"}
      /\ \A q \in Requests \ {r} :
            /\ seen'[q] = seen[q] /\ dirty'[q] = dirty[q] /\ mine'[q] = mine[q]
            /\ whom'[q] = whom[q] /\ left'[q] = left[q]
    BY <1>1, <1>2 DEF history
<2>3. PICK s : s = IF Muted(u) THEN "settings" ELSE "find"
    OBVIOUS
<2>4. Goto(r, s) /\ s \in Stages \ {"idle", "done"}
    BY <1>1, <2>3 DEF Stages, SendStages
<2> QED
    BY <2>2, <2>4, GoesOn
<1>5. req[r].do = "send"
    BY <1>1 DEF StageFits, SendStages
<1>6. TypeOK'
<2>1. \A v \in Users : state'[v] # Nobody => state'[v].read <= clock
    BY <1>2 DEF TypeOK, Shape
<2>2. /\ state' \in [Users -> StateRow \cup {Nobody}] /\ mute' \in [Users -> MuteRow \cup {Nobody}]
      /\ notes' \in [NoteId -> Note \cup {Nobody}]
      /\ seen' \in [Requests -> StateRow \cup MuteRow \cup NoteId \cup {Nobody}]
      /\ dirty' \in [Requests -> SUBSET (Columns \cup {"insert"})]
      /\ mine' \in [Requests -> StateRow \cup {Nobody}]
      /\ outcome' \in [Requests -> {"none", "ok", "error", "refused"}]
    BY <1>2
<2> QED
    BY <1>2, <1>3, <1>4, <2>1, <2>2, TypesKept
<1>7. Shape'
<2>1. StageFits(r)'
    BY <1>2, <1>3, <1>4, <1>5 DEF StageFits, SendStages, SaveStages, ReadStages, MuteStages, private
<2> QED
    BY <1>2, <1>4, <1>6, <2>1, ShapeKept
<1>8. NotesFit'
    BY <1>2, <1>3, <1>4, NotesKept DEF Unread
<1>9. Announces(r)'
<2>1. ASSUME NEW v \in Members \ {User(r)}, Passed(r, v)' PROVE Told(v, r)'
<3>1. Passed(r, v) \/ (v = u /\ Muted(u))
    BY <1>1, <1>2, <1>3, <1>4, <2>1 DEF Passed
<3>2. Told(v, r)
    BY <1>3, <1>4, <1>5, <2>1, <3>1 DEF AnnounceFits, Announces, Told
<3>3. r \in Submitted
    BY <1>4 DEF Submitted
<3> QED
    BY <1>2, <1>4, <3>2, <3>3, OverlapStays DEF Told, Unread
<2>2. Members' = Members /\ User(r)' = User(r)
    BY <1>2, <1>4, Stays DEF User
<2> QED
    BY <1>3, <2>1, <2>2 DEF Announces
<1>10. AnnounceFits'
    BY <1>2, <1>4, <1>9, AnnounceKept DEF Muted, Unread
<1>11. RowsFit'
<2>1. FreezeHolds(r)' /\ (Marked(r)' => Marked(r)) /\ (Showing(r)' => Showing(r))
    BY <1>1, <1>2, <1>4, <1>5 DEF FreezeHolds, Unlinked, Marked, Showing
<2>2. \A z \in Requests : Unlinked(z) /\ <<z, r>> \in before' => Stopped(r)'
    BY <1>1, <1>2, NeverAfter
<2> QED
    BY <1>2, <1>3, <1>4, <2>1, <2>2, RowsKept
<1> QED
    BY <1>7, <1>8, <1>10, <1>11

\* Who finds no unread notification knows that there is none of an earlier
\* send.
LEMMA GroupFound ==
    ASSUME IInv, NEW r \in Requests, FindGrouped(r)
    PROVE  IInv'
<1> USE MessageTypes DEF IInv
<1>1. /\ pc[r] = "find" /\ Goto(r, "notify")
      /\ UNCHANGED <<setting, assigned, clock, at, messages, state, mute, notes>>
      /\ UNCHANGED <<req, dirty, mine, whom, left, outcome, before, bell>>
    BY DEF FindGrouped, FindNote, At, tables, history
<1>2. PICK m \in NoteId \cup {Nobody} :
        /\ seen' = [seen EXCEPT ![r] = m]
        /\ m = Nobody => \A n \in NoteId : ~(Unread(n) /\ n.user = whom[r])
        /\ m # Nobody => m \in NoteId /\ Unread(m) /\ m.user = whom[r]
<2>1. CASE Grouped(whom[r]) = {} /\ seen' = [seen EXCEPT ![r] = Nobody]
<3>1. \A n \in NoteId : ~(Unread(n) /\ n.user = whom[r])
    BY <2>1 DEF Grouped, UnreadNotes, NotesOf, Unread
<3> QED
    BY <2>1, <3>1
<2>2. CASE \E n \in Grouped(whom[r]) : seen' = [seen EXCEPT ![r] = n]
    BY <2>2, Constants DEF Grouped, UnreadNotes, NotesOf, Unread
<2> QED
    BY <2>1, <2>2 DEF FindGrouped, FindNote
<1>3. seen' \in [Requests -> StateRow \cup MuteRow \cup NoteId \cup {Nobody}] /\ seen'[r] = m
    BY <1>2
<1>4. /\ OthersKept(r) /\ OrderKept(r) /\ pc' \in [Requests -> Stages] /\ pc'[r] = "notify"
      /\ outcome[r] = "none" /\ req[r] # Nobody
<2>1. "notify" \in Stages \ {"idle", "done"}
    BY DEF Stages, SendStages
<2>2. /\ UNCHANGED <<req, history, setting>> /\ pc[r] \notin {"idle", "done"}
      /\ \A q \in Requests \ {r} :
            /\ seen'[q] = seen[q] /\ dirty'[q] = dirty[q] /\ mine'[q] = mine[q]
            /\ whom'[q] = whom[q] /\ left'[q] = left[q]
    BY <1>1, <1>2 DEF history
<2> QED
    BY <1>1, <2>1, <2>2, GoesOn
<1>5. req[r].do = "send" /\ whom[r] \in Users
    BY <1>1 DEF StageFits, SendStages
<1>6. TypeOK'
<2>1. \A v \in Users : state'[v] # Nobody => state'[v].read <= clock
    BY <1>1 DEF TypeOK, Shape
<2>2. /\ state' \in [Users -> StateRow \cup {Nobody}] /\ mute' \in [Users -> MuteRow \cup {Nobody}]
      /\ notes' \in [NoteId -> Note \cup {Nobody}]
      /\ dirty' \in [Requests -> SUBSET (Columns \cup {"insert"})]
      /\ mine' \in [Requests -> StateRow \cup {Nobody}]
      /\ whom' \in [Requests -> Users \cup {Nobody}] /\ left' \in [Requests -> SUBSET Users]
      /\ outcome' \in [Requests -> {"none", "ok", "error", "refused"}]
    BY <1>1
<2> QED
    BY <1>1, <1>3, <1>4, <2>1, <2>2, TypesKept
<1>7. Shape'
<2>1. StageFits(r)'
    BY <1>1, <1>2, <1>3, <1>4, <1>5
       DEF StageFits, SendStages, SaveStages, ReadStages, MuteStages, private
<2> QED
    BY <1>1, <1>4, <1>6, <2>1, ShapeKept
<1>8. NotesFit'
    BY <1>1, <1>2, <1>3, <1>4, NotesKept DEF Unread
<1>9. Announces(r)'
<2>1. ASSUME NEW v \in Members \ {User(r)}, Passed(r, v)' PROVE Told(v, r)'
<3>1. Passed(r, v)
    BY <1>1, <1>4, <2>1 DEF Passed
<3>2. Told(v, r)
    BY <1>4, <1>5, <2>1, <3>1 DEF AnnounceFits, Announces
<3>3. r \in Submitted
    BY <1>4 DEF Submitted
<3> QED
    BY <1>1, <1>4, <3>2, <3>3, OverlapStays DEF Told, Unread
<2>2. Members' = Members /\ User(r)' = User(r)
    BY <1>1, <1>4, Stays DEF User
<2>3. seen'[r] = m /\ (m # Nobody => Unread(m)')
    BY <1>1, <1>2, <1>3 DEF Unread
<2> QED
    BY <2>1, <2>2, <2>3 DEF Announces, Unread
<1>10. AnnounceFits'
    BY <1>1, <1>4, <1>9, AnnounceKept DEF Muted, Unread
<1>11. RowsFit'
<2>1. FreezeHolds(r)' /\ (Marked(r)' => Marked(r)) /\ (Showing(r)' => Showing(r))
    BY <1>1, <1>4, <1>5 DEF FreezeHolds, Unlinked, Marked, Showing
<2>2. \A z \in Requests : Unlinked(z) /\ <<z, r>> \in before' => Stopped(r)'
    BY <1>1, NeverAfter
<2> QED
    BY <1>1, <1>4, <2>1, <2>2, RowsKept
<1> QED
    BY <1>7, <1>8, <1>10, <1>11

\* Both ways of announcing leave an unread notification of the recipient, unless the one
\* that was found is read or deleted since.
LEMMA AnnouncedNote ==
    ASSUME IInv, NEW r \in Requests, pc[r] = "notify", notes' = Announced(r)
    PROVE  \E k \in NoteId :
           /\ notes' \in [NoteId -> Note \cup {Nobody}]
           /\ k.by = r /\ k.user = whom[r] /\ \A n \in NoteId : n.user = k.user /\ n.by = r => n = k
           /\ \A n \in NoteId : Unread(n) => Unread(n)'
           /\ seen[r] = Nobody =>
                /\ Unread(k)'
                /\ \A n \in NoteId \ {k} : notes'[n] = notes[n] /\ (Unread(n)' => Unread(n))
           /\ seen[r] # Nobody => \A n \in NoteId :
                /\ notes'[n] # Nobody => notes[n] # Nobody
                /\ Unread(n)' <=> Unread(n)
<1> USE MessageTypes, Constants DEF IInv
<1>1. whom[r] \in Users
    BY DEF StageFits
<1>2. PICK k : k = [by |-> r, user |-> whom[r]]
    OBVIOUS
<1>3. k \in NoteId /\ k.by = r /\ k.user = whom[r]
      /\ \A n \in NoteId : n.user = k.user /\ n.by = r => n = k
    BY <1>1, <1>2 DEF NoteId
<1>4. CASE seen[r] = Nobody
<2>1. PICK new : new = [count |-> 1, read |-> FALSE]
    OBVIOUS
<2>2. new \in Note
    BY <2>1 DEF Note
<2>3. new # Nobody /\ new.read = FALSE
    BY <2>1, <2>2
<2>4. notes' = [notes EXCEPT ![k] = new]
    BY <1>2, <1>4, <2>1 DEF Announced
<2>5. notes' \in [NoteId -> Note \cup {Nobody}] /\ notes'[k] = new
      /\ \A n \in NoteId \ {k} : notes'[n] = notes[n]
    BY <1>3, <2>2, <2>4
<2>6. Unread(k)' /\ (\A n \in NoteId \ {k} : Unread(n)' <=> Unread(n))
    BY <2>3, <2>5 DEF Unread
<2> QED
    BY <1>1, <1>2, <1>3, <1>4, <2>5, <2>6
<1>5. CASE seen[r] # Nobody
<2>1. ASSUME NEW n \in NoteId
      PROVE  /\ notes'[n] \in Note \cup {Nobody}
             /\ notes'[n] # Nobody <=> notes[n] # Nobody
             /\ Unread(n)' <=> Unread(n)
<3>1. CASE n = seen[r] /\ notes[n] # Nobody
<4>1. notes'[n] = [notes[n] EXCEPT !.count = @ + 1]
    BY <1>5, <3>1 DEF Announced
<4>2. notes[n] \in Note /\ notes[n].count \in Nat
    BY <3>1 DEF Note
<4>3. notes'[n] \in Note /\ notes'[n].read = notes[n].read
    BY <4>1, <4>2 DEF Note
<4> QED
    BY <3>1, <4>3 DEF Unread
<3>2. CASE ~(n = seen[r] /\ notes[n] # Nobody)
<4>1. notes'[n] = notes[n]
    BY <1>5, <3>2 DEF Announced
<4> QED
    BY <4>1 DEF Unread
<3> QED
    BY <3>1, <3>2
<2>2. notes' = [n \in NoteId |-> notes'[n]]
    BY <1>5 DEF Announced
<2> QED
    BY <1>1, <1>2, <1>3, <1>5, <2>1, <2>2
<1> QED
    BY <1>4, <1>5

\* The notification a send creates or increments tells its recipient.
LEMMA Notified ==
    ASSUME IInv, NEW r \in Requests, Notify(r)
    PROVE  IInv'
<1> USE MessageTypes DEF IInv
<1>1. /\ pc[r] = "notify" /\ Goto(r, "settings") /\ notes' = Announced(r)
      /\ UNCHANGED <<setting, assigned, clock, at, messages, state, mute>>
      /\ UNCHANGED <<req, seen, dirty, mine, whom, left, outcome, before, bell>>
    BY DEF Notify, GoOn, At, locals, history
<1>2. PICK k \in NoteId :
      /\ notes' \in [NoteId -> Note \cup {Nobody}]
      /\ k.by = r /\ k.user = whom[r] /\ \A n \in NoteId : n.user = k.user /\ n.by = r => n = k
      /\ \A n \in NoteId : Unread(n) => Unread(n)'
      /\ seen[r] = Nobody =>
           /\ Unread(k)'
           /\ \A n \in NoteId \ {k} : notes'[n] = notes[n] /\ (Unread(n)' => Unread(n))
      /\ seen[r] # Nobody => \A n \in NoteId :
           (notes'[n] # Nobody => notes[n] # Nobody) /\ (Unread(n)' <=> Unread(n))
    BY <1>1, AnnouncedNote
<1>3. whom[r] \in Users
    BY <1>1 DEF StageFits
<1>4. /\ OthersKept(r) /\ OrderKept(r) /\ pc' \in [Requests -> Stages] /\ pc'[r] = "settings"
      /\ outcome[r] = "none" /\ req[r] # Nobody
<2>1. "settings" \in Stages \ {"idle", "done"}
    BY DEF Stages, SendStages
<2>2. /\ UNCHANGED <<req, history, setting>> /\ pc[r] \notin {"idle", "done"}
      /\ \A q \in Requests \ {r} :
            /\ seen'[q] = seen[q] /\ dirty'[q] = dirty[q] /\ mine'[q] = mine[q]
            /\ whom'[q] = whom[q] /\ left'[q] = left[q]
    BY <1>1 DEF history
<2> QED
    BY <1>1, <2>1, <2>2, GoesOn
<1>5. req[r].do = "send"
    BY <1>1 DEF StageFits, SendStages
<1>6. TypeOK'
<2>1. \A v \in Users : state'[v] # Nobody => state'[v].read <= clock
    BY <1>1 DEF TypeOK, Shape
<2>2. /\ state' \in [Users -> StateRow \cup {Nobody}] /\ mute' \in [Users -> MuteRow \cup {Nobody}]
      /\ seen' \in [Requests -> StateRow \cup MuteRow \cup NoteId \cup {Nobody}]
      /\ dirty' \in [Requests -> SUBSET (Columns \cup {"insert"})]
      /\ mine' \in [Requests -> StateRow \cup {Nobody}]
      /\ whom' \in [Requests -> Users \cup {Nobody}] /\ left' \in [Requests -> SUBSET Users]
      /\ outcome' \in [Requests -> {"none", "ok", "error", "refused"}]
    BY <1>1
<2> QED
    BY <1>1, <1>2, <1>4, <2>1, <2>2, TypesKept
<1>7. Shape'
<2>1. StageFits(r)'
    BY <1>1, <1>4, <1>5
       DEF StageFits, SendStages, SaveStages, ReadStages, MuteStages, private
<2> QED
    BY <1>1, <1>4, <1>6, <2>1, ShapeKept
<1>8. NotesFit'
<2>1. CASE seen[r] # Nobody
    BY <1>1, <1>2, <1>4, <2>1, NotesKept
<2>2. CASE seen[r] = Nobody
<3>1. ASSUME NEW n \in NoteId, notes'[n] # Nobody PROVE pc'[n.by] # "idle"
<4>1. CASE n = k
    BY <1>2, <1>4, <4>1
<4>2. CASE n # k
<5>1. notes[n] # Nobody /\ n.by \in Requests
    BY <1>2, <2>2, <3>1, <4>2 DEF NoteId
<5> QED
    BY <1>4, <5>1 DEF NotesFit, OthersKept
<4> QED
    BY <4>1, <4>2
<3>2. ASSUME NEW q \in Requests, pc'[q] = "notify", seen'[q] = Nobody,
             NEW n \in NoteId, Unread(n)', n.user = whom'[q]
      PROVE  <<n.by, q>> \notin before'
<4>1. q # r /\ pc[q] = "notify" /\ seen[q] = Nobody
    BY <1>1, <1>4, <3>2 DEF OthersKept
<4>2. CASE n = k
    BY <1>1, <1>2, <4>2 DEF BeforeFits
<4>3. CASE n # k
    BY <1>1, <1>2, <2>2, <3>2, <4>1, <4>3 DEF NotesFit
<4> QED
    BY <4>2, <4>3
<3>3. ASSUME NEW n \in NoteId \ {k}, n.user = whom[r], Unread(n)'
      PROVE  Overlap(r, n.by)' /\ Overlap(n.by, r)'
<4>1. Unread(n) /\ n.by # r /\ n.by \in Requests
    BY <1>2, <1>3, <2>2, <3>3 DEF NoteId
<4>2. <<n.by, r>> \notin before /\ <<r, n.by>> \notin before
    BY <1>1, <2>2, <3>3, <4>1 DEF NotesFit, BeforeFits
<4> QED
    BY <1>1, <4>1, <4>2 DEF Overlap
<3>4. ASSUME NEW m \in NoteId, NEW n \in NoteId, m # n, m.user = n.user, Unread(m)', Unread(n)'
      PROVE  Overlap(m.by, n.by)'
<4>1. CASE m = k
    BY <1>2, <3>3, <3>4, <4>1
<4>2. CASE n = k
    BY <1>2, <3>3, <3>4, <4>2
<4>3. CASE m # k /\ n # k
<5>1. Overlap(m.by, n.by)
    BY <1>2, <2>2, <3>4, <4>3 DEF NotesFit
<5> QED
    BY <1>1, <5>1 DEF Overlap
<4> QED
    BY <4>1, <4>2, <4>3
<3> QED
    BY <3>1, <3>2, <3>4 DEF NotesFit
<2> QED
    BY <2>1, <2>2
<1>9. Announces(r)'
<2>1. ASSUME NEW v \in Members \ {User(r)}, Passed(r, v)' PROVE Told(v, r)'
<3>1. r \in Submitted
    BY <1>4 DEF Submitted
<3>2. CASE v # whom[r]
<4>1. Passed(r, v)
    BY <1>1, <1>4, <2>1, <3>2 DEF Passed
<4>2. Told(v, r)
    BY <1>4, <1>5, <2>1, <4>1 DEF AnnounceFits, Announces
<4> QED
    BY <1>1, <1>2, <1>4, <3>1, <4>2, OverlapStays DEF Told
<3>3. CASE v = whom[r] /\ seen[r] = Nobody
    BY <1>2, <1>3, <3>3 DEF Told
<3>4. CASE v = whom[r] /\ seen[r] # Nobody
<4>1. Told(v, r)
<5>1. seen[r] \in NoteId /\ seen[r].user = v
    BY <1>1, <3>4 DEF StageFits
<5>2. Unread(seen[r]) \/ v \in bell \/ ReadLater(v, r)
    BY <1>1, <3>4 DEF AnnounceFits, Announces
<5> QED
    BY <5>1, <5>2 DEF Told
<4> QED
    BY <1>1, <1>2, <1>4, <3>1, <4>1, OverlapStays DEF Told
<3> QED
    BY <3>2, <3>3, <3>4
<2>2. Members' = Members /\ User(r)' = User(r)
    BY <1>1, <1>4, Stays DEF User
<2> QED
    BY <1>4, <2>1, <2>2 DEF Announces
<1>10. AnnounceFits'
    BY <1>1, <1>2, <1>4, <1>9, AnnounceKept DEF Muted
<1>11. RowsFit'
<2>1. FreezeHolds(r)' /\ (Marked(r)' => Marked(r)) /\ (Showing(r)' => Showing(r))
    BY <1>1, <1>4, <1>5 DEF FreezeHolds, Unlinked, Marked, Showing
<2>2. \A z \in Requests : Unlinked(z) /\ <<z, r>> \in before' => Stopped(r)'
    BY <1>1, NeverAfter
<2> QED
    BY <1>1, <1>4, <2>1, <2>2, RowsKept
<1> QED
    BY <1>7, <1>8, <1>10, <1>11

\* clearHiddenForConversation shows the conversation to everybody and loses
\* nothing read.
LEMMA HiddenCleared ==
    ASSUME IInv, NEW r \in Requests, ClearHidden(r)
    PROVE  IInv'
<1> USE MessageTypes DEF IInv
<1>1. /\ pc[r] = "clear" /\ Goto(r, "settings") /\ state' = Cleared
      /\ left' = [left EXCEPT ![r] = Members \ {User(r)}]
      /\ UNCHANGED <<setting, assigned, clock, at, messages, mute, notes>>
      /\ UNCHANGED <<req, seen, dirty, mine, whom, outcome, before, bell>>
    BY DEF ClearHidden, At, history
<1>2. ASSUME NEW u \in Users
      PROVE  /\ state'[u] \in StateRow \cup {Nobody}
             /\ state'[u] = Nobody <=> state[u] = Nobody
             /\ state[u] # Nobody => state'[u].read = state[u].read /\ state'[u].hidden = Nobody
<2>1. state'[u] = IF state[u] = Nobody THEN Nobody ELSE [state[u] EXCEPT !.hidden = Nobody]
    BY <1>1 DEF Cleared
<2>2. CASE state[u] = Nobody
    BY <2>1, <2>2
<2>3. CASE state[u] # Nobody
<3>1. state[u] \in StateRow /\ state'[u] = [state[u] EXCEPT !.hidden = Nobody]
    BY <2>1, <2>3
<3>2. state'[u] \in StateRow /\ state'[u].read = state[u].read /\ state'[u].hidden = Nobody
    BY <3>1 DEF StateRow
<3> QED
    BY <2>3, <3>2, Constants
<2> QED
    BY <2>2, <2>3
<1>3. state' \in [Users -> StateRow \cup {Nobody}]
<2>1. state' = [u \in Users |-> state'[u]]
    BY <1>1 DEF Cleared
<2> QED
    BY <1>2, <2>1
<1>4. /\ OthersKept(r) /\ OrderKept(r) /\ pc' \in [Requests -> Stages] /\ pc'[r] = "settings"
      /\ outcome[r] = "none" /\ req[r] # Nobody
<2>1. "settings" \in Stages \ {"idle", "done"}
    BY DEF Stages, SendStages
<2>2. /\ UNCHANGED <<req, history, setting>> /\ pc[r] \notin {"idle", "done"}
      /\ \A q \in Requests \ {r} :
            /\ seen'[q] = seen[q] /\ dirty'[q] = dirty[q] /\ mine'[q] = mine[q]
            /\ whom'[q] = whom[q] /\ left'[q] = left[q]
    BY <1>1 DEF history
<2> QED
    BY <1>1, <2>1, <2>2, GoesOn
<1>5. req[r].do = "send"
    BY <1>1 DEF StageFits, SendStages
<1>6. left' \in [Requests -> SUBSET Users] /\ left'[r] = Members \ {User(r)}
<2>1. Members \subseteq Users
    BY Constants DEF Members
<2> QED
    BY <1>1, <2>1
<1>7. TypeOK'
<2>1. \A v \in Users : state'[v] # Nobody => state'[v].read <= clock
    BY <1>2 DEF TypeOK, Shape
<2>2. /\ mute' \in [Users -> MuteRow \cup {Nobody}]
      /\ notes' \in [NoteId -> Note \cup {Nobody}]
      /\ seen' \in [Requests -> StateRow \cup MuteRow \cup NoteId \cup {Nobody}]
      /\ dirty' \in [Requests -> SUBSET (Columns \cup {"insert"})]
      /\ mine' \in [Requests -> StateRow \cup {Nobody}]
      /\ whom' \in [Requests -> Users \cup {Nobody}]
      /\ outcome' \in [Requests -> {"none", "ok", "error", "refused"}]
    BY <1>1
<2> QED
    BY <1>1, <1>3, <1>4, <1>6, <2>1, <2>2, TypesKept
<1>8. Shape'
<2>1. StageFits(r)'
    BY <1>1, <1>4, <1>5 DEF StageFits, SendStages, SaveStages, ReadStages, MuteStages, private
<2>2. \A u \in Users : state[u] # Nobody => state'[u] # Nobody
    BY <1>2
<2> QED
    BY <1>1, <1>4, <1>7, <2>1, <2>2, ShapeKept
<1>9. NotesFit'
    BY <1>1, <1>4, NotesKept DEF Unread
<1>10. AnnounceFits'
<2>1. Announces(r)'
<3>1. \A v \in Members \ {User(r)} : ~Passed(r, v)'
    BY <1>1, <1>4, <1>6 DEF Passed
<3>2. Members' = Members /\ User(r)' = User(r)
    BY <1>1, <1>4, Stays DEF User
<3> QED
    BY <1>4, <3>1, <3>2 DEF Announces
<2> QED
    BY <1>1, <1>4, <2>1, AnnounceKept DEF Muted, Unread
<1>11. ASSUME NEW q \in Requests, NEW s \in Requests PROVE ReadHolds(q, s)'
<2>1. CASE q = r
    BY <1>1, <1>5, <2>1 DEF ReadHolds
<2>2. CASE q # r
<3>1. ASSUME pc[q] = "write" \/ Marked(q), RowCovers(User(q), at[s])
      PROVE  RowCovers(User(q), at[s])'
<4>1. User(q) \in Users /\ User(q)' = User(q) /\ at'[s] = at[s]
<5>1. req[q] # Nobody
    BY <3>1 DEF Marked, StageFits
<5> QED
    BY <1>1, <5>1, Constants DEF User
<4> QED
    BY <1>2, <3>1, <4>1 DEF RowCovers
<3>2. MemoryCovers(r, at[s])'
    BY <1>4 DEF MemoryCovers
<3>3. at'[s] = at[s]
    BY <1>1
<3> QED
    BY <1>4, <2>2, <3>1, <3>2, <3>3, ReadKept
<2> QED
    BY <2>1, <2>2
<1>12. ASSUME NEW s \in Requests, NEW u \in Users PROVE ShowHolds(s, u)'
<2>1. RowShows(u, s)'
    BY <1>1, <1>2, Constants DEF RowShows
<2>2. CASE s = r
<3>1. \A p : <<r, p>> \notin before'
    BY <1>1, <1>4 DEF BeforeFits
<3> QED
    BY <2>1, <2>2, <3>1 DEF ShowHolds
<2>3. CASE s # r
<3>1. MemoryShows(r, s)'
    BY <1>4 DEF MemoryShows
<3> QED
    BY <1>4, <2>1, <2>3, <3>1, ShowKept
<2> QED
    BY <2>2, <2>3
<1>13. ASSUME NEW z \in Requests PROVE FreezeHolds(z)'
<2>1. CASE z = r
    BY <1>1, <1>5, <2>1 DEF FreezeHolds, Unlinked
<2>2. CASE z # r
<3>1. Unlinked(z) => <<z, r>> \notin before
    BY <1>1, NeverAfter
<3>2. ASSUME NEW u \in Pair, Unlinked(z) PROVE FreezeOverlap(u, z)'
<4>1. Overlap(r, z)'
    BY <1>1, <2>2, <3>1, <3>2 DEF Overlap, BeforeFits
<4>2. r \in Of({"send"})'
    BY <1>1, <1>4, <1>5 DEF Of, Submitted
<4> QED
    BY <4>1, <4>2 DEF FreezeOverlap
<3> QED
    BY <1>1, <1>4, <2>2, <3>1, <3>2, FreezeKept
<2> QED
    BY <2>1, <2>2
<1> QED
    BY <1>8, <1>9, <1>10, <1>11, <1>12, <1>13 DEF RowsFit

\* Marking the notification read happens in a request that marked the
\* conversation read.
LEMMA NoteMarked ==
    ASSUME IInv, NEW r \in Requests, MarkNote(r)
    PROVE  IInv'
<1> USE MessageTypes DEF IInv
<1>1. /\ pc[r] = "markNote" /\ notes' = MarkRead({seen[r]}) /\ End(r, "ok")
      /\ UNCHANGED <<setting, assigned, clock, at, messages, state, mute>>
    BY DEF MarkNote, At
<1>2. /\ OthersKept(r) /\ OrderKept(r) /\ StageFits(r)' /\ pc'[r] = "done" /\ outcome'[r] = "ok"
      /\ req' = req /\ req[r] # Nobody /\ bell' = bell /\ before' = before
    BY <1>1, Ends
<1>3. req[r].do = "read" /\ whom[r] = User(r)
    BY <1>1, <1>2 DEF StageFits, ReadStages
<1>4. ASSUME NEW n \in NoteId
      PROVE  /\ notes'[n] \in Note \cup {Nobody}
             /\ notes'[n] # Nobody => notes[n] # Nobody
             /\ Unread(n)' => Unread(n)
             /\ Unread(n) => Unread(n)' \/ n = seen[r]
<2>1. CASE n = seen[r] /\ notes[n] # Nobody
<3>1. notes'[n] = [notes[n] EXCEPT !.read = TRUE]
    BY <1>1, <2>1 DEF MarkRead
<3>2. notes[n] \in Note
    BY <2>1
<3>3. notes'[n] \in Note
    BY <3>1, <3>2, Zenon DEF Note
<3>4. notes'[n].read = TRUE
    BY <3>1, <3>2 DEF Note
<3> QED
    BY <2>1, <3>3, <3>4 DEF Unread
<2>2. CASE ~(n = seen[r] /\ notes[n] # Nobody)
<3>1. notes'[n] = notes[n]
    BY <1>1, <2>2 DEF MarkRead
<3> QED
    BY <3>1 DEF Unread
<2> QED
    BY <2>1, <2>2
<1>5. notes' \in [NoteId -> Note \cup {Nobody}]
<2>1. notes' = [n \in NoteId |-> notes'[n]]
    BY <1>1 DEF MarkRead
<2> QED
    BY <1>4, <2>1
<1>6. Shape'
<2>1. \A v \in Users : state'[v] # Nobody => state'[v].read <= clock
    BY <1>1 DEF TypeOK, Shape
<2>2. state' \in [Users -> StateRow \cup {Nobody}] /\ mute' \in [Users -> MuteRow \cup {Nobody}]
    BY <1>1
<2>3. TypeOK'
    BY <1>1, <1>2, <1>5, <2>1, <2>2, Ends, TypesKept
<2> QED
    BY <1>1, <1>2, <2>3, ShapeKept
<1>7. NotesFit'
    BY <1>2, <1>4, NotesKept
<1>8. AnnounceFits'
<2>1. Announces(r)'
    BY <1>2, <1>3 DEF Announces
<2>2. ASSUME NEW n \in NoteId, Unread(n) PROVE Unread(n)' \/ User(r) = n.user
    BY <1>1, <1>3, <1>4, <2>2, Constants DEF StageFits, Unread
<2>3. r \in Of({"read"})
    BY <1>2, <1>3 DEF Of, Submitted
<2> QED
    BY <1>1, <1>2, <2>1, <2>2, <2>3, AnnounceKept DEF Muted
<1>9. RowsFit'
<2>1. FreezeHolds(r)' /\ (Marked(r)' => Marked(r)) /\ (Showing(r)' => Showing(r)) /\ Stopped(r)'
    BY <1>1, <1>2, <1>3 DEF FreezeHolds, Unlinked, Marked, Showing, Stopped
<2> QED
    BY <1>1, <1>2, <2>1, RowsKept
<1> QED
    BY <1>6, <1>7, <1>8, <1>9

\* The conversation is muted only by a request to mute it.
LEMMA MuteWritten ==
    ASSUME IInv, NEW r \in Requests, WriteMute(r), ~(seen[r] = Nobody /\ mute[User(r)] # Nobody)
    PROVE  IInv'
<1> USE MessageTypes DEF IInv
<1>1. /\ pc[r] = "writeMute" /\ End(r, "ok")
      /\ mute' = [mute EXCEPT ![User(r)] = [muted |-> req[r].do = "mute"]]
      /\ UNCHANGED <<setting, assigned, clock, at, messages, state, notes>>
    BY DEF WriteMute, At
<1>2. /\ OthersKept(r) /\ OrderKept(r) /\ StageFits(r)' /\ pc'[r] = "done" /\ outcome'[r] = "ok"
      /\ req' = req /\ req[r] # Nobody /\ bell' = bell /\ before' = before
    BY <1>1, Ends
<1>3. req[r].do \in {"mute", "unmute"}
    BY <1>1 DEF StageFits, MuteStages
<1>4. User(r) \in Users
    BY <1>2, Constants DEF User
<1>5. PICK row : row = [muted |-> req[r].do = "mute"]
    OBVIOUS
<1>6. row \in MuteRow /\ row # Nobody /\ (row.muted => req[r].do = "mute")
<2>1. row \in MuteRow /\ (row.muted => req[r].do = "mute")
    BY <1>5, Zenon DEF MuteRow
<2> QED
    BY <2>1, Constants
<1>7. mute' \in [Users -> MuteRow \cup {Nobody}]
      /\ \A u \in Users : mute'[u] = IF u = User(r) THEN row ELSE mute[u]
    BY <1>1, <1>4, <1>5, <1>6
<1>8. Shape'
<2>1. \A v \in Users : state'[v] # Nobody => state'[v].read <= clock
    BY <1>1 DEF TypeOK, Shape
<2>2. state' \in [Users -> StateRow \cup {Nobody}] /\ notes' \in [NoteId -> Note \cup {Nobody}]
    BY <1>1
<2>3. TypeOK'
    BY <1>1, <1>2, <1>7, <2>1, <2>2, Ends, TypesKept
<2> QED
    BY <1>1, <1>2, <2>3, ShapeKept
<1>9. NotesFit'
    BY <1>1, <1>2, NotesKept DEF Unread
<1>10. AnnounceFits'
<2>1. Announces(r)'
    BY <1>2, <1>3 DEF Announces
<2>2. ASSUME NEW u \in Users, Muted(u)', ~Muted(u) PROVE MutedOnce(u)'
<3>1. u = User(r) /\ row.muted
    BY <1>7, <2>2 DEF Muted
<3> QED
    BY <1>2, <1>6, <3>1 DEF MutedOnce, Of, Submitted, User
<2> QED
    BY <1>1, <1>2, <2>1, <2>2, AnnounceKept DEF Unread
<1>11. RowsFit'
<2>1. FreezeHolds(r)' /\ (Marked(r)' => Marked(r)) /\ (Showing(r)' => Showing(r)) /\ Stopped(r)'
    BY <1>1, <1>2, <1>3 DEF FreezeHolds, Unlinked, Marked, Showing, Stopped
<2> QED
    BY <1>1, <1>2, <2>1, RowsKept
<1> QED
    BY <1>8, <1>9, <1>10, <1>11

\* Where each kind of request begins.
LEMMA FirstStages ==
    /\ FirstStage("send") = "writable" /\ FirstStage("read") = "load" /\ FirstStage("hide") = "load"
    /\ FirstStage("open") = "allowed" /\ FirstStage("reassign") = "unlink"
    /\ FirstStage("mute") = "loadMute" /\ FirstStage("unmute") = "loadMute"
    BY Zenon DEF FirstStage

\* A request comes after those that are done, and holds nothing yet.
LEMMA Comes ==
    ASSUME IInv, NEW r \in Requests, Submit(r)
    PROVE  IInv'
<1> USE MessageTypes DEF IInv
<1>1. PICK q \in Request :
        /\ Offered(q)
        /\ req' = [req EXCEPT ![r] = q]
        /\ Goto(r, FirstStage(q.do))
        /\ whom' = [whom EXCEPT ![r] = q.user]
    BY DEF Submit
<1>2. /\ pc[r] = "idle" /\ req[r] = Nobody /\ outcome[r] = "none"
      /\ before' = before \cup {<<p, r>> : p \in {p \in Requests : At(p, "done")}}
      /\ UNCHANGED <<setting, assigned, clock, at, messages, state, mute, notes>>
      /\ UNCHANGED <<seen, dirty, mine, left, outcome, bell>>
    BY DEF Submit, At, tables, StageFits
<1>3. q.do \in {"send", "read", "hide", "open", "mute", "unmute", "reassign"} /\ q.user \in Users
      /\ q # Nobody
    BY Constants, MessagesAssumption
<1>4. /\ pc'[r] = FirstStage(q.do) /\ req'[r] = q /\ whom'[r] = q.user
      /\ req' \in [Requests -> Request \cup {Nobody}] /\ whom' \in [Requests -> Users \cup {Nobody}]
    BY <1>1, <1>3 DEF Goto
<1>5. /\ pc'[r] \in {"writable", "load", "allowed", "unlink", "loadMute"}
      /\ pc'[r] = "writable" => q.do = "send"
      /\ pc'[r] = "load" => q.do \in {"read", "hide"}
      /\ pc'[r] = "allowed" => q.do = "open"
      /\ pc'[r] = "unlink" => q.do = "reassign"
      /\ pc'[r] = "loadMute" => q.do \in {"mute", "unmute"}
    BY <1>3, <1>4, FirstStages
<1>6. pc' \in [Requests -> Stages]
<2>1. pc'[r] \in Stages
    BY <1>5 DEF Stages, SendStages, SaveStages, ReadStages, MuteStages
<2> QED
    BY <1>1, <2>1 DEF Goto
<1>7. OthersKept(r)
    BY <1>1, <1>2 DEF Goto, OthersKept
<1>8. OrderKept(r)
<2>1. \A x \in before' : x \in before \/ \E p \in Requests : x = <<p, r>> /\ pc[p] = "done"
    BY <1>2 DEF At
<2> QED
    BY <1>2, <1>5, <2>1 DEF OrderKept
<1>9. TypeOK'
<2>1. setting' \in Settings /\ assigned' \in BOOLEAN
    BY <1>2, Zenon
<2>2. \A p \in Requests : pc'[p] # "idle" => req'[p] # Nobody
    BY <1>3, <1>4, <1>7 DEF OthersKept, StageFits
<2>3. before' \subseteq Requests \X Requests
    BY <1>2
<2> QED
    BY <1>2, <1>4, <1>6, <2>1, <2>2, <2>3 DEF TypeOK, Shape, Maybe
<1>10. StageFits(r)'
<2>1. q.do = "reassign" => private /\ q.user = Client
    BY <1>1 DEF Offered
<2>2. User(r)' = q.user /\ private' = private
    BY <1>2, <1>4 DEF User, private
<2> QED
    BY <1>2, <1>3, <1>4, <1>5, <2>1, <2>2
       DEF StageFits, SendStages, SaveStages, ReadStages, MuteStages, SaveKinds
<1>11. /\ ~Marked(r)' /\ ~Showing(r)' /\ ~Unlinked(r)' /\ Stopped(r)' /\ \A u : ~Passed(r, u)'
<2>1. outcome'[r] = "none"
    BY <1>2
<2>2. Stopped(r)'
    BY <1>4, <1>5, <1>3, FirstStages DEF Stopped
<2> QED
    BY <1>4, <1>5, <2>1, <2>2 DEF Marked, Showing, Unlinked, Passed
<1> QED
    BY <1>2, <1>5, <1>7, <1>8, <1>9, <1>10, <1>11, Quiet

\* One reassignment at most finds the link and cuts it.
LEMMA UnlinkedNow ==
    ASSUME IInv, NEW r \in Requests, Unlink(r), assigned
    PROVE  IInv'
<1> USE MessageTypes DEF IInv
<1>1. /\ pc[r] = "unlink" /\ Goto(r, "load") /\ ~assigned'
      /\ assigned' \in BOOLEAN
      /\ UNCHANGED <<setting, clock, at, messages, state, mute, notes>>
      /\ UNCHANGED <<req, seen, dirty, mine, whom, left, outcome, before, bell>>
    BY DEF Unlink, GoOn, At, locals, history
<1>2. /\ OthersKept(r) /\ OrderKept(r) /\ pc' \in [Requests -> Stages] /\ pc'[r] = "load"
      /\ outcome[r] = "none" /\ req[r] # Nobody
<2>1. "load" \in Stages \ {"idle", "done"}
    BY DEF Stages, SaveStages
<2>2. /\ UNCHANGED <<req, history, setting>> /\ pc[r] \notin {"idle", "done"}
      /\ \A q \in Requests \ {r} :
            /\ seen'[q] = seen[q] /\ dirty'[q] = dirty[q] /\ mine'[q] = mine[q]
            /\ whom'[q] = whom[q] /\ left'[q] = left[q]
    BY <1>1 DEF history
<2> QED
    BY <1>1, <2>1, <2>2, GoesOn
<1>3. req[r].do = "reassign" /\ whom[r] = Client /\ private
    BY <1>1, <1>2 DEF StageFits
<1>4. Shape'
<2>1. \A q \in Requests : pc'[q] # "idle" => req'[q] # Nobody
    BY <1>1, <1>2 DEF OthersKept, StageFits
<2>2. TypeOK'
    BY <1>1, <1>2, <2>1 DEF TypeOK, Shape, Maybe
<2>3. StageFits(r)'
    BY <1>1, <1>2, <1>3, Constants
       DEF StageFits, SendStages, SaveStages, ReadStages, MuteStages, SaveKinds, private
<2> QED
    BY <1>1, <1>2, <2>2, <2>3, ShapeKept
<1>5. NotesFit'
    BY <1>1, <1>2, NotesKept DEF Unread
<1>6. AnnounceFits'
<2>1. Announces(r)'
    BY <1>1, <1>2, <1>3 DEF Announces
<2> QED
    BY <1>1, <1>2, <2>1, AnnounceKept DEF Muted, Unread
<1>7. RowsFit'
<2>1. FreezeHolds(r)'
<3>1. \A p : <<r, p>> \notin before'
    BY <1>1 DEF BeforeFits
<3>2. Client \in Pair
    BY MessagesAssumption
<3> QED
    BY <1>1, <1>2, <1>3, <3>1, <3>2 DEF FreezeHolds, HasHidden
<2>2. \A z \in Requests : ~Unlinked(z)
<3>1. assigned = TRUE
    BY Zenon
<3> QED
    BY <3>1 DEF RowsFit, FreezeHolds
<2>3. ~Marked(r)' /\ ~Showing(r)'
    BY <1>1, <1>2, <1>3 DEF Marked, Showing
<2> QED
    BY <1>1, <1>2, <2>1, <2>2, <2>3, RowsKept
<1> QED
    BY <1>4, <1>5, <1>6, <1>7

\* What a request of the member's row has in memory after its SELECT, or of the entity it
\* makes of it, is as good as the row and what it had before.
LEMMA Remembers ==
    ASSUME IInv, NEW r \in Requests, pc[r] \in {"load", "select"}, pc'[r] \in {"select", "write"},
           OthersKept(r), OrderKept(r), pc' \in [Requests -> Stages],
           UNCHANGED <<setting, assigned, clock, at, messages, state, mute, notes>>,
           UNCHANGED <<req, whom, left, outcome, before, bell>>,
           seen' \in [Requests -> StateRow \cup MuteRow \cup NoteId \cup {Nobody}],
           dirty' \in [Requests -> SUBSET (Columns \cup {"insert"})],
           mine' \in [Requests -> StateRow \cup {Nobody}],
           StageFits(r)',
           \A s \in Requests :
                RowCovers(whom[r], at[s]) /\ MemoryCovers(r, at[s]) => MemoryCovers(r, at[s])',
           \A s \in Requests : RowShows(whom[r], s) /\ MemoryShows(r, s) => MemoryShows(r, s)',
           req[r].do \in {"read", "hide"} /\ RowHides(whom[r]) /\ MemoryHides(r) => MemoryHides(r)',
           pc'[r] = "write" /\ req[r].do = "read" =>
                /\ mine'[r].read = clock
                /\ dirty'[r] \cap {"insert", "read"} = {} =>
                        state[whom[r]] # Nobody /\ state[whom[r]].read = clock,
           pc'[r] = "write" /\ req[r].do = "reassign" =>
                /\ mine'[r].hidden # Nobody
                /\ dirty'[r] \cap {"insert", "hidden"} = {} => RowHides(whom[r])
    PROVE  IInv'
<1> USE MessageTypes DEF IInv
<1>1. /\ req[r].do \in SaveKinds /\ req[r] # Nobody /\ outcome[r] = "none" /\ whom[r] \in Users
      /\ req[r].do # "reassign" => whom[r] = User(r)
    BY DEF StageFits, SaveStages
<1>2. Shape'
<2>1. \A v \in Users : state'[v] # Nobody => state'[v].read <= clock
    BY DEF TypeOK, Shape
<2>2. /\ state' \in [Users -> StateRow \cup {Nobody}] /\ mute' \in [Users -> MuteRow \cup {Nobody}]
      /\ notes' \in [NoteId -> Note \cup {Nobody}]
      /\ whom' \in [Requests -> Users \cup {Nobody}] /\ left' \in [Requests -> SUBSET Users]
      /\ outcome' \in [Requests -> {"none", "ok", "error", "refused"}]
    OBVIOUS
<2>3. TypeOK'
    BY <1>1, <2>1, <2>2, TypesKept
<2> QED
    BY <2>3, ShapeKept
<1>3. NotesFit'
    BY NotesKept DEF Unread
<1>4. AnnounceFits'
<2>1. Announces(r)'
    BY <1>1 DEF Announces, SaveKinds
<2> QED
    BY <2>1, AnnounceKept DEF Muted, Unread
<1>5. \A p : <<r, p>> \notin before'
    BY DEF BeforeFits
<1>6. ASSUME NEW q \in Requests, NEW s \in Requests PROVE ReadHolds(q, s)'
<2>1. at[s] \in Nat /\ at[s] <= clock
    OBVIOUS
<2>2. CASE q = r
<3>1. SUFFICES ASSUME req[r].do = "read", pc'[r] = "write"
      PROVE  /\ mine'[r].read >= at[s]
             /\ dirty'[r] \cap {"insert", "read"} = {} => RowCovers(User(r), at[s])'
    BY <1>1, <2>2 DEF ReadHolds, Marked, User, RowCovers
<3>2. mine'[r].read >= at[s]
    BY <2>1, <3>1
<3>3. dirty'[r] \cap {"insert", "read"} = {} => RowCovers(User(r), at[s])'
    BY <1>1, <2>1, <3>1 DEF RowCovers, User
<3> QED
    BY <3>2, <3>3
<2>3. CASE q # r
<3>1. User(q)' = User(q) /\ at'[s] = at[s] /\ (RowCovers(User(q), at[s])' <=> RowCovers(User(q), at[s]))
    BY DEF User, RowCovers
<3>2. ASSUME <<q, r>> \in before', whom'[r] = User(q), RowCovers(User(q), at[s]),
             <<q, r>> \in before /\ whom[r] = User(q) => MemoryCovers(r, at[s])
      PROVE  MemoryCovers(r, at[s])'
    BY <3>2
<3> QED
    BY <2>3, <3>1, <3>2, ReadKept
<2> QED
    BY <2>2, <2>3
<1>7. ASSUME NEW s \in Requests, NEW u \in Users PROVE ShowHolds(s, u)'
<2>1. CASE s = r
    BY <1>1, <2>1 DEF ShowHolds, Showing, SaveKinds
<2>2. CASE s # r
<3>1. RowShows(u, s)' <=> RowShows(u, s)
    BY DEF RowShows
<3>2. ASSUME <<s, r>> \in before', whom'[r] = u, RowShows(u, s),
             <<s, r>> \in before /\ whom[r] = u => MemoryShows(r, s)
      PROVE  MemoryShows(r, s)'
    BY <3>2
<3> QED
    BY <2>2, <3>1, <3>2, ShowKept
<2> QED
    BY <2>1, <2>2
<1>8. ASSUME NEW z \in Requests PROVE FreezeHolds(z)'
<2>1. CASE z = r
<3>1. SUFFICES ASSUME Unlinked(r)' PROVE FreezeHolds(r)'
    BY <2>1 DEF FreezeHolds
<3>2. Unlinked(r) /\ req[r].do = "reassign" /\ pc'[r] # "done"
    BY <1>1, <3>1 DEF Unlinked
<3>3. /\ ~assigned' /\ whom'[r] \in Pair
      /\ \A u \in Pair : HasHidden(r, u) => FreezeOverlap(u, r) \/ RowHides(u)
    BY <1>1, <3>2 DEF RowsFit, FreezeHolds
<3>4. pc'[r] = "write" =>
            /\ mine'[r].hidden # Nobody
            /\ dirty'[r] \cap {"insert", "hidden"} = {} => RowHides(whom[r])'
    BY <3>2 DEF RowHides
<3>5. ASSUME NEW u \in Pair, HasHidden(r, u)' PROVE FreezeOverlap(u, r)' \/ RowHides(u)'
<4>1. HasHidden(r, u) /\ r \in Submitted
    BY <1>1, <3>2, <3>5 DEF HasHidden, Submitted
<4> QED
    BY <3>3, <4>1, OverlapStays DEF RowHides
<3> QED
    BY <1>5, <3>3, <3>4, <3>5 DEF FreezeHolds, RowHides
<2>2. CASE z # r
<3>1. \A u : RowHides(u)' <=> RowHides(u)
    BY DEF RowHides
<3>2. Unlinked(z) /\ <<z, r>> \in before' => req[r].do \in {"read", "hide"}
    BY NeverAfter
<3>3. Unlinked(z) /\ <<z, r>> \in before' => Stopped(r)'
    BY <3>2 DEF Stopped
<3> QED
    BY <2>2, <3>1, <3>2, <3>3, FreezeKept
<2> QED
    BY <2>1, <2>2
<1> QED
    BY <1>2, <1>3, <1>4, <1>6, <1>7, <1>8 DEF RowsFit

\* Load: what the request has in memory is the row.
LEMMA Loaded ==
    ASSUME IInv, NEW r \in Requests, Load(r)
    PROVE  IInv'
<1> USE MessageTypes DEF IInv
<1>1. /\ pc[r] = "load" /\ Goto(r, "select") /\ seen' = [seen EXCEPT ![r] = state[whom[r]]]
      /\ UNCHANGED <<setting, assigned, clock, at, messages, state, mute, notes>>
      /\ UNCHANGED <<req, dirty, mine, whom, left, outcome, before, bell>>
    BY DEF Load, At, tables, history
<1>2. /\ req[r].do \in SaveKinds /\ req[r] # Nobody /\ outcome[r] = "none" /\ whom[r] \in Users
      /\ req[r].do # "reassign" => whom[r] = User(r)
    BY <1>1 DEF StageFits, SaveStages
<1>3. /\ OthersKept(r) /\ OrderKept(r) /\ pc' \in [Requests -> Stages] /\ pc'[r] = "select"
<2>1. "select" \in Stages \ {"idle", "done"}
    BY DEF Stages, SaveStages
<2>2. /\ UNCHANGED <<req, history, setting>> /\ pc[r] \notin {"idle", "done"}
      /\ \A q \in Requests \ {r} :
            /\ seen'[q] = seen[q] /\ dirty'[q] = dirty[q] /\ mine'[q] = mine[q]
            /\ whom'[q] = whom[q] /\ left'[q] = left[q]
    BY <1>1 DEF history
<2> QED
    BY <1>1, <2>1, <2>2, GoesOn
<1>4. /\ seen' \in [Requests -> StateRow \cup MuteRow \cup NoteId \cup {Nobody}]
      /\ seen'[r] = state[whom[r]] /\ seen'[r] \in StateRow \cup {Nobody}
    BY <1>1, <1>2
<1>5. StageFits(r)'
<2>1. seen'[r] # Nobody => seen'[r].read <= clock' /\ state'[whom'[r]] # Nobody
    BY <1>1, <1>2, <1>4 DEF TypeOK, Shape
<2> QED
    BY <1>1, <1>2, <1>3, <1>4, <2>1
       DEF StageFits, SendStages, SaveStages, ReadStages, MuteStages, SaveKinds, private, User, Maybe
<1>6. /\ \A s \in Requests : RowCovers(whom[r], at[s]) => MemoryCovers(r, at[s])'
      /\ \A s \in Requests : RowShows(whom[r], s) => MemoryShows(r, s)'
      /\ RowHides(whom[r]) => MemoryHides(r)'
    BY <1>1, <1>3, <1>4
       DEF RowCovers, RowShows, RowHides, MemoryCovers, MemoryShows, MemoryHides
<1> QED
    BY <1>1, <1>2, <1>3, <1>4, <1>5, <1>6, Remembers

\* The entity a request saves.
LEMMA EntityOf ==
    ASSUME IInv, NEW r \in Requests, pc[r] = "select"
    PROVE  /\ Entity(r) \in StateRow /\ Entity(r).read <= clock
           /\ req[r].do = "read" => Entity(r).read = clock
           /\ seen[r] # Nobody => Entity(r).read >= seen[r].read
           /\ req[r].do = "reassign" => Entity(r).hidden = r
           /\ Entity(r).hidden \in {r, Nobody}
                \/ (seen[r] # Nobody /\ Entity(r).hidden = seen[r].hidden)
           /\ req[r].do \in {"read", "hide"} /\ seen[r] # Nobody /\ seen[r].hidden # Nobody =>
                Entity(r).hidden # Nobody
<1> USE MessageTypes, Constants DEF IInv
<1>1. PICK row : row = IF seen[r] = Nobody THEN [read |-> 0, hidden |-> Nobody] ELSE seen[r]
    OBVIOUS
<1>2. /\ row \in StateRow /\ row.read \in Nat /\ row.read <= clock
      /\ seen[r] # Nobody => row = seen[r]
      /\ seen[r] = Nobody => row.hidden = Nobody
<2>1. seen[r] # Nobody => seen[r] \in StateRow /\ seen[r].read <= clock
    BY DEF StageFits, Maybe
<2>2. CASE seen[r] = Nobody
<3>1. row = [read |-> 0, hidden |-> Nobody]
    BY <1>1, <2>2
<3> QED
    BY <2>2, <3>1 DEF StateRow
<2>3. CASE seen[r] # Nobody
    BY <1>1, <2>1, <2>3 DEF StateRow
<2> QED
    BY <2>2, <2>3
<1>3. req[r].do \in {"read", "hide", "open", "reassign"}
    BY DEF StageFits, SaveKinds
<1>4. CASE req[r].do = "read"
<2>1. Entity(r) = [row EXCEPT !.read = clock]
    BY <1>1, <1>4, Zenon DEF Entity
<2>2. Entity(r) \in StateRow /\ Entity(r).read = clock /\ Entity(r).hidden = row.hidden
    BY <1>2, <2>1 DEF StateRow
<2> QED
    BY <1>2, <1>4, <2>2
<1>5. CASE req[r].do \in {"hide", "reassign"}
<2>1. Entity(r) = [row EXCEPT !.hidden = r]
    BY <1>1, <1>5, Zenon DEF Entity
<2>2. Entity(r) \in StateRow /\ Entity(r).read = row.read /\ Entity(r).hidden = r
    BY <1>2, <2>1 DEF StateRow
<2> QED
    BY <1>2, <1>5, <2>2
<1>6. CASE req[r].do = "open"
<2>1. Entity(r) = [row EXCEPT !.hidden = Nobody]
    BY <1>1, <1>6, Zenon DEF Entity
<2>2. Entity(r) \in StateRow /\ Entity(r).read = row.read /\ Entity(r).hidden = Nobody
    BY <1>2, <2>1 DEF StateRow
<2> QED
    BY <1>2, <1>6, <2>2
<1> QED
    BY <1>3, <1>4, <1>5, <1>6

\* Select: the entity, and the columns in which it differs from the row.
LEMMA Selected ==
    ASSUME IInv, NEW r \in Requests, Select(r)
    PROVE  IInv'
<1> USE MessageTypes DEF IInv
<1>1. /\ pc[r] = "select" /\ Goto(r, "write") /\ mine' = [mine EXCEPT ![r] = Entity(r)]
      /\ dirty' = [dirty EXCEPT ![r] = IF seen[r] = Nobody THEN {"insert"}
                                       ELSE {c \in Columns : mine'[r][c] # state[whom[r]][c]}]
      /\ UNCHANGED <<setting, assigned, clock, at, messages, state, mute, notes>>
      /\ UNCHANGED <<req, seen, whom, left, outcome, before, bell>>
    BY DEF Select, At, tables, history
<1>2. /\ req[r].do \in SaveKinds /\ req[r] # Nobody /\ outcome[r] = "none" /\ whom[r] \in Users
      /\ req[r].do # "reassign" => whom[r] = User(r)
    BY <1>1 DEF StageFits, SaveStages
<1>3. /\ OthersKept(r) /\ OrderKept(r) /\ pc' \in [Requests -> Stages] /\ pc'[r] = "write"
<2>1. "write" \in Stages \ {"idle", "done"}
    BY DEF Stages, SaveStages
<2>2. /\ UNCHANGED <<req, history, setting>> /\ pc[r] \notin {"idle", "done"}
      /\ \A q \in Requests \ {r} :
            /\ seen'[q] = seen[q] /\ dirty'[q] = dirty[q] /\ mine'[q] = mine[q]
            /\ whom'[q] = whom[q] /\ left'[q] = left[q]
    BY <1>1 DEF history
<2> QED
    BY <1>1, <2>1, <2>2, GoesOn
<1>4. /\ Entity(r) \in StateRow /\ Entity(r).read <= clock
      /\ req[r].do = "read" => Entity(r).read = clock
      /\ seen[r] # Nobody => Entity(r).read >= seen[r].read
      /\ req[r].do = "reassign" => Entity(r).hidden = r
      /\ Entity(r).hidden \in {r, Nobody}
            \/ (seen[r] # Nobody /\ Entity(r).hidden = seen[r].hidden)
      /\ req[r].do \in {"read", "hide"} /\ seen[r] # Nobody /\ seen[r].hidden # Nobody =>
            Entity(r).hidden # Nobody
    BY <1>1, EntityOf
<1>5. mine' \in [Requests -> StateRow \cup {Nobody}] /\ mine'[r] = Entity(r)
    BY <1>1, <1>4
<1>6. /\ dirty' \in [Requests -> SUBSET (Columns \cup {"insert"})]
      /\ "insert" \in dirty'[r] \/ state[whom[r]] # Nobody
      /\ "insert" \notin dirty'[r] /\ "read" \notin dirty'[r] => Entity(r).read = state[whom[r]].read
      /\ "insert" \notin dirty'[r] /\ "hidden" \notin dirty'[r] =>
            Entity(r).hidden = state[whom[r]].hidden
<2>1. CASE seen[r] = Nobody
<3>1. dirty' = [dirty EXCEPT ![r] = {"insert"}]
    BY <1>1, <2>1
<3> QED
    BY <3>1
<2>2. CASE seen[r] # Nobody
<3>1. PICK D : D = {c \in Columns : Entity(r)[c] # state[whom[r]][c]}
    OBVIOUS
<3>2. dirty' = [dirty EXCEPT ![r] = D] /\ D \subseteq Columns
    BY <1>1, <1>5, <2>2, <3>1
<3>3. state[whom[r]] # Nobody /\ dirty'[r] = D /\ dirty' \in [Requests -> SUBSET (Columns \cup {"insert"})]
    BY <1>1, <2>2, <3>2 DEF StageFits
<3>4. "read" \in Columns /\ "hidden" \in Columns
    BY DEF Columns
<3>5. "read" \notin D => Entity(r)["read"] = state[whom[r]]["read"]
    BY <3>1, <3>4
<3>6. "hidden" \notin D => Entity(r)["hidden"] = state[whom[r]]["hidden"]
    BY <3>1, <3>4
<3> QED
    BY <3>3, <3>5, <3>6
<2> QED
    BY <2>1, <2>2
<1>7. StageFits(r)'
    BY <1>1, <1>2, <1>3, <1>4, <1>5, <1>6
       DEF StageFits, SendStages, SaveStages, ReadStages, MuteStages, SaveKinds, private, User
<1>8. ASSUME NEW s \in Requests, MemoryCovers(r, at[s]) PROVE MemoryCovers(r, at[s])'
<2>1. seen[r] # Nobody /\ seen[r].read >= at[s] /\ seen[r].read \in Nat /\ at[s] \in Nat
    BY <1>1, <1>8 DEF MemoryCovers, StageFits, Maybe, StateRow
<2>2. Entity(r).read \in Nat
    BY <1>4 DEF StateRow
<2> QED
    BY <1>1, <1>3, <1>4, <1>5, <2>1, <2>2 DEF MemoryCovers
<1>9. ASSUME NEW s \in Requests, MemoryShows(r, s) PROVE MemoryShows(r, s)'
<2>1. <<Entity(r).hidden, s>> \notin before
    BY <1>1, <1>4, <1>9, Constants DEF MemoryShows, BeforeFits
<2> QED
    BY <1>1, <1>3, <1>5, <2>1 DEF MemoryShows
<1>10. req[r].do \in {"read", "hide"} /\ MemoryHides(r) => MemoryHides(r)'
    BY <1>1, <1>3, <1>4, <1>5 DEF MemoryHides
<1>11. req[r].do = "read" =>
            /\ mine'[r].read = clock
            /\ dirty'[r] \cap {"insert", "read"} = {} =>
                    state[whom[r]] # Nobody /\ state[whom[r]].read = clock
    BY <1>4, <1>5, <1>6
<1>12. req[r].do = "reassign" =>
            /\ mine'[r].hidden # Nobody
            /\ dirty'[r] \cap {"insert", "hidden"} = {} => RowHides(whom[r])
    BY <1>4, <1>5, <1>6, Constants DEF RowHides
<1> QED
    BY <1>1, <1>3, <1>5, <1>6, <1>7, <1>8, <1>9, <1>10, <1>11, <1>12, Remembers

\* What the UPDATE or INSERT of a save leaves in the row.
LEMMA SavedRow ==
    ASSUME IInv, NEW r \in Requests, pc[r] = "write", ~Clash(r)
    PROVE  /\ Saved(r) \in StateRow /\ Saved(r) # Nobody /\ Saved(r).read <= clock
           /\ Saved(r).read = mine[r].read
                \/ (state[whom[r]] # Nobody /\ Saved(r).read = state[whom[r]].read
                        /\ dirty[r] \cap {"insert", "read"} = {})
           /\ Saved(r).hidden = mine[r].hidden
                \/ (state[whom[r]] # Nobody /\ Saved(r).hidden = state[whom[r]].hidden
                        /\ dirty[r] \cap {"insert", "hidden"} = {})
<1> USE MessageTypes, Constants DEF IInv
<1>1. mine[r] \in StateRow /\ mine[r].read <= clock
    BY DEF StageFits
<1>2. CASE "insert" \in dirty[r]
<2>1. Saved(r) = mine[r]
    BY <1>2 DEF Saved
<2> QED
    BY <1>1, <2>1
<1>3. CASE "insert" \notin dirty[r]
<2>1. whom[r] \in Users /\ state[whom[r]] \in StateRow /\ state[whom[r]] # Nobody
      /\ state[whom[r]].read <= clock
<3>1. whom[r] \in Users /\ state[whom[r]] # Nobody
    BY <1>3 DEF StageFits, SaveStages
<3>2. state[whom[r]].read <= clock
    BY <3>1 DEF TypeOK, Shape
<3> QED
    BY <3>1, <3>2
<2>2. PICK read, hidden :
        /\ read = IF "read" \in dirty[r] THEN mine[r].read ELSE state[whom[r]].read
        /\ hidden = IF "hidden" \in dirty[r] THEN mine[r].hidden ELSE state[whom[r]].hidden
    OBVIOUS
<2>3. Saved(r) = [c \in Columns |-> IF c \in dirty[r] THEN mine[r][c] ELSE state[whom[r]][c]]
    BY <1>3 DEF Saved
<2>4. Saved(r) = [read |-> read, hidden |-> hidden]
    BY <2>2, <2>3 DEF Columns
<2>5. read \in Nat /\ read <= clock /\ hidden \in Requests \cup {Nobody}
    BY <1>1, <2>1, <2>2 DEF StateRow
<2>6. Saved(r) \in StateRow /\ Saved(r).read = read /\ Saved(r).hidden = hidden
    BY <2>4, <2>5 DEF StateRow
<2> QED
    BY <1>3, <2>1, <2>2, <2>5, <2>6
<1> QED
    BY <1>2, <1>3

\* Where a save goes on.
LEMMA NextStages ==
    ASSUME NEW r \in Requests, req[r].do \in SaveKinds
    PROVE  /\ req[r].do = "read" => NextStage(r) = "findNote"
           /\ req[r].do \in {"hide", "open"} => NextStage(r) = "done"
           /\ req[r].do = "reassign" => NextStage(r) = IF whom[r] = Client THEN "load" ELSE "done"
<1>1. req[r].do = "read" => NextStage(r) = "findNote"
    BY Zenon DEF NextStage
<1>2. req[r].do = "reassign" /\ whom[r] = Client => NextStage(r) = "load"
    BY Zenon DEF NextStage
<1>3. req[r].do = "reassign" /\ whom[r] # Client => NextStage(r) = "done"
    BY Zenon DEF NextStage
<1>4. req[r].do = "hide" => NextStage(r) = "done"
    BY Zenon DEF NextStage
<1>5. req[r].do = "open" => NextStage(r) = "done"
    BY Zenon DEF NextStage
<1> QED
    BY <1>1, <1>2, <1>3, <1>4, <1>5

\* What a write changes in memory: it ends, or goes on with the notification or with the
\* other member of the conversation.
LEMMA WriteGoes ==
    ASSUME IInv, NEW r \in Requests, Write(r), ~Clash(r)
    PROVE  /\ OthersKept(r) /\ OrderKept(r) /\ pc' \in [Requests -> Stages]
           /\ seen' \in [Requests -> StateRow \cup MuteRow \cup NoteId \cup {Nobody}]
           /\ dirty' \in [Requests -> SUBSET (Columns \cup {"insert"})]
           /\ mine' \in [Requests -> StateRow \cup {Nobody}]
           /\ whom' \in [Requests -> Users \cup {Nobody}] /\ left' \in [Requests -> SUBSET Users]
           /\ outcome' \in [Requests -> {"none", "ok", "error", "refused"}]
           /\ req' = req /\ before' = before /\ bell' = bell
           /\ req[r].do = "read" =>
                pc'[r] = "findNote" /\ outcome'[r] = "none" /\ whom'[r] = User(r)
           /\ req[r].do = "reassign" /\ whom[r] = Client =>
                pc'[r] = "load" /\ outcome'[r] = "none" /\ whom'[r] \in Pair \ {Client}
           /\ req[r].do \in {"hide", "open"} \/ (req[r].do = "reassign" /\ whom[r] # Client) =>
                pc'[r] = "done" /\ outcome'[r] = "ok"
<1> USE MessageTypes DEF IInv
<1>1. /\ pc[r] = "write" /\ req[r] # Nobody /\ outcome[r] = "none" /\ req[r].do \in SaveKinds
      /\ setting' = setting
    BY DEF Write, At, StageFits
<1>2. CASE NextStage(r) = "done"
<2>1. End(r, "ok")
    BY <1>2 DEF Write
<2>2. ~(req[r].do = "read") /\ ~(req[r].do = "reassign" /\ whom[r] = Client)
    BY <1>1, <1>2, NextStages
<2> QED
    BY <1>1, <2>1, <2>2, Ends
<1>3. CASE NextStage(r) # "done"
<2>1. PICK s, u :
        /\ s = NextStage(r) /\ Goto(r, s)
        /\ u \in IF req[r].do = "reassign" THEN Members \ {Client} ELSE {User(r)}
        /\ whom' = [whom EXCEPT ![r] = u]
        /\ seen' = [seen EXCEPT ![r] = Nobody]
        /\ mine' = [mine EXCEPT ![r] = Nobody]
        /\ dirty' = [dirty EXCEPT ![r] = {}]
        /\ UNCHANGED <<req, left, outcome, before, bell>>
    BY <1>3 DEF Write, history
<2>2. /\ req[r].do = "read" => s = "findNote"
      /\ req[r].do \notin {"hide", "open"}
      /\ req[r].do = "reassign" => s = "load" /\ whom[r] = Client
    BY <1>1, <1>3, <2>1, NextStages
<2>3. s \in Stages \ {"idle", "done"}
    BY <1>1, <2>2 DEF SaveKinds, Stages, SaveStages, ReadStages
<2>4. /\ OthersKept(r) /\ OrderKept(r) /\ pc'[r] = s /\ pc' \in [Requests -> Stages]
    BY <1>1, <2>1, <2>3, GoesOn DEF history
<2>5. u \in Users /\ (req[r].do = "reassign" => u \in Pair \ {Client})
<3>1. req[r].do = "reassign" => private
    BY <1>1 DEF StageFits
<3>2. User(r) \in Users /\ Pair \subseteq Users
    BY <1>1, Constants DEF User
<3> QED
    BY <2>1, <3>1, <3>2 DEF Members
<2>6. /\ seen' \in [Requests -> StateRow \cup MuteRow \cup NoteId \cup {Nobody}]
      /\ dirty' \in [Requests -> SUBSET (Columns \cup {"insert"})]
      /\ mine' \in [Requests -> StateRow \cup {Nobody}]
      /\ whom' \in [Requests -> Users \cup {Nobody}] /\ whom'[r] = u
    BY <2>1, <2>5
<2> QED
    BY <1>1, <2>1, <2>2, <2>4, <2>5, <2>6
<1> QED
    BY <1>2, <1>3

\* Write: the row is what the request saved or what it was, so that nothing of
\* a request that ended before it came is lost.
LEMMA Written ==
    ASSUME IInv, NEW r \in Requests, Write(r), ~Clash(r)
    PROVE  IInv'
<1> USE MessageTypes DEF IInv
<1>1. PICK w \in Users, row \in StateRow :
        /\ w = whom[r] /\ row = Saved(r) /\ row # Nobody /\ row.read <= clock
        /\ row.read = mine[r].read
             \/ (state[w] # Nobody /\ row.read = state[w].read /\ dirty[r] \cap {"insert", "read"} = {})
        /\ row.hidden = mine[r].hidden
             \/ (state[w] # Nobody /\ row.hidden = state[w].hidden /\ dirty[r] \cap {"insert", "hidden"} = {})
<2>1. pc[r] = "write" /\ whom[r] \in Users
    BY DEF Write, At, StageFits, SaveStages
<2> QED
    BY <2>1, SavedRow
<1>2. /\ pc[r] = "write" /\ state' = [state EXCEPT ![w] = row]
      /\ UNCHANGED <<setting, assigned, clock, at, messages, mute, notes>>
    BY <1>1 DEF Write, At
<1>3. /\ req[r].do \in SaveKinds /\ req[r] # Nobody /\ outcome[r] = "none" /\ r \in Submitted
      /\ req[r].do # "reassign" => w = User(r)
      /\ mine[r] \in StateRow
    BY <1>1, <1>2 DEF StageFits, SaveStages, Submitted
<1>4. /\ OthersKept(r) /\ OrderKept(r) /\ pc' \in [Requests -> Stages]
      /\ req' = req /\ before' = before /\ bell' = bell
      /\ pc'[r] \in {"findNote", "load", "done"}
      /\ req[r].do = "read" =>
            pc'[r] = "findNote" /\ outcome'[r] = "none" /\ whom'[r] = User(r)
      /\ req[r].do = "reassign" /\ w = Client =>
            pc'[r] = "load" /\ outcome'[r] = "none" /\ whom'[r] \in Pair \ {Client}
      /\ req[r].do \in {"hide", "open"} \/ (req[r].do = "reassign" /\ w # Client) =>
            pc'[r] = "done" /\ outcome'[r] = "ok"
    BY <1>1, <1>3, WriteGoes DEF SaveKinds
<1>5. /\ state' \in [Users -> StateRow \cup {Nobody}] /\ state'[w] = row
      /\ \A u \in Users \ {w} : state'[u] = state[u]
      /\ \A u \in Users : state[u] # Nobody => state'[u] # Nobody
    BY <1>1, <1>2
<1>6. Shape'
<2>1. \A v \in Users : state'[v] # Nobody => state'[v].read <= clock
    BY <1>1, <1>5 DEF TypeOK, Shape
<2>2. mute' \in [Users -> MuteRow \cup {Nobody}] /\ notes' \in [NoteId -> Note \cup {Nobody}]
    BY <1>2
<2>3. TypeOK'
    BY <1>2, <1>3, <1>4, <1>5, <2>1, <2>2, WriteGoes, TypesKept
<2>4. StageFits(r)'
    BY <1>2, <1>3, <1>4, Constants
       DEF StageFits, SendStages, SaveStages, ReadStages, MuteStages, SaveKinds, private, User
<2> QED
    BY <1>2, <1>4, <1>5, <2>3, <2>4, ShapeKept
<1>7. NotesFit'
    BY <1>2, <1>4, NotesKept DEF Unread
<1>8. AnnounceFits'
<2>1. Announces(r)'
    BY <1>3, <1>4 DEF Announces, SaveKinds
<2> QED
    BY <1>2, <1>4, <2>1, AnnounceKept DEF Muted, Unread
<1>9. \A p : <<r, p>> \notin before'
    BY <1>2, <1>4 DEF BeforeFits
(* r overlapped whoever did not end before it came. *)
<1>10. ASSUME NEW q \in Submitted \ {r}, <<q, r>> \notin before
       PROVE  RowOverlap(w, q)' /\ FreezeOverlap(w, q)'
<2>1. r \in WritesRow(w)'
    BY <1>3, <1>4 DEF WritesRow, Of, Submitted, SaveKinds, User
<2>2. Overlap(r, q)'
    BY <1>4, <1>9, <1>10 DEF Overlap
<2> QED
    BY <2>1, <2>2 DEF RowOverlap, FreezeOverlap
<1>11. ASSUME NEW q \in Requests, NEW s \in Requests PROVE ReadHolds(q, s)'
<2>1. at'[s] = at[s] /\ at[s] \in Nat /\ User(q)' = User(q)
    BY <1>2, <1>4 DEF User
<2>2. CASE q = r
<3>1. SUFFICES ASSUME <<s, r>> \in before, req[r].do = "read"
      PROVE  RowOverlap(w, r)' \/ RowCovers(w, at[s])'
    BY <1>2, <1>3, <1>4, <1>9, <2>1, <2>2 DEF ReadHolds, RowCovers, RowOverlap, WritesRow, User, Of, Submitted, Overlap
<3>2. /\ mine[r].read >= at[s]
      /\ dirty[r] \cap {"insert", "read"} = {} => RowOverlap(w, r) \/ RowCovers(w, at[s])
    BY <1>2, <1>3, <3>1 DEF RowsFit, ReadHolds
<3>3. row.read >= at[s] \/ RowOverlap(w, r)
    BY <1>1, <3>2 DEF RowCovers
<3> QED
    BY <1>1, <1>2, <1>3, <1>4, <1>5, <3>3, OverlapStays DEF RowCovers
<2>3. CASE q # r
<3>1. ASSUME <<s, q>> \in before, pc[q] = "write" \/ Marked(q), RowCovers(User(q), at[s])
      PROVE  RowOverlap(User(q), q)' \/ RowCovers(User(q), at[s])'

<4>1. /\ q \in Submitted /\ User(q) \in Users
<5>1. req[q] # Nobody
    BY <3>1 DEF Marked, StageFits
<5> QED
    BY <5>1, Constants DEF Submitted, User
<4>2. PICK u \in Users : u = User(q)
    BY <4>1
<4>3. CASE u # w
    BY <1>5, <2>1, <3>1, <4>2, <4>3 DEF RowCovers
<4>4. CASE u = w /\ <<q, r>> \notin before
    BY <1>10, <2>1, <2>3, <4>1, <4>2, <4>4 DEF RowOverlap
<4>5. CASE u = w /\ <<q, r>> \in before
<5>1. Marked(q) /\ req[q].do = "read" /\ req[q] # Nobody
    BY <3>1, <4>5 DEF BeforeFits, Marked
<5>2. RowOverlap(u, q) \/ MemoryCovers(r, at[s])
    BY <1>1, <3>1, <4>2, <4>5, <5>1 DEF RowsFit, ReadHolds
<5>3. CASE RowOverlap(u, q)
<6>1. RowOverlap(u, q)'
    BY <1>4, <4>1, <5>3, OverlapStays
<6> QED
    BY <2>1, <4>2, <6>1 DEF RowOverlap
<5>4. CASE MemoryCovers(r, at[s])
<6>1. mine[r].read >= at[s] /\ state[w].read >= at[s]
    BY <1>2, <3>1, <4>2, <4>5, <5>4 DEF MemoryCovers, RowCovers
<6>2. row.read >= at[s]
    BY <1>1, <6>1
<6> QED
    BY <1>1, <1>5, <2>1, <4>2, <4>5, <6>2 DEF RowCovers
<5> QED
    BY <5>2, <5>3, <5>4
<4> QED
    BY <4>3, <4>4, <4>5
<3>2. MemoryCovers(r, at[s])'
    BY <1>4 DEF MemoryCovers
<3> QED
    BY <1>4, <2>1, <2>3, <3>1, <3>2, ReadKept
<2> QED
    BY <2>2, <2>3
<1>12. ASSUME NEW s \in Requests, NEW u \in Users PROVE ShowHolds(s, u)'
<2>1. CASE s = r
    BY <1>3, <1>4, <2>1 DEF ShowHolds, Showing, SaveKinds
<2>2. CASE s # r
<3>1. ASSUME Showing(s), RowShows(u, s) PROVE RowOverlap(u, s)' \/ RowShows(u, s)'
<4>1. s \in Submitted
    BY <3>1 DEF Showing, Submitted
<4>2. CASE u # w
    BY <1>4, <1>5, <3>1, <4>2 DEF RowShows
<4>3. CASE u = w /\ <<s, r>> \notin before
    BY <1>10, <2>2, <4>1, <4>3
<4>4. CASE u = w /\ <<s, r>> \in before
<5>1. RowOverlap(u, s) \/ <<mine[r].hidden, s>> \notin before
    BY <1>1, <1>2, <3>1, <4>4 DEF RowsFit, ShowHolds, MemoryShows
<5>2. <<mine[r].hidden, s>> \notin before => <<row.hidden, s>> \notin before
    BY <1>1, <3>1, <4>4 DEF RowShows
<5> QED
    BY <1>1, <1>4, <1>5, <4>1, <4>4, <5>1, <5>2, OverlapStays DEF RowShows
<4> QED
    BY <4>2, <4>3, <4>4
<3>2. MemoryShows(r, s)'
    BY <1>4 DEF MemoryShows
<3> QED
    BY <1>4, <2>2, <3>1, <3>2, ShowKept
<2> QED
    BY <2>1, <2>2
<1>13. ASSUME NEW z \in Requests PROVE FreezeHolds(z)'
<2>1. CASE z = r
<3>1. SUFFICES ASSUME Unlinked(r)' PROVE FreezeHolds(r)'
    BY <2>1 DEF FreezeHolds
<3>2. Unlinked(r) /\ req[r].do = "reassign" /\ req'[r] = req[r]
    BY <1>2, <1>3, <1>4, <3>1 DEF Unlinked
<3>3. /\ ~assigned /\ w \in Pair /\ mine[r].hidden # Nobody
      /\ dirty[r] \cap {"insert", "hidden"} = {} => FreezeOverlap(w, r) \/ RowHides(w)
      /\ \A u \in Pair : HasHidden(r, u) => FreezeOverlap(u, r) \/ RowHides(u)
    BY <1>1, <1>2, <1>3, <3>2 DEF RowsFit, FreezeHolds
<3>4. FreezeOverlap(w, r)' \/ RowHides(w)'
<4>1. FreezeOverlap(w, r) => FreezeOverlap(w, r)'
    BY <1>3, <1>4, OverlapStays
<4>2. row.hidden # Nobody \/ FreezeOverlap(w, r)
    BY <1>1, <3>3 DEF RowHides
<4> QED
    BY <1>1, <1>5, <4>1, <4>2 DEF RowHides
<3>5. ASSUME NEW u \in Pair, HasHidden(r, u)', u # w PROVE FreezeOverlap(u, r)' \/ RowHides(u)'
<4>1. PICK advisor \in Users \ {Client} : Pair = {Client, advisor}
    BY MessagesAssumption
<4>2. u = Client /\ w # Client
<5>1. w # Client
    BY <1>3, <1>4, <3>2, <3>5 DEF HasHidden
<5> QED
    BY <3>3, <3>5, <4>1, <5>1
<4>3. HasHidden(r, u)
    BY <1>1, <3>2, <4>2 DEF HasHidden
<4>4. u \in Users \ {w} /\ state'[u] = state[u]
    BY <1>5, <4>2, Constants
<4> QED
    BY <1>3, <1>4, <3>3, <4>3, <4>4, OverlapStays DEF RowHides
<3>6. outcome'[r] # "ok" => whom'[r] \in Pair
    BY <1>3, <1>4, <3>2
<3>7. ~assigned' /\ pc'[r] # "write"
    BY <1>2, <1>4, <3>3
<3> QED
    BY <1>9, <3>4, <3>5, <3>6, <3>7 DEF FreezeHolds
<2>2. CASE z # r
<3>1. ASSUME NEW u \in Pair, Unlinked(z), RowHides(u)
      PROVE  FreezeOverlap(u, z)' \/ RowHides(u)'
<4>1. z \in Submitted /\ u \in Users
    BY <3>1, Constants DEF Unlinked, Submitted
<4>2. CASE u # w
    BY <1>5, <3>1, <4>1, <4>2 DEF RowHides
<4>3. CASE u = w /\ <<z, r>> \notin before
    BY <1>10, <2>2, <4>1, <4>3
<4>4. CASE u = w /\ <<z, r>> \in before
<5>1. outcome[z] = "ok"
    BY <3>1, <4>4, NeverAfter
<5>2. FreezeOverlap(u, z) \/ mine[r].hidden # Nobody
    BY <1>1, <1>2, <3>1, <4>4, <5>1 DEF RowsFit, FreezeHolds, HasHidden, MemoryHides
<5>3. mine[r].hidden # Nobody => row.hidden # Nobody
    BY <1>1, <3>1, <4>4 DEF RowHides
<5> QED
    BY <1>1, <1>4, <1>5, <4>1, <4>4, <5>2, <5>3, OverlapStays DEF RowHides
<4> QED
    BY <4>2, <4>3, <4>4
<3>2. Unlinked(z) /\ <<z, r>> \in before' => Stopped(r)'
    BY <1>2, <1>4, NeverAfter DEF Stopped
<3>3. MemoryHides(r)'
    BY <1>4 DEF MemoryHides
<3> QED
    BY <1>2, <1>4, <2>2, <3>1, <3>2, <3>3, FreezeKept
<2> QED
    BY <2>1, <2>2
<1> QED
    BY <1>6, <1>7, <1>8, <1>11, <1>12, <1>13 DEF RowsFit

\* A mute that expires, the bell, and steps that change nothing.
LEMMA Apart ==
    ASSUME IInv, UNCHANGED <<setting, assigned, clock, at, messages, state, req, pc>>,
           UNCHANGED <<seen, dirty, mine, whom, left, outcome, before>>,
           bell \subseteq bell', bell' \subseteq Users,
           mute' \in [Users -> MuteRow \cup {Nobody}], notes' \in [NoteId -> Note \cup {Nobody}],
           \A u \in Users : Muted(u)' => Muted(u),
           \A n \in NoteId : /\ notes'[n] # Nobody => notes[n] # Nobody
                             /\ Unread(n)' => Unread(n)
                             /\ Unread(n) => Unread(n)' \/ n.user \in bell'
    PROVE  IInv'
<1> USE MessageTypes DEF IInv
<1>1. Shape'
<2>1. setting' \in Settings /\ assigned' \in BOOLEAN
    BY Zenon
<2>2. TypeOK'
    BY <2>1 DEF TypeOK, Shape, Maybe
<2>3. ASSUME NEW r \in Requests PROVE StageFits(r)'
<3>1. StageFits(r)
    OBVIOUS
<3> QED
    BY <3>1 DEF StageFits, private, User
<2>4. \A p, r \in Requests : BeforeFits(p, r)'
    BY DEF BeforeFits
<2> QED
    BY <2>2, <2>3, <2>4 DEF Shape
<1>2. NotesFit'
<2>1. \A p, q : Overlap(p, q)' <=> Overlap(p, q)
    BY DEF Overlap
<2> QED
    BY <2>1 DEF NotesFit
<1>3. RowsFit'
<2>1. \A p, q, u : /\ Overlap(p, q)' <=> Overlap(p, q)
                   /\ WritesRow(u)' = WritesRow(u)
                   /\ User(p)' = User(p)
    BY DEF Overlap, WritesRow, Of, Submitted, User
<2>2. \A K : Of(K)' = Of(K)
    BY DEF Of, Submitted
<2>3. \A q, s \in Requests : ReadHolds(q, s)'
    BY <2>1 DEF RowsFit, ReadHolds, RowOverlap, Marked, RowCovers, MemoryCovers
<2>4. ASSUME NEW s \in Requests, NEW u \in Users PROVE ShowHolds(s, u)'
<3>1. ShowHolds(s, u)
    BY DEF RowsFit
<3>2. (Showing(s)' <=> Showing(s)) /\ (RowShows(u, s)' <=> RowShows(u, s))
      /\ \A p : MemoryShows(p, s)' <=> MemoryShows(p, s)
    BY DEF Showing, RowShows, MemoryShows
<3>3. RowOverlap(u, s)' <=> RowOverlap(u, s)
    BY <2>1 DEF RowOverlap
<3> QED
    BY <3>1, <3>2, <3>3 DEF ShowHolds
<2>5. \A z \in Requests : FreezeHolds(z)'
    BY <2>1, <2>2 DEF RowsFit, FreezeHolds, Unlinked, FreezeOverlap, HasHidden, RowHides, MemoryHides,
                 Stopped
<2> QED
    BY <2>3, <2>4, <2>5 DEF RowsFit
<1>4. AnnounceFits'
<2>1. \A u, s : /\ MutedOnce(u)' <=> MutedOnce(u)
                /\ ReadLater(u, s)' <=> ReadLater(u, s)
                /\ Passed(s, u)' <=> Passed(s, u)
                /\ User(s)' = User(s)
    BY DEF MutedOnce, ReadLater, Of, Submitted, User, Overlap, Passed
<2>2. Members' = Members /\ Of({"send"})' = Of({"send"})
    BY DEF Members, private, Of, Submitted
<2>3. ASSUME NEW s \in Requests PROVE Announces(s)'
<3>1. Announces(s)
    BY DEF AnnounceFits
<3>2. ASSUME pc[s] = "notify", seen[s] # Nobody
      PROVE  Unread(seen[s])' \/ whom[s] \in bell' \/ ReadLater(whom[s], s)'
<4>1. PICK n \in NoteId : n = seen[s] /\ n.user = whom[s]
    BY <3>2 DEF StageFits
<4>2. Unread(n)' \/ n.user \in bell' \/ ReadLater(n.user, s)
    BY <3>1, <3>2, <4>1 DEF Announces
<4>3. ReadLater(n.user, s) => ReadLater(whom[s], s)'
    BY <4>1 DEF ReadLater, Of, Submitted, User, Overlap
<4>4. Unread(n)' => Unread(seen[s])'
    BY <4>1 DEF Unread
<4> QED
    BY <4>1, <4>2, <4>3, <4>4
<3>3. ASSUME req[s] # Nobody, req[s].do = "send", NEW u \in Members \ {User(s)}, Passed(s, u)
      PROVE  Told(u, s)'
<4>1. Told(u, s)
    BY <3>1, <3>3 DEF Announces
<4> QED
    BY <2>1, <4>1 DEF Told
<3> QED
    BY <2>1, <2>2, <3>2, <3>3 DEF Announces
<2> QED
    BY <2>1, <2>2, <2>3 DEF AnnounceFits
<1> QED
    BY <1>1, <1>2, <1>3, <1>4

\* What the bell and the expiry of a mute do.
LEMMA BellRings ==
    ASSUME IInv, NEW u \in Users, MuteExpires(u) \/ ReadInBell(u) \/ DeleteInBell(u)
    PROVE  IInv'
<1> USE MessageTypes DEF IInv
<1>1. /\ UNCHANGED <<setting, assigned, clock, at, messages, state, req, pc>>
      /\ UNCHANGED <<seen, dirty, mine, whom, left, outcome, before>>
    BY DEF MuteExpires, ReadInBell, DeleteInBell, locals, history
<1>2. CASE MuteExpires(u)
<2>1. PICK row : row = [muted |-> FALSE]
    OBVIOUS
<2>2. row \in MuteRow /\ row.muted = FALSE
    BY <2>1 DEF MuteRow
<2>3. mute' = [mute EXCEPT ![u] = row] /\ notes' = notes /\ bell' = bell
    BY <1>2, <2>1 DEF MuteExpires, history
<2>4. mute' \in [Users -> MuteRow \cup {Nobody}]
    BY <2>2, <2>3
<2>5. \A v \in Users : Muted(v)' => Muted(v)
    BY <2>2, <2>3 DEF Muted
<2> QED
    BY <1>1, <2>3, <2>4, <2>5, Apart DEF Unread
<1>3. CASE ReadInBell(u)
<2>1. PICK S \in SUBSET UnreadNotes(u) : notes' = MarkRead(S)
    BY <1>3 DEF ReadInBell
<2>2. mute' = mute /\ bell' = bell \cup {u}
    BY <1>3 DEF ReadInBell
<2>3. ASSUME NEW n \in NoteId
      PROVE  /\ notes'[n] \in Note \cup {Nobody}
             /\ notes'[n] # Nobody => notes[n] # Nobody
             /\ Unread(n)' => Unread(n)
             /\ Unread(n) => Unread(n)' \/ n.user \in bell'
<3>1. CASE n \in S /\ notes[n] # Nobody
<4>1. notes'[n] = [notes[n] EXCEPT !.read = TRUE] /\ n.user = u
    BY <2>1, <3>1 DEF MarkRead, UnreadNotes, NotesOf
<4>2. notes[n] \in Note
    BY <3>1
<4>3. notes'[n] \in Note
    BY <4>1, <4>2, Zenon DEF Note
<4>4. notes'[n].read = TRUE
    BY <4>1, <4>2 DEF Note
<4> QED
    BY <2>2, <3>1, <4>1, <4>3, <4>4 DEF Unread
<3>2. CASE ~(n \in S /\ notes[n] # Nobody)
<4>1. notes'[n] = notes[n]
    BY <2>1, <3>2 DEF MarkRead
<4> QED
    BY <4>1 DEF Unread
<3> QED
    BY <3>1, <3>2
<2>4. notes' \in [NoteId -> Note \cup {Nobody}]
<3>1. notes' = [n \in NoteId |-> notes'[n]]
    BY <2>1 DEF MarkRead
<3> QED
    BY <2>3, <3>1
<2> QED
    BY <1>1, <2>2, <2>3, <2>4, Apart DEF Muted
<1>4. CASE DeleteInBell(u)
<2>1. PICK n \in NotesOf(u) : notes' = [notes EXCEPT ![n] = Nobody]
    BY <1>4 DEF DeleteInBell
<2>2. mute' = mute /\ bell' = bell \cup {u} /\ n \in NoteId /\ n.user = u
    BY <1>4, <2>1 DEF DeleteInBell, NotesOf
<2>3. notes' \in [NoteId -> Note \cup {Nobody}]
    BY <2>1
<2>4. \A m \in NoteId : /\ notes'[m] # Nobody => notes[m] # Nobody
                        /\ Unread(m)' => Unread(m)
                        /\ Unread(m) => Unread(m)' \/ m.user \in bell'
    BY <2>1, <2>2 DEF Unread
<2> QED
    BY <1>1, <2>2, <2>3, <2>4, Apart DEF Muted
<1> QED
    BY <1>2, <1>3, <1>4

\* Every step keeps the invariant.
LEMMA NextIInv ==
    ASSUME IInv, [Next]_vars
    PROVE  IInv'
<1> USE DEF IInv
<1>1. ASSUME NEW r \in Requests, Submit(r) PROVE IInv'
    BY <1>1, Comes
<1>2. ASSUME NEW r \in Requests,
             CheckWritable(r) \/ CheckAllowed(r) \/ Stamp(r) \/ Insert(r) \/ FindRead(r) \/ LoadMute(r)
      PROVE  IInv'
    BY <1>2, Moves, Leaves
<1>3. ASSUME NEW r \in Requests, ClearHidden(r) PROVE IInv'
    BY <1>3, HiddenCleared
<1>4. ASSUME NEW r \in Requests, CheckMuted(r) PROVE IInv'
    BY <1>4, MutedChecked
<1>5. ASSUME NEW r \in Requests, Answer(r) \/ Fail(r) PROVE IInv'
    BY <1>5, Leaves
<1>6. ASSUME NEW r \in Requests, FindGrouped(r) PROVE IInv'
    BY <1>6, GroupFound
<1>7. ASSUME NEW r \in Requests, Notify(r) PROVE IInv'
    BY <1>7, Notified
<1>8. ASSUME NEW r \in Requests, Unlink(r) PROVE IInv'
    BY <1>8, UnlinkedNow, Leaves
<1>9. ASSUME NEW r \in Requests, Load(r) \/ Select(r) PROVE IInv'
    BY <1>9, Loaded, Selected
<1>10. ASSUME NEW r \in Requests, Write(r) PROVE IInv'
    BY <1>10, Written, Leaves
<1>11. ASSUME NEW r \in Requests, MarkNote(r) PROVE IInv'
    BY <1>11, NoteMarked
<1>12. ASSUME NEW r \in Requests, WriteMute(r) PROVE IInv'
    BY <1>12, MuteWritten, Leaves
<1>13. ASSUME NEW u \in Users, MuteExpires(u) PROVE IInv'
    BY <1>13, BellRings
<1>14. ASSUME NEW u \in setting.ringing, ReadInBell(u) \/ DeleteInBell(u) PROVE IInv'
<2>1. u \in Users
    BY MessageTypes, MessagesAssumption
<2> QED
    BY <1>14, <2>1, BellRings
<1>15. CASE UNCHANGED vars
<2>1. /\ UNCHANGED <<setting, assigned, clock, at, messages, state, mute, notes, req, pc>>
      /\ UNCHANGED <<seen, dirty, mine, whom, left, outcome, before, bell>>
    BY <1>15 DEF vars, tables, locals, history
<2> QED
    BY <2>1, Apart, MessageTypes DEF Muted, Unread
<1> QED
    BY <1>1, <1>2, <1>3, <1>4, <1>5, <1>6, <1>7, <1>8, <1>9, <1>10, <1>11, <1>12, <1>13, <1>14, <1>15
       DEF Next

-----------------------------------------------------------------------------
(* What the code promises. *)

LEMMA Invariant == Spec => []IInv
<1>1. Init => IInv
    BY InitIInv
<1>2. IInv /\ [Next]_vars => IInv'
    BY NextIInv
<1> QED
    BY <1>1, <1>2, PTL DEF Spec

(* A conversation hidden before a message was sent is visible after it, and a *)
(* conversation frozen by a reassignment stays hidden for both, unless a      *)
(* request that overlaps writes the row back: whatever the requests of any    *)
(* number of members, clearHiddenForConversation and the two-statement saves  *)
(* of the row undo each other only when they overlap.                         *)
THEOREM HiddenFlagsCorrect == Spec => []HiddenFlagsHold
<1>1. IInv => HiddenFlagsHold
<2> SUFFICES ASSUME IInv PROVE HiddenFlagsHold
    OBVIOUS
<2> USE MessageTypes DEF IInv
<2>1. ASSUME NEW u \in Members, NEW s \in Of({"send"}), outcome[s] = "ok", state[u] # Nobody,
             <<state[u].hidden, s>> \in before
      PROVE  \E q \in WritesRow(u) : Overlap(q, s)
<3>1. Showing(s) /\ s \in Requests /\ u \in Users
    BY <2>1, Constants DEF Showing, Of, Submitted, Members
<3>2. ShowHolds(s, u)
    BY <3>1 DEF RowsFit
<3> QED
    BY <2>1, <3>1, <3>2 DEF ShowHolds, RowShows, RowOverlap
<2>2. ASSUME NEW z \in Of({"reassign"}), NEW u \in Members, outcome[z] = "ok"
      PROVE  \/ state[u] # Nobody /\ state[u].hidden # Nobody
             \/ \E q \in Of({"send"}) \cup WritesRow(u) : Overlap(q, z)
<3>1. z \in Requests /\ Unlinked(z) /\ u \in Pair
    BY <2>2 DEF Of, Submitted, Unlinked, StageFits, Members
<3>2. FreezeHolds(z) /\ HasHidden(z, u)
    BY <2>2, <3>1 DEF RowsFit, HasHidden
<3> QED
    BY <3>1, <3>2 DEF FreezeHolds, FreezeOverlap, RowHides
<2> QED
    BY <2>1, <2>2 DEF HiddenFlagsHold, HiddenComesBack, FrozenStaysHidden, Shape
<1> QED
    BY <1>1, Invariant, PTL

(* A member with an unread message of a send that succeeded has an unread     *)
(* notification of the conversation, unless he muted it, used the bell, or    *)
(* marked it read in a request that overlapped the send or was overlapped.    *)
THEOREM UnreadAreAnnounced == Spec => []UnreadAnnounced
<1>1. IInv => UnreadAnnounced
<2> SUFFICES ASSUME IInv, NEW u \in Members \ bell, NEW s \in UnreadBy(u), outcome[s] = "ok",
                    \A m \in Of({"mute"}) : User(m) # u
             PROVE  \/ UnreadNotes(u) # {}
                    \/ \E q \in Of({"read"}) :
                          User(q) = u /\ (Overlap(q, s) \/ \E p \in WritesRow(u) : Overlap(p, q))
    BY DEF UnreadAnnounced
<2> USE MessageTypes DEF IInv
<2>1. s \in Of({"send"}) /\ s \in Requests /\ User(s) # u /\ at[s] > LastRead(u)
    BY DEF UnreadBy, AnnounceFits, Of, Submitted
<2>2. Told(u, s)
    BY <2>1 DEF AnnounceFits, Announces, Of, Submitted, Passed
<2>3. CASE \E n \in NoteId : Unread(n) /\ n.user = u
    BY <2>3 DEF Unread, UnreadNotes, NotesOf
<2>4. CASE ReadLater(u, s)
<3>1. PICK q \in Of({"read"}) :
        User(q) = u /\ (Overlap(q, s) \/ (outcome[q] = "ok" /\ <<s, q>> \in before))
    BY <2>4 DEF ReadLater
<3>2. CASE outcome[q] = "ok" /\ <<s, q>> \in before
<4>1. Marked(q) /\ q \in Requests /\ req[q] # Nobody /\ req[q].do = "read"
    BY <3>1, <3>2 DEF Of, Submitted, Marked
<4>2. RowOverlap(u, q) \/ RowCovers(u, at[s])
    BY <2>1, <3>1, <3>2, <4>1 DEF RowsFit, ReadHolds
<4>3. ~RowCovers(u, at[s])
<5>1. u \in Users /\ (state[u] # Nobody => state[u] \in StateRow)
    BY Constants DEF Members
<5> QED
    BY <2>1, <5>1 DEF RowCovers, LastRead, StateRow
<4> QED
    BY <3>1, <4>2, <4>3 DEF RowOverlap
<3> QED
    BY <3>1, <3>2
<2> QED
    BY <2>2, <2>3, <2>4 DEF Told, MutedOnce
<1> QED
    BY <1>1, Invariant, PTL

(* findUnreadByGroupKey and create are two statements: a member has two       *)
(* unread notifications of the conversation only if the sends overlapped.     *)
THEOREM NotificationsGrouped == Spec => []OneNotificationUnlessOverlap
<1>1. IInv => OneNotificationUnlessOverlap
    BY DEF IInv, NotesFit, OneNotificationUnlessOverlap, UnreadNotes, NotesOf, Unread
<1> QED
    BY <1>1, Invariant, PTL
=============================================================================
