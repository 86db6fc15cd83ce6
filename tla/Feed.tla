-------------------------------- MODULE Feed --------------------------------
(***************************************************************************)
(* The news feed of one user (NewsFeed, useSSE) and the server behind it    *)
(* (NewsController, NewsService, SetNewsUserStatusUseCase, NewsRepository). *)
(*                                                                         *)
(* A gesture changes what is shown at once and the row user_news_status by  *)
(* a request; the stream meanwhile replaces the feed by lists read at any   *)
(* moment.  removedIds is what keeps a gesture from being undone by a list  *)
(* read before it.  fetch fails only with the network: an HTTP error is     *)
(* taken for success.                                                       *)
(***************************************************************************)
EXTENDS Naturals, FiniteSets

CONSTANTS
    News, Published0,  \* news; those live when the page opens
    FeedBounds,        \* bounds: gestures of the user, edits of the staff, troubles
    NoList

ASSUME FeedAssumption ==
    /\ Published0 \subseteq News
    /\ FeedBounds \subseteq [gestures : Nat, edits : Nat, troubles : Nat]

VARIABLES
    rows,      \* live: active news; status, gen: the user's row for each and how
               \* often it was deleted
    feed,      \* the page
    traffic,   \* the stream's list, loads and status requests under way
    feedLog    \* history, and what is left of the bounds

feedVars == <<rows, feed, traffic, feedLog>>

NoRow == "none"
Status(n) == rows.status[n]

\* NewsRepository.list: ARCHIVED and DELETED rows leave the feed.
ActiveList == {n \in rows.live : Status(n) = NoRow}
ArchiveList == {n \in rows.live : Status(n) = "ARCHIVED"}

Spend(what) ==
    /\ feedLog.left[what] > 0
    /\ feedLog' = [feedLog EXCEPT !.left[what] = @ - 1]

-----------------------------------------------------------------------------
(* The staff *)

\* createManualNews and its broadcast, which at most brings the next list forward.
Publish(n) ==
    /\ n \notin rows.live /\ n \notin Published0 /\ Spend("edits")
    /\ rows' = [rows EXCEPT !.live = @ \cup {n}]
    /\ UNCHANGED <<feed, traffic>>

Deactivate(n) ==
    /\ n \in rows.live /\ n \in Published0 /\ Spend("edits")
    /\ rows' = [rows EXCEPT !.live = @ \ {n}]
    /\ UNCHANGED <<feed, traffic>>

-----------------------------------------------------------------------------
(* Lists *)

\* A signal or the five seconds: switchMap drops the list it was reading before.
ReadForStream ==
    /\ feed.open
    /\ traffic' = [traffic EXCEPT !.stream = [list |-> ActiveList]]
    /\ UNCHANGED <<rows, feed, feedLog>>

\* Mutant: what the page shows is added to the list that came.
ArriveBeside ==
    /\ feed.open /\ traffic.stream # NoList
    /\ feed' = [feed EXCEPT !.news = @ \cup (traffic.stream.list \ feed.removed)]
    /\ traffic' = [traffic EXCEPT !.stream = NoList]
    /\ UNCHANGED <<rows, feedLog>>

\* onMessage: the list replaces the feed, but for what the user has removed.
ArriveStream ==
    /\ feed.open /\ traffic.stream # NoList
    /\ feed' = [feed EXCEPT !.news = traffic.stream.list \ feed.removed]
    /\ traffic' = [traffic EXCEPT !.stream = NoList]
    /\ UNCHANGED <<rows, feedLog>>

\* onerror: closed, and a new EventSource after the delay.
BreakStream ==
    /\ feed.open /\ Spend("troubles")
    /\ feed' = [feed EXCEPT !.open = FALSE]
    /\ traffic' = [traffic EXCEPT !.stream = NoList]
    /\ UNCHANGED rows

ReopenStream ==
    /\ ~feed.open
    /\ feed' = [feed EXCEPT !.open = TRUE]
    /\ UNCHANGED <<rows, traffic, feedLog>>

Loading == [active |-> NoList, archive |-> NoList]

\* loadNews: two requests, served apart.
ServeActive(l) ==
    /\ l \in traffic.loads /\ l.active = NoList
    /\ traffic' = [traffic EXCEPT
          !.loads = (@ \ {l}) \cup {[l EXCEPT !.active = [list |-> ActiveList]]}]
    /\ UNCHANGED <<rows, feed, feedLog>>

ServeArchive(l) ==
    /\ l \in traffic.loads /\ l.archive = NoList
    /\ traffic' = [traffic EXCEPT
          !.loads = (@ \ {l}) \cup {[l EXCEPT !.archive = [list |-> ArchiveList]]}]
    /\ UNCHANGED <<rows, feed, feedLog>>

ArriveLoad(l) ==
    /\ l \in traffic.loads /\ l.active # NoList /\ l.archive # NoList
    /\ feed' = [feed EXCEPT !.news = l.active.list \ feed.removed,
                            !.archived = l.archive.list \ feed.removed]
    /\ traffic' = [traffic EXCEPT !.loads = @ \ {l}]
    /\ UNCHANGED <<rows, feedLog>>

\* The network fails: the lists stay as they are.
LoseLoad(l) ==
    /\ l \in traffic.loads /\ Spend("troubles")
    /\ traffic' = [traffic EXCEPT !.loads = @ \ {l}]
    /\ UNCHANGED <<rows, feed>>

\* One of the two is answered with an HTTP error, which holds no list: an empty one.
FailLoad(l, which) ==
    /\ l \in traffic.loads /\ l[which] = NoList /\ Spend("troubles")
    /\ traffic' = [traffic EXCEPT
          !.loads = (@ \ {l}) \cup {[l EXCEPT ![which] = [list |-> {}]]}]
    /\ UNCHANGED <<rows, feed>>

-----------------------------------------------------------------------------
(* Gestures *)

Acting(n) == {a \in traffic.acts : a.news = n}

\* History: a request that overlaps another of the same news may win over it.
Ask(what, n) ==
    /\ traffic' = [traffic EXCEPT
          !.acts = @ \cup {[do |-> what, news |-> n, stage |-> "asked", saw |-> NoRow,
                            gen |-> 0, heard |-> TRUE]}]
    /\ feedLog' = [feedLog EXCEPT !.left["gestures"] = @ - 1,
                       !.last[n] = what,
                       !.mixed = IF Acting(n) = {} THEN @ ELSE @ \cup {n}]

\* Bound: one request of a kind at a time about a news.
Gesturing(what, n) ==
    feedLog.left["gestures"] > 0 /\ \A a \in Acting(n) : a.do # what

ArchiveNews(n) ==
    /\ n \in feed.news /\ Gesturing("archive", n)
    /\ Ask("archive", n)
    /\ feed' = [feed EXCEPT !.removed = @ \cup {n}, !.news = @ \ {n},
                            !.archived = @ \cup {n}]
    /\ UNCHANGED rows

DismissNews(n) ==
    /\ n \in feed.news \cup feed.archived /\ Gesturing("dismiss", n)
    /\ Ask("dismiss", n)
    /\ feed' = [feed EXCEPT !.removed = @ \cup {n}, !.news = @ \ {n}, !.archived = @ \ {n}]
    /\ UNCHANGED rows

UnarchiveNews(n) ==
    /\ n \in feed.archived /\ Gesturing("unarchive", n)
    /\ Ask("unarchive", n)
    /\ feed' = [feed EXCEPT !.removed = @ \ {n}, !.archived = @ \ {n}, !.news = @ \cup {n}]
    /\ UNCHANGED rows

At(a, stage) == a \in traffic.acts /\ a.stage = stage
Move(a, b) == traffic' = [traffic EXCEPT !.acts = (@ \ {a}) \cup {b}]

\* setUserStatus reads the row; clearUserStatus deletes it and has done.
FindStatus(a) ==
    /\ At(a, "asked") /\ a.do # "unarchive"
    /\ Move(a, [a EXCEPT !.stage = "found", !.saw = Status(a.news), !.gen = rows.gen[a.news]])
    /\ UNCHANGED <<rows, feed, feedLog>>

ClearStatus(a) ==
    /\ At(a, "asked") /\ a.do = "unarchive"
    /\ rows' = [rows EXCEPT !.status[a.news] = NoRow,
                   !.gen[a.news] = IF Status(a.news) = NoRow THEN @ ELSE @ + 1]
    /\ Move(a, [a EXCEPT !.stage = "done"])
    /\ UNCHANGED <<feed, feedLog>>

\* The row found is updated, or inserted again when it was deleted since; an INSERT
\* beside another row of the user and the news violates UNIQUE, for an HTTP 500.
SaveStatus(a) ==
    /\ At(a, "found")
    /\ LET mine == a.saw # NoRow /\ a.gen = rows.gen[a.news]
           clash == Status(a.news) # NoRow /\ ~mine
           status == IF a.do = "archive" THEN "ARCHIVED" ELSE "DELETED"
       IN  /\ rows' = [rows EXCEPT !.status[a.news] = IF clash THEN @ ELSE status]
           /\ feedLog' = [feedLog EXCEPT !.mixed = IF clash THEN @ \cup {a.news} ELSE @]
    /\ Move(a, [a EXCEPT !.stage = "done"])
    /\ UNCHANGED feed

\* A statement fails: the answer is an HTTP 500.
FailStatus(a) ==
    /\ a.stage \in {"asked", "found"} /\ a \in traffic.acts
    /\ feedLog.left["troubles"] > 0
    /\ feedLog' = [feedLog EXCEPT !.left["troubles"] = @ - 1, !.mixed = @ \cup {a.news}]
    /\ Move(a, [a EXCEPT !.stage = "done"])
    /\ UNCHANGED <<rows, feed>>

\* Mutant: any gesture that has been answered lets lists show the news again.
EndAnyGesture(a) ==
    /\ At(a, "done")
    /\ feed' = IF a.heard THEN [feed EXCEPT !.removed = @ \ {a.news}] ELSE feed
    /\ traffic' = [traffic EXCEPT !.acts = @ \ {a}]
    /\ UNCHANGED <<rows, feedLog>>

\* The answer: an archived news is the server's to hide, a dismissed one stays removed.
EndGesture(a) ==
    /\ At(a, "done")
    /\ feed' = IF a.do = "archive" /\ a.heard THEN [feed EXCEPT !.removed = @ \ {a.news}]
               ELSE feed
    /\ traffic' = [traffic EXCEPT !.acts = @ \ {a}]
    /\ UNCHANGED <<rows, feedLog>>

\* The network fails before the request or after the answer: the lists are loaded
\* again, with the gesture taken back in removedIds.
LoseGesture(a) ==
    /\ a \in traffic.acts /\ a.stage \in {"asked", "done"} /\ a.heard
    /\ feedLog.left["troubles"] > 0
    /\ feedLog' = [feedLog EXCEPT !.left["troubles"] = @ - 1, !.mixed = @ \cup {a.news}]
    /\ feed' = [feed EXCEPT !.removed =
          IF a.do = "unarchive" THEN @ \cup {a.news} ELSE @ \ {a.news}]
    /\ traffic' = [traffic EXCEPT !.acts = @ \ {a}, !.loads = @ \cup {Loading}]
    /\ UNCHANGED rows

\* The page is loaded again: requests go on, nobody waits for them.
ReloadPage ==
    /\ feedLog.left["troubles"] > 0
    /\ feedLog' = [feedLog EXCEPT !.left["troubles"] = @ - 1,
                                  !.cut = @ \cup {a.news : a \in traffic.acts}]
    /\ feed' = [news |-> {}, archived |-> {}, removed |-> {}, open |-> TRUE]
    /\ traffic' = [stream |-> NoList, loads |-> {Loading},
                   acts |-> {[a EXCEPT !.heard = FALSE] : a \in traffic.acts}]
    /\ UNCHANGED rows

-----------------------------------------------------------------------------
FeedInit ==
    /\ rows = [live |-> Published0, status |-> [n \in News |-> NoRow],
               gen |-> [n \in News |-> 0]]
    /\ feed = [news |-> {}, archived |-> {}, removed |-> {}, open |-> TRUE]
    /\ traffic = [stream |-> NoList, loads |-> {Loading}, acts |-> {}]
    /\ \E b \in FeedBounds :
          feedLog = [left |-> b, last |-> [n \in News |-> "none"], mixed |-> {}, cut |-> {}]

FeedNext ==
    \/ \E n \in News :
          Publish(n) \/ Deactivate(n) \/ ArchiveNews(n) \/ DismissNews(n) \/ UnarchiveNews(n)
    \/ \E l \in traffic.loads :
          ServeActive(l) \/ ServeArchive(l) \/ ArriveLoad(l) \/ LoseLoad(l)
          \/ FailLoad(l, "active") \/ FailLoad(l, "archive")
    \/ \E a \in traffic.acts :
          \/ FindStatus(a) \/ ClearStatus(a) \/ SaveStatus(a) \/ FailStatus(a)
          \/ EndGesture(a) \/ LoseGesture(a)
    \/ ReadForStream \/ ArriveStream \/ BreakStream \/ ReopenStream \/ ReloadPage

-----------------------------------------------------------------------------
\* A news the user dismissed is not shown again, whatever list arrives and even after
\* he loads the page again: but when a request about it failed, overlapped another or
\* was under way when he did.
DismissedStaysGone ==
    \A n \in News :
        feedLog.last[n] = "dismiss" /\ n \notin feedLog.mixed \cup feedLog.cut =>
            n \notin feed.news \cup feed.archived

\* The row a gesture leaves behind.
StatusAfter(what) ==
    CASE what = "archive" -> "ARCHIVED" [] what = "dismiss" -> "DELETED" [] OTHER -> NoRow

\* The last gesture about each news is what the tables say, once its requests are over.
LastGestureHolds ==
    \A n \in News :
        Acting(n) = {} /\ n \notin feedLog.mixed =>
            rows.status[n] = StatusAfter(feedLog.last[n])

\* The page shows the news the server lists for the user, but those a failed gesture
\* keeps hidden on it: what the stream repairs in the end.
FeedShowsList == feed.news = ActiveList \ feed.removed
=============================================================================
