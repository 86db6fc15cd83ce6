---------------------------- MODULE LiveUpdates ----------------------------
(***************************************************************************)
(* The three ways the server brings a page up to date while it is open:    *)
(* the sockets of the chat (ChatCluster), the event stream of the feed     *)
(* (Feed) and the polling of the notifications (Bell).                     *)
(*                                                                         *)
(* They share no state: a behaviour of this module is a behaviour of one   *)
(* of the three, the one part names, and the other two do not move.        *)
(***************************************************************************)
EXTENDS ChatCluster, Feed, Bell

VARIABLE part

Parts == {"chat", "feed", "bell"}

liveVars == <<part, clusterVars, feedVars, bellVars>>

\* A part that does not move starts in one state.
Fixed(x) == CHOOSE y \in x : TRUE

LiveInit ==
    /\ part \in Parts
    /\ ClusterInit /\ FeedInit /\ BellInit
    /\ part # "chat" =>
          may = Fixed(Stories) /\ up = Fixed({f \in [Instances -> {"off", "on"}] :
                                              \A r \in Instances : f[r] = "on"})
    /\ part # "feed" => feedLog.left = Fixed(FeedBounds)
    /\ part # "bell" => bellLog.left = Fixed(BellBounds)

LiveNext ==
    \/ part = "chat" /\ ClusterNext /\ UNCHANGED <<part, feedVars, bellVars>>
    \/ part = "feed" /\ FeedNext /\ UNCHANGED <<part, clusterVars, bellVars>>
    \/ part = "bell" /\ BellNext /\ UNCHANGED <<part, clusterVars, feedVars>>

\* Chat: timers fire, notifications travel, listeners reconnect and handlers that were
\* begun go on; users, bans and faults are not fair.  Feed: interval(5000) and the
\* retries of useSSE go on for as long as the page is open.  Bell: setInterval polls,
\* and requests come to an end.
LiveFairness ==
    /\ \A s \in Sockets :
          /\ WF_clusterVars(part = "chat" /\ handleConnection(s))
          /\ WF_clusterVars(part = "chat" /\ Join(s))
    /\ \A u \in Users, r \in Instances :
          WF_clusterVars(part = "chat" /\ disconnectUser(r, u))
    /\ WF_clusterVars(part = "chat" /\ \E m \in wire : Deliver(m))
    /\ \A r \in Instances :
          /\ WF_clusterVars(part = "chat" /\ connectListener(r))
          /\ WF_clusterVars(part = "chat" /\ Heartbeat(r))
    /\ WF_clusterVars(part = "chat" /\ Period)
    /\ WF_feedVars(part = "feed" /\ ReadForStream)
    /\ WF_feedVars(part = "feed" /\ ArriveStream)
    /\ WF_feedVars(part = "feed" /\ ReopenStream)
    /\ WF_bellVars(part = "bell" /\ StartPoll)
    /\ WF_bellVars(part = "bell" /\ \E p \in bellLine.polls : ServePoll(p))
    /\ WF_bellVars(part = "bell" /\ \E p \in bellLine.polls : ArrivePoll(p))

LiveSpec == LiveInit /\ [][LiveNext]_liveVars /\ LiveFairness

-----------------------------------------------------------------------------
\* What the user did to the news of his feed holds: a dismissed news is not shown
\* again by a list read earlier, and the rows of user_news_status follow the last
\* gesture about each news.
GesturesHold == DismissedStaysGone /\ LastGestureHolds

\* Whatever was lost on the way, each of the three repairs itself: heartbeats and
\* expiry the presence (ChatGateway), the five-second lists the feed (NewsController's
\* stream), polling the notification centre (useNotifications).
LiveUpdatesSettle ==
    /\ <>[](part = "chat" => PresenceAgrees)
    /\ <>[](part = "feed" => FeedShowsList)
    /\ <>[](part = "bell" => CentreShowsRows)
=============================================================================
