--------------------------- MODULE MCLiveUpdates ---------------------------
EXTENDS LiveUpdates

CONSTANTS i1, i2, ann, bob, tab1, tab2, phone, n1, n2, m1, m2, w1

MCOwner == [s \in Sockets |-> IF s = phone THEN bob ELSE ann]

Story(sockets, asks, moves) ==
    [sockets |-> sockets, asks |-> asks, moves |-> moves \cup {"open"}]

MCStories == {
    Story({tab1, tab2, phone}, 0, {"ban"}),
    Story({tab1, phone}, 0, {"ban", "crash"}),
    Story({tab1}, 0, {"ban", "fault", "start"}),
    Story({tab1, phone}, 0, {"close", "crash", "start"}),
    Story({tab1}, 0, {"close", "fault"}),
    Story({tab1}, 2, {"join", "close"}),
    Story({tab1, tab2}, 1, {"join", "leave"}),
    Story({tab1, tab2}, 1, {"join", "close"}),
    Story({tab1, phone}, 1, {"join", "crash"}),
    Story({tab1, phone}, 1, {"join", "leave", "send"})}

FeedBound(gestures, edits, troubles) ==
    [gestures |-> gestures, edits |-> edits, troubles |-> troubles]
MCFeedBounds == {FeedBound(3, 0, 0), FeedBound(2, 1, 0), FeedBound(2, 0, 1)}

BellBound(notes, gestures, troubles) ==
    [notes |-> notes, gestures |-> gestures, troubles |-> troubles]
MCBellBounds == {BellBound(3, 1, 0), BellBound(2, 2, 0), BellBound(2, 1, 1)}
=============================================================================
