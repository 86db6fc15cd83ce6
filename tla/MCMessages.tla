----------------------------- MODULE MCMessages -----------------------------
EXTENDS Messages, TLC

CONSTANTS r1, r2, r3, u1, u2, u3

AllKinds == {"send", "read", "hide", "open", "mute", "unmute", "reassign"}
\* In a group of three, the bell and a failure among two requests, or three that succeed;
\* all of it in the conversation of a client and his advisor.
Setting(isPrivate, calls, failures, ringing) ==
    [private |-> isPrivate, calls |-> calls, failures |-> failures, ringing |-> ringing]
MCSettings ==
    {Setting(FALSE, 2, 1, {u2}), Setting(FALSE, 3, 0, {}), Setting(TRUE, 3, 1, {u2})}
Symmetry == Permutations({r1, r2, r3})
=============================================================================
