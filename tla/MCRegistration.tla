--------------------------- MODULE MCRegistration ---------------------------
(***************************************************************************)
(* Two calls with one token, two advisors, two tries per INSERT; one client *)
(* advised by a1 at the start, whom two requests want to move; one address,  *)
(* registered or free, and three requests about it.                         *)
(***************************************************************************)
EXTENDS Registration

CONSTANTS a1, a2, c1, q1, q2, q3

MCFirst == [c \in Clients |-> a1]
MCOthers == [a \in Advisors |-> IF a = a1 THEN 1 ELSE 0]

Holder == [id |-> Seed, password |-> Seed, verified |-> TRUE, banned |-> FALSE,
           failures |-> 0, lockUntil |-> 0, secret |-> Nobody, enabled |-> FALSE,
           roles |-> {"CLIENT"}]

\* A client one wrong password away from the lock, and one who never verified
\* the address, with a second factor and a ban.
MCStart == {[Holder EXCEPT !.failures = 1],
            [Holder EXCEPT !.verified = FALSE, !.secret = Seed, !.enabled = TRUE, !.banned = TRUE]}
MCRoleSets == {{"CLIENT"}, {"DIRECTOR"}}
\* One request of any kind, one that saves the row it read, mails a link or takes a free
\* address, and a reset.
Changing == {"register", "login", "forgot", "reset", "verify", "ban", "unban", "roles",
             "setup", "enable", "disable", "delete", "deleteMe"}
MCKinds ==
    [q \in Changes |->
        IF q = q1 THEN Changing
        ELSE IF q = q2 THEN {"login", "forgot", "register"} ELSE {"reset"}]
=============================================================================
