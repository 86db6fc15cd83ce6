--------------------------- MODULE MCBanRequests ---------------------------
(***************************************************************************)
(* Two requests of one advisor, one opening of a conversation from the chat *)
(* and two decisions, with two directors and two clients; four of these five *)
(* calls happen in any behaviour.                                           *)
(***************************************************************************)
EXTENDS BanRequests, TLC

CONSTANTS r1, r2, d1, d2, x1, x2, c1, c2

Symmetry ==
    Permutations(Creates) \cup Permutations(Decisions) \cup Permutations(Directors)
    \cup Permutations(Clients)
=============================================================================
