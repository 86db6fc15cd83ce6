-------------------------- MODULE BanRequestsProofs --------------------------
(***************************************************************************)
(* Proofs about BanRequests, for any number of creations, openings,         *)
(* decisions, directors and clients.                                        *)
(***************************************************************************)
EXTENDS BanRequests, WellFoundedInduction, TLAPS

\* Nobody is none of the values it stands in for.
LEMMA NobodyFacts ==
    /\ Nobody \notin Makers /\ Nobody \notin Calls /\ Nobody \notin Creates
    /\ Nobody \notin Directors /\ Nobody \notin Clients
    /\ Nobody \notin Conversation /\ Nobody \notin Request
    /\ Seed \notin Calls /\ Seed \in Makers /\ Opens \cap Creates = {}
    BY ConversationsAssumption, BanRequestsAssumption DEF Makers, Calls, Users

\* A nonempty set of naturals has a least element.
LEMMA LeastExists ==
    ASSUME NEW S \in SUBSET Nat, S # {}
    PROVE  Min(S) \in S
<1> DEFINE R == {ss \in Nat \X Nat : ss[1] < ss[2]}
<1>1. IsWellFoundedOn(R, Nat)
    BY NatLessThanWellFounded, Zenon DEF OpToRel
<1> HIDE DEF R
<1>2. PICK x \in S : \A y \in S : <<y, x>> \notin R
    BY <1>1, WFMin, Zenon
<1>3. ASSUME NEW y \in S PROVE x <= y
<2>1. x \in Nat /\ y \in Nat /\ ~(y < x)
    BY <1>2 DEF R
<2> QED
    BY <2>1
<1> QED
    BY <1>3 DEF Min

-----------------------------------------------------------------------------
(* The invariant of the conversations. *)

Made == {order[i] : i \in DOMAIN order}
Complete(d) == [with |-> d, joined |-> 2]

\* The local variables a statement needs are set.
LocalsSet(m) ==
    /\ call[m].step \in {"admit", "canonical", "delete"} => m \in Opens
    /\ call[m].step \in {"client", "pending", "pick", "message", "save"} => m \in Creates
    /\ call[m].step \in {"admit", "find", "unhide", "create", "join", "canonical", "delete",
                         "message", "save"} => call[m].with \in Directors
    /\ m \in Creates /\ m \in InFlight => call[m].client \in Clients
    /\ call[m].step \in {"unhide", "delete", "message", "save"} => call[m].held \in Made

\* What a call knows of its own conversation and of the one it holds: its own
\* is taken away by nobody else, another's is complete until it is gone.
HoldsConversation(m) ==
    /\ call[m].step \in {"idle", "admit", "client", "pending", "pick", "find", "create"} =>
            m \notin Made
    /\ At(m, "join") =>
            /\ call[m].held = m /\ conversation[m] \in Conversation
            /\ conversation[m].with = call[m].with
            /\ conversation[m].joined < 2
    /\ call[m].step \in {"canonical", "delete"} => conversation[m] = Complete(call[m].with)
    /\ call[m].step \in {"unhide", "delete", "message", "save"} =>
            \/ call[m].held = m /\ m \in Creates /\ conversation[m] = Complete(call[m].with)
            \/ /\ call[m].held # m
               /\ m \in Creates => m \notin Made
               /\ conversation[call[m].held] \in {Nobody, Complete(call[m].with)}

\* A conversation that was completed while a call is about to make another
\* one belongs to a call it overlaps with.
CreatesKnowing(m) ==
    At(m, "create") =>
        \A a \in Makers : conversation[a] = Complete(call[m].with) => a \in met[m]

CallOK(m) == LocalsSet(m) /\ HoldsConversation(m) /\ CreatesKnowing(m)

\* Every conversation was made once, the first is the seed, and it is complete.
MadeOnce ==
    /\ 1 \in DOMAIN order /\ order[1] = Seed
    /\ \A i, j \in DOMAIN order : order[i] = order[j] => i = j
    /\ \A m \in Makers : conversation[m] # Nobody => m \in Made
    /\ conversation[Seed] # Nobody => conversation[Seed].joined = 2

FlightsMeet == \A m, q \in InFlight : m # q => m \in met[q]

\* A call that made a conversation and has not ended overlaps with every call
\* that made one later.
MakersMeet ==
    \A i, j \in DOMAIN order : i < j /\ order[i] \in InFlight => order[i] \in met[order[j]]

\* So does one whose conversation is complete, when it is with the same director.
Rivals(a, b) ==
    /\ conversation[a] # Nobody /\ conversation[b] # Nobody
    /\ conversation[a].with = conversation[b].with
    /\ conversation[a].joined = 2
SecondsMeet ==
    \A i, j \in DOMAIN order :
        i < j /\ Rivals(order[i], order[j]) => order[i] \in met[order[j]]

ConvInv ==
    /\ ConversationsTypeOK
    /\ MadeOnce /\ FlightsMeet /\ MakersMeet /\ SecondsMeet
    /\ \A m \in Calls : CallOK(m)

\* At the start the only conversation is the seeded one, with both members.
LEMMA ConvInit == ConversationsInit => ConvInv
<1> SUFFICES ASSUME ConversationsInit PROVE ConvInv
    OBVIOUS
<1> USE NobodyFacts DEF ConversationsInit
<1>1. PICK d \in Directors : conversation \in [Makers -> {Nobody, [with |-> d, joined |-> 2]}]
    OBVIOUS
<1>2. order \in Seq(Makers) /\ DOMAIN order = {1} /\ order[1] = Seed /\ Made = {Seed}
    BY DEF Made
<1>3. [with |-> d, joined |-> 2] \in Conversation
    BY DEF Conversation
<1>4. ConversationsTypeOK
    BY <1>1, <1>2, <1>3 DEF ConversationsTypeOK, Maybe, Call, Steps, Ready
<1>5. InFlight = {}
    BY DEF InFlight, Ready
<1>6. MadeOnce
    BY <1>1, <1>2 DEF MadeOnce, Makers
<1>7. FlightsMeet /\ MakersMeet
    BY <1>5 DEF FlightsMeet, MakersMeet
<1>8. SecondsMeet
    BY <1>2 DEF SecondsMeet
<1>9. ASSUME NEW m \in Calls PROVE CallOK(m)
    BY <1>2, <1>5 DEF CallOK, LocalsSet, HoldsConversation, CreatesKnowing, At, Ready
<1> QED
    BY <1>4, <1>6, <1>7, <1>8, <1>9 DEF ConvInv

\* A call begins.
LEMMA BeginInv ==
    ASSUME ConvInv, NEW m \in Calls, NEW loc \in Call, Begin(m, loc),
           \/ m \in Opens /\ loc.step = "admit" /\ loc.with \in Directors
           \/ m \in Creates /\ loc.step = "client" /\ loc.client \in Clients
    PROVE  ConvInv'
<1> USE NobodyFacts DEF ConvInv
<1>1. /\ call' = [call EXCEPT ![m] = loc] /\ UNCHANGED <<conversation, order>>
      /\ call \in [Calls -> Call] /\ At(m, "idle") /\ m \notin InFlight
    BY DEF Begin, ConversationsTypeOK, At, InFlight
<1>2. /\ call' \in [Calls -> Call]
      /\ \A q \in Calls : call'[q] = IF q = m THEN loc ELSE call[q]
    BY <1>1
<1>3. InFlight' = InFlight \cup {m} /\ InFlight \subseteq Calls
    BY <1>2 DEF InFlight
<1>4. \A q \in Calls :
          met'[q] = IF q = m THEN InFlight ELSE IF q \in InFlight THEN met[q] \cup {m} ELSE met[q]
    BY DEF Begin
<1>5. \A q \in Calls : q # m => met[q] \subseteq met'[q]
    BY <1>4
<1>6. ConversationsTypeOK'
<2>1. met' \in [Calls -> SUBSET Calls]
    BY <1>3 DEF Begin, ConversationsTypeOK
<2> QED
    BY <1>1, <1>2, <2>1 DEF ConversationsTypeOK
<1>7. Made' = Made
    BY <1>1 DEF Made
<1>8. m \notin Made
    BY <1>1 DEF CallOK, HoldsConversation, At
<1>9. MadeOnce'
    BY <1>1, <1>7 DEF MadeOnce
<1>10. FlightsMeet'
    BY <1>3, <1>4 DEF FlightsMeet
<1>11. \A i, j \in DOMAIN order :
          i < j /\ order[i] \in met[order[j]] => order[i] \in met'[order[j]]
<2> SUFFICES ASSUME NEW i \in DOMAIN order, NEW j \in DOMAIN order, i < j,
                    order[i] \in met[order[j]]
             PROVE  order[i] \in met'[order[j]]
    OBVIOUS
<2>1. order[j] \in Makers /\ order[j] # m
    BY <1>8 DEF Made, ConversationsTypeOK
<2>2. order[j] # Seed
<3>1. DOMAIN order = 1..Len(order) /\ Len(order) \in Nat
    BY DEF ConversationsTypeOK
<3> QED
    BY <3>1 DEF MadeOnce
<2> QED
    BY <1>5, <2>1, <2>2 DEF Makers
<1>12. MakersMeet'
    BY <1>1, <1>3, <1>8, <1>11 DEF MakersMeet, Made
<1>13. SecondsMeet'
    BY <1>1, <1>11 DEF SecondsMeet, Rivals
<1>14. ASSUME NEW q \in Calls PROVE CallOK(q)'
<2>1. CallOK(q)
    OBVIOUS
<2>2. CASE q = m
    BY <1>2, <1>7, <1>8, <2>2 DEF CallOK, LocalsSet, HoldsConversation, CreatesKnowing, At
<2>3. CASE q # m
    BY <1>1, <1>2, <1>3, <1>5, <1>7, <2>1, <2>3
       DEF CallOK, LocalsSet, HoldsConversation, CreatesKnowing, At
<2> QED
    BY <2>2, <2>3
<1> QED
    BY <1>6, <1>9, <1>10, <1>12, <1>13, <1>14

\* A call goes on, ends or fails without touching the tables of the chat.
LEMMA QuietInv ==
    ASSUME ConvInv, NEW m \in InFlight, NEW loc \in Call,
           call' = [call EXCEPT ![m] = loc], UNCHANGED <<conversation, order, met>>,
           CallOK(m)', loc.step # "idle"
    PROVE  ConvInv'
<1> USE NobodyFacts DEF ConvInv
<1>1. /\ m \in Calls /\ call \in [Calls -> Call]
      /\ \A q \in Calls : call'[q] = IF q = m THEN loc ELSE call[q]
      /\ call' \in [Calls -> Call]
    BY DEF InFlight, ConversationsTypeOK
<1>2. InFlight' \subseteq InFlight /\ Made' = Made
    BY <1>1 DEF InFlight, Made
<1>3. ConversationsTypeOK'
    BY <1>1 DEF ConversationsTypeOK
<1>4. MadeOnce' /\ SecondsMeet'
    BY <1>2 DEF MadeOnce, SecondsMeet, Rivals
<1>5. FlightsMeet' /\ MakersMeet'
    BY <1>2 DEF FlightsMeet, MakersMeet
<1>6. ASSUME NEW q \in Calls PROVE CallOK(q)'
<2>1. CASE q # m
<3>1. CallOK(q) /\ call'[q] = call[q]
    BY <1>1, <2>1
<3>2. q \in InFlight' <=> q \in InFlight
    BY <3>1 DEF InFlight
<3> QED
    BY <1>2, <3>1, <3>2
       DEF CallOK, LocalsSet, HoldsConversation, CreatesKnowing, At
<2> QED
    BY <2>1
<1> QED
    BY <1>3, <1>4, <1>5, <1>6

\* The lookup returns a complete conversation, and misses none.
LEMMA FindFacts ==
    ASSUME ConversationsTypeOK, NEW d \in Directors
    PROVE  LET c == FindPrivateBetween(d) IN
           /\ c = Nobody \/ (c \in Made /\ c \in Makers /\ conversation[c] = Complete(d))
           /\ c = Nobody => \A i \in DOMAIN order : conversation[order[i]] # Complete(d)
<1> USE NobodyFacts
<1>1. Between(d) \in SUBSET Nat /\ DOMAIN order \subseteq Nat
      /\ \A i \in DOMAIN order : order[i] \in Makers
    BY DEF Between, ConversationsTypeOK
<1>2. CASE Between(d) = {}
    BY <1>2 DEF FindPrivateBetween, Between, Complete
<1>3. CASE Between(d) # {}
<2>1. Min(Between(d)) \in Between(d)
    BY <1>1, <1>3, LeastExists
<2> QED
    BY <1>1, <1>3, <2>1 DEF FindPrivateBetween, Between, Complete, Made
<1> QED
    BY <1>2, <1>3

\* Looking for a private conversation keeps who made and who joined which.
LEMMA FindInv ==
    ASSUME ConvInv, NEW m \in Calls, Find(m)
    PROVE  ConvInv'
<1> USE NobodyFacts DEF ConvInv
<1> DEFINE c == FindPrivateBetween(call[m].with)
           loc == [call[m] EXCEPT !.held = c, !.step = IF c = Nobody THEN "create" ELSE "unhide"]
<1>1. /\ call[m] \in Call /\ call[m].step = "find" /\ CallOK(m) /\ m \in InFlight
    BY DEF Find, At, ConversationsTypeOK, InFlight
<1>2. call[m].with \in Directors /\ m \notin Made
    BY <1>1 DEF CallOK, LocalsSet, HoldsConversation
<1>3. /\ c = Nobody \/ (c \in Made /\ c \in Makers /\ conversation[c] = Complete(call[m].with))
      /\ c = Nobody => \A i \in DOMAIN order : conversation[order[i]] # Complete(call[m].with)
    BY <1>2, FindFacts
<1>4. /\ call' = [call EXCEPT ![m] = loc] /\ UNCHANGED <<conversation, order, met>>
    BY <1>1 DEF Find, ConversationsTypeOK
<1> HIDE DEF c
<1>5. loc \in Call /\ loc.step \in {"create", "unhide"} /\ loc.with = call[m].with
      /\ loc.client = call[m].client /\ loc.held = c
      /\ (loc.step = "create" <=> c = Nobody)
    BY <1>1, <1>3 DEF Call, Steps, Maybe
<1> HIDE DEF loc
<1>6. call'[m] = loc /\ Made' = Made
    BY <1>1, <1>4 DEF ConversationsTypeOK, InFlight, Made
<1>7. LocalsSet(m)'
    BY <1>1, <1>3, <1>5, <1>6 DEF CallOK, LocalsSet, InFlight, At
<1>8. HoldsConversation(m)'
    BY <1>2, <1>3, <1>4, <1>5, <1>6 DEF HoldsConversation, At
<1>9. CreatesKnowing(m)'
<2>1. \A a \in Makers : conversation[a] = Complete(call[m].with) => c # Nobody
<3> SUFFICES ASSUME NEW a \in Makers, conversation[a] = Complete(call[m].with), c = Nobody
             PROVE  FALSE
    OBVIOUS
<3>1. Complete(call[m].with) \in Conversation
    BY <1>2 DEF Complete, Conversation
<3>2. a \in Made
    BY <3>1 DEF MadeOnce
<3> QED
    BY <1>3, <3>2 DEF Made
<2> QED
    BY <1>4, <1>5, <1>6, <2>1 DEF CreatesKnowing, At
<1> QED
    BY <1>1, <1>4, <1>5, <1>7, <1>8, <1>9, QuietInv DEF CallOK

\* Creating a conversation adds one nobody else made, with no participant yet.
LEMMA CreateInv ==
    ASSUME ConvInv, NEW m \in Calls, Create(m)
    PROVE  ConvInv'
<1> USE NobodyFacts DEF ConvInv
<1> DEFINE loc == [call[m] EXCEPT !.held = m, !.step = "join"]
           new == NewConversation(call[m].with)
<1>1. /\ call[m] \in Call /\ call[m].step = "create" /\ CallOK(m) /\ m \in InFlight
      /\ call \in [Calls -> Call] /\ order \in Seq(Makers) /\ m \in Makers
    BY DEF Create, At, ConversationsTypeOK, InFlight, Makers
<1>2. call[m].with \in Directors /\ m \notin Made
    BY <1>1 DEF CallOK, LocalsSet, HoldsConversation
<1>3. new \in Conversation /\ new.joined = 0 /\ new.with = call[m].with
      /\ \A d : new # Complete(d)
    BY <1>2 DEF NewConversation, Conversation, Complete
<1>4. conversation[m] = Nobody
    BY <1>1, <1>2 DEF MadeOnce
<1> HIDE DEF new
<1>5. loc \in Call /\ loc.step = "join" /\ loc.held = m /\ loc.with = call[m].with /\ loc.client = call[m].client
    BY <1>1 DEF Call, Steps, Maybe
<1>6. /\ call' = [call EXCEPT ![m] = loc] /\ UNCHANGED met
      /\ conversation' = [conversation EXCEPT ![m] = new] /\ order' = Append(order, m)
    BY <1>1 DEF Create, new
<1> HIDE DEF loc
<1>7. /\ \A q \in Calls : call'[q] = IF q = m THEN loc ELSE call[q]
      /\ \A a \in Makers : conversation'[a] = IF a = m THEN new ELSE conversation[a]
      /\ InFlight' = InFlight
    BY <1>1, <1>5, <1>6 DEF ConversationsTypeOK, InFlight
<1>8. /\ DOMAIN order = 1..Len(order) /\ DOMAIN order' = 1..(Len(order) + 1)
      /\ Len(order) \in Nat /\ Len(order') = Len(order) + 1
      /\ \A i \in DOMAIN order : order'[i] = order[i] /\ order[i] \in Makers
                                 /\ order[i] \in Made /\ order[i] # m
      /\ order'[Len(order) + 1] = m
    BY <1>1, <1>2, <1>6 DEF Made
<1>9. Made' = Made \cup {m}
    BY <1>8 DEF Made
<1>10. ConversationsTypeOK'
    BY <1>1, <1>3, <1>5, <1>6 DEF ConversationsTypeOK, Maybe
<1>11. MadeOnce'
<2>1. \A i, j \in DOMAIN order' : order'[i] = order'[j] => i = j
    BY <1>8 DEF MadeOnce
<2> QED
    BY <1>1, <1>7, <1>8, <1>9, <2>1 DEF MadeOnce
<1>12. FlightsMeet'
    BY <1>6, <1>7 DEF FlightsMeet
<1>13. MakersMeet'
<2> SUFFICES ASSUME NEW i \in DOMAIN order', NEW j \in DOMAIN order', i < j,
                    order'[i] \in InFlight
             PROVE  order'[i] \in met[order'[j]]
    BY <1>6, <1>7 DEF MakersMeet
<2>1. i \in DOMAIN order
    BY <1>8
<2>2. CASE j \in DOMAIN order
    BY <1>8, <2>1, <2>2 DEF MakersMeet
<2>3. CASE j = Len(order) + 1
    BY <1>1, <1>8, <2>1, <2>3 DEF FlightsMeet
<2> QED
    BY <1>8, <2>2, <2>3
<1>14. SecondsMeet'
<2> SUFFICES ASSUME NEW i \in DOMAIN order', NEW j \in DOMAIN order', i < j,
                    Rivals(order[i], order[j])'
             PROVE  order'[i] \in met[order'[j]]
    BY <1>6, <1>7 DEF SecondsMeet, Rivals
<2>1. i \in DOMAIN order /\ order'[i] = order[i] /\ conversation'[order[i]] = conversation[order[i]]
      /\ order[i] \in Makers
    BY <1>7, <1>8
<2>2. CASE j \in DOMAIN order
    BY <1>7, <1>8, <2>1, <2>2 DEF SecondsMeet, Rivals
<2>3. CASE j = Len(order) + 1
<3> DEFINE rival == conversation[order[i]]
<3>1. rival \in Conversation /\ rival.with = call[m].with /\ rival.joined = 2
    BY <1>1, <1>3, <1>7, <1>8, <2>1, <2>3 DEF Rivals, ConversationsTypeOK, Maybe
<3>2. rival = Complete(call[m].with)
    BY <3>1 DEF Complete, Conversation
<3> QED
    BY <1>1, <1>8, <2>1, <2>3, <3>2 DEF CallOK, CreatesKnowing, At
<2> QED
    BY <1>8, <2>2, <2>3
<1>15. ASSUME NEW q \in Calls PROVE CallOK(q)'
<2>1. CallOK(q) /\ q \in Makers
    BY DEF Makers
<2>2. CASE q = m
<3>1. conversation'[m] = new
    BY <1>1, <1>7
<3> QED
    BY <1>1, <1>2, <1>3, <1>5, <1>7, <2>1, <2>2, <3>1
       DEF CallOK, LocalsSet, HoldsConversation, CreatesKnowing, At
<2>3. CASE q # m
<3>1. call'[q] = call[q] /\ conversation'[q] = conversation[q]
    BY <1>7, <2>1, <2>3
<3>2. LocalsSet(q)'
    BY <1>7, <1>9, <2>1, <3>1 DEF CallOK, LocalsSet
<3>3. HoldsConversation(q)'
<4>1. \A a \in Made : a \in Makers /\ conversation'[a] = conversation[a]
    BY <1>2, <1>7, <1>8 DEF Made
<4>2. call[q].step \in {"unhide", "delete", "message", "save"} => call[q].held \in Made
    BY <2>1 DEF CallOK, LocalsSet
<4> QED
    BY <1>9, <2>1, <2>3, <3>1, <4>1, <4>2 DEF CallOK, HoldsConversation, At
<3>4. CreatesKnowing(q)'
    BY <1>3, <1>6, <1>7, <2>1, <3>1 DEF CallOK, CreatesKnowing, At, Complete
<3> QED
    BY <3>2, <3>3, <3>4 DEF CallOK
<2> QED
    BY <2>2, <2>3
<1> QED
    BY <1>10, <1>11, <1>12, <1>13, <1>14, <1>15

\* Adding a participant moves its maker on and leaves the other conversations
\* alone.
LEMMA JoinInv ==
    ASSUME ConvInv, NEW m \in Calls, Join(m)
    PROVE  ConvInv'
<1> USE NobodyFacts DEF ConvInv
<1> DEFINE c == conversation[m]
           next == IF m \in Opens THEN "canonical" ELSE "message"
           new == [c EXCEPT !.joined = @ + 1]
           loc == IF c.joined = 0 THEN call[m] ELSE [call[m] EXCEPT !.step = next]
<1>1. /\ call[m] \in Call /\ call[m].step = "join" /\ CallOK(m) /\ m \in InFlight
      /\ call \in [Calls -> Call] /\ m \in Makers
    BY DEF Join, At, ConversationsTypeOK, InFlight, Makers
<1>2. /\ call[m].with \in Directors /\ c \in Conversation /\ c.with = call[m].with
      /\ c.joined \in {0, 1} /\ m \in Made /\ call[m].held = m
    BY <1>1 DEF CallOK, LocalsSet, HoldsConversation, At, Conversation, MadeOnce
<1>3. /\ new \in Conversation /\ new.with = call[m].with /\ new.joined = c.joined + 1
      /\ c.joined # 0 => new = Complete(call[m].with)
      /\ c.joined = 0 => \A d : new # Complete(d)
      /\ \A d : c # Complete(d)
    BY <1>2 DEF Conversation, Complete
<1>4. /\ conversation' = [conversation EXCEPT ![m] = new] /\ UNCHANGED <<order, met>>
      /\ call' = [call EXCEPT ![m] = loc]
    BY <1>1 DEF Join, Goto
<1>5. loc \in Call /\ loc.with = call[m].with /\ loc.client = call[m].client
      /\ loc.step = (IF c.joined = 0 THEN "join" ELSE next)
      /\ loc.step \in {"join", "canonical", "message"} /\ loc.held = call[m].held
    BY <1>1 DEF Call, Steps
<1> HIDE DEF loc, new
<1>6. /\ \A q \in Calls : call'[q] = IF q = m THEN loc ELSE call[q]
      /\ \A a \in Makers : conversation'[a] = IF a = m THEN new ELSE conversation[a]
      /\ InFlight' = InFlight /\ Made' = Made
    BY <1>1, <1>4, <1>5 DEF ConversationsTypeOK, InFlight, Made
<1>7. ConversationsTypeOK'
    BY <1>3, <1>4, <1>5 DEF ConversationsTypeOK, Maybe
<1>8. MadeOnce'
    BY <1>1, <1>2, <1>4, <1>6 DEF MadeOnce
<1>9. FlightsMeet' /\ MakersMeet'
    BY <1>4, <1>6 DEF FlightsMeet, MakersMeet
<1>10. SecondsMeet'
<2> SUFFICES ASSUME NEW i \in DOMAIN order, NEW j \in DOMAIN order, i < j,
                    Rivals(order[i], order[j])'
             PROVE  order[i] \in met[order[j]]
    BY <1>4 DEF SecondsMeet, Rivals
<2>1. order[i] \in Makers /\ order[j] \in Makers
    BY DEF ConversationsTypeOK
<2>2. CASE order[i] = m
    BY <1>1, <2>2 DEF MakersMeet
<2>3. CASE order[i] # m
<3>1. Rivals(order[i], order[j])
    BY <1>2, <1>3, <1>4, <1>6, <2>1, <2>3 DEF Rivals
<3> QED
    BY <3>1 DEF SecondsMeet
<2> QED
    BY <2>2, <2>3
<1>11. ASSUME NEW q \in Calls PROVE CallOK(q)'
<2>1. CallOK(q) /\ q \in Makers
    BY DEF Makers
<2>2. CASE q = m
<3>1. conversation'[m] = new /\ call'[m] = loc
    BY <1>1, <1>6
<3>2. LocalsSet(m)'
    BY <1>1, <1>2, <1>5, <1>6, <3>1 DEF CallOK, LocalsSet, HoldsConversation, Calls, At
<3>3. CASE c.joined = 0
    BY <1>2, <1>3, <1>5, <2>2, <3>1, <3>2, <3>3
       DEF CallOK, HoldsConversation, CreatesKnowing, At
<3>4. CASE c.joined # 0
    BY <1>2, <1>3, <1>5, <2>2, <3>1, <3>2, <3>4
       DEF CallOK, HoldsConversation, CreatesKnowing, At, Calls
<3> QED
    BY <3>3, <3>4
<2>3. CASE q # m
<3>1. call'[q] = call[q] /\ conversation'[q] = conversation[q]
    BY <1>6, <2>1, <2>3
<3>2. LocalsSet(q)'
    BY <1>6, <2>1, <3>1 DEF CallOK, LocalsSet
<3>3. HoldsConversation(q)'
<4>1. \A a \in Made : a \in Makers
    BY DEF Made, ConversationsTypeOK
<4>2. call[q].step \in {"unhide", "delete", "message", "save"} =>
        call[q].held \in Made /\ conversation'[call[q].held] = conversation[call[q].held]
    BY <1>2, <1>3, <1>6, <2>1, <2>3, <4>1 DEF CallOK, LocalsSet, HoldsConversation
<4> QED
    BY <1>6, <2>1, <3>1, <4>2 DEF CallOK, HoldsConversation, At
<3>4. CreatesKnowing(q)'
<4> SUFFICES ASSUME At(q, "create"), NEW a \in Makers,
                    conversation'[a] = Complete(call[q].with)
             PROVE  a \in met[q]
    BY <1>4, <3>1 DEF CreatesKnowing, At
<4>1. CASE a = m
    BY <1>1, <2>3, <4>1 DEF FlightsMeet, InFlight, At
<4>2. CASE a # m
    BY <1>6, <2>1, <4>2 DEF CallOK, CreatesKnowing
<4> QED
    BY <4>1, <4>2
<3> QED
    BY <3>2, <3>3, <3>4 DEF CallOK
<2> QED
    BY <2>2, <2>3
<1> QED
    BY <1>7, <1>8, <1>9, <1>10, <1>11

\* Deleting a duplicate removes a conversation its opener made, never the one
\* it kept.
LEMMA DeleteInv ==
    ASSUME ConvInv, NEW m \in Calls, Delete(m)
    PROVE  ConvInv'
<1> USE NobodyFacts DEF ConvInv
<1> DEFINE loc == [call[m] EXCEPT !.step = "unhide"]
<1>1. /\ call[m] \in Call /\ call[m].step = "delete" /\ CallOK(m) /\ m \in InFlight
      /\ call \in [Calls -> Call] /\ m \in Makers
    BY DEF Delete, At, ConversationsTypeOK, InFlight, Makers
<1>2. call[m].with \in Directors /\ call[m].held \in Made /\ m \in Opens
    BY <1>1 DEF CallOK, LocalsSet
<1>3. /\ conversation' = [conversation EXCEPT ![m] = Nobody] /\ UNCHANGED <<order, met>>
      /\ call' = [call EXCEPT ![m] = loc]
    BY DEF Delete, Goto, Duplicate
<1>4. loc \in Call /\ loc.with = call[m].with /\ loc.client = call[m].client
      /\ loc.step = "unhide" /\ loc.held = call[m].held
    BY <1>1 DEF Call, Steps
<1> HIDE DEF loc
<1>5. /\ \A q \in Calls : call'[q] = IF q = m THEN loc ELSE call[q]
      /\ \A a \in Makers : conversation'[a] = IF a = m THEN Nobody ELSE conversation[a]
      /\ InFlight' = InFlight /\ Made' = Made
    BY <1>1, <1>3, <1>4 DEF ConversationsTypeOK, InFlight, Made
<1>6. ConversationsTypeOK'
    BY <1>3, <1>4 DEF ConversationsTypeOK, Maybe
<1>7. MadeOnce'
    BY <1>1, <1>3, <1>5 DEF MadeOnce
<1>8. FlightsMeet' /\ MakersMeet'
    BY <1>3, <1>5 DEF FlightsMeet, MakersMeet
<1>9. SecondsMeet'
<2>1. \A i \in DOMAIN order : order[i] \in Makers
    BY DEF ConversationsTypeOK
<2> QED
    BY <1>3, <1>5, <2>1 DEF SecondsMeet, Rivals
<1>10. ASSUME NEW q \in Calls PROVE CallOK(q)'
<2>1. CallOK(q) /\ q \in Makers /\ \A a \in Made : a \in Makers
    BY DEF Makers, Made, ConversationsTypeOK
<2>2. \A d : Complete(d) # Nobody \/ d \notin Directors
    BY DEF Complete, Conversation
<2>3. CASE q = m
<3>1. call[m].held # m /\ conversation[call[m].held] \in {Nobody, Complete(call[m].with)}
    BY <1>1, <1>2 DEF CallOK, HoldsConversation
<3> QED
    BY <1>1, <1>2, <1>4, <1>5, <2>1, <2>3, <3>1
       DEF CallOK, LocalsSet, HoldsConversation, CreatesKnowing, At
<2>4. CASE q # m
<3>1. call'[q] = call[q] /\ conversation'[q] = conversation[q]
    BY <1>5, <2>1, <2>4
<3>2. LocalsSet(q)'
    BY <1>5, <2>1, <3>1 DEF CallOK, LocalsSet
<3>3. HoldsConversation(q)'
    BY <1>5, <2>1, <2>4, <3>1, <3>2 DEF CallOK, LocalsSet, HoldsConversation, At
<3>4. CreatesKnowing(q)'
    BY <1>3, <1>5, <2>1, <2>2, <3>1 DEF CallOK, LocalsSet, CreatesKnowing, At
<3> QED
    BY <3>2, <3>3, <3>4 DEF CallOK
<2> QED
    BY <2>3, <2>4
<1> QED
    BY <1>6, <1>7, <1>8, <1>9, <1>10

-----------------------------------------------------------------------------
(* The other statements of a call. *)

\* Ending forgets the local variables.
LEMMA EndInv ==
    ASSUME ConvInv, NEW m \in InFlight, End(m), UNCHANGED <<conversation, order, met>>
    PROVE  ConvInv'
<1> USE DEF ConvInv
<1>1. Ready("done") \in Call /\ Ready("done").step = "done"
    BY DEF Ready, Call, Steps, Maybe
<1>2. call' = [call EXCEPT ![m] = Ready("done")] /\ call'[m].step = "done"
    BY <1>1 DEF End, InFlight, ConversationsTypeOK
<1>3. CallOK(m)'
    BY <1>2 DEF CallOK, LocalsSet, HoldsConversation, CreatesKnowing, At, InFlight
<1> QED
    BY <1>1, <1>2, <1>3, QuietInv

\* A statement that reads or writes no conversation only moves its call on.
LEMMA StepInv ==
    ASSUME ConvInv, NEW m \in InFlight, NEW s \in Steps \ {"idle"}, Goto(m, s),
           UNCHANGED <<conversation, order, met>>,
           \/ call[m].step = "admit" /\ s = "find"
           \/ call[m].step = "client" /\ s = "pending"
           \/ call[m].step = "pending" /\ s = "pick"
           \/ call[m].step = "unhide" /\ s = "message" /\ m \in Creates
           \/ call[m].step = "message" /\ s = "save"
    PROVE  ConvInv'
<1> USE DEF ConvInv
<1> DEFINE loc == [call[m] EXCEPT !.step = s]
<1>1. call[m] \in Call /\ m \in Calls /\ CallOK(m) /\ call \in [Calls -> Call]
    BY DEF InFlight, ConversationsTypeOK
<1>2. loc \in Call /\ loc.step = s /\ loc.with = call[m].with /\ loc.held = call[m].held
      /\ loc.client = call[m].client
    BY <1>1 DEF Call
<1>3. call' = [call EXCEPT ![m] = loc]
    BY DEF Goto
<1> HIDE DEF loc
<1>4. call'[m] = loc /\ Made' = Made
    BY <1>1, <1>3 DEF Made
<1>5. LocalsSet(m)'
    BY <1>1, <1>2, <1>4 DEF CallOK, LocalsSet, InFlight
<1>6. HoldsConversation(m)'
    BY <1>1, <1>2, <1>4 DEF CallOK, HoldsConversation, At
<1>7. CreatesKnowing(m)'
    BY <1>2, <1>4 DEF CreatesKnowing, At
<1> QED
    BY <1>2, <1>3, <1>5, <1>6, <1>7, QuietInv DEF CallOK

\* A creation chooses its director.
LEMMA PickInv ==
    ASSUME ConvInv, NEW r \in Creates, Pick(r)
    PROVE  ConvInv'
<1> USE NobodyFacts DEF ConvInv
<1>1. /\ r \in InFlight /\ r \in Calls /\ call[r] \in Call /\ call[r].step = "pick"
      /\ CallOK(r) /\ call \in [Calls -> Call] /\ UNCHANGED <<conversation, order, met>>
    BY DEF Pick, At, InFlight, Calls, ConversationsTypeOK
<1>2. CASE End(r)
    BY <1>1, <1>2, EndInv
<1>3. ASSUME NEW x \in LeastLoaded, call' = [call EXCEPT ![r].with = x, ![r].step = "find"]
      PROVE  ConvInv'
<2> DEFINE loc == [step |-> "find", client |-> call[r].client, with |-> x, held |-> call[r].held]
<2>1. x \in Directors
    BY DEF LeastLoaded
<2>2. loc \in Call
    BY <1>1, <2>1 DEF Call, Steps, Maybe
<2>3. call' = [call EXCEPT ![r] = loc]
    BY <1>1, <1>3 DEF Call
<2>4. call'[r] = loc /\ Made' = Made
    BY <1>1, <2>3 DEF Made
<2>5. CallOK(r)'
    BY <1>1, <2>1, <2>4 DEF CallOK, LocalsSet, HoldsConversation, CreatesKnowing, At, InFlight
<2> QED
    BY <1>1, <2>2, <2>3, <2>5, QuietInv
<1> QED
    BY <1>2, <1>3 DEF Pick

\* Who opened a duplicate turns to the conversation that findPrivateBetween returns.
LEMMA CanonicalInv ==
    ASSUME ConvInv, NEW o \in Calls, Canonical(o)
    PROVE  ConvInv'
<1> USE NobodyFacts DEF ConvInv
<1> DEFINE c == FindPrivateBetween(call[o].with)
           loc == [step |-> "delete", client |-> call[o].client, with |-> call[o].with, held |-> c]
<1>1. /\ o \in InFlight /\ call[o] \in Call /\ call[o].step = "canonical" /\ CallOK(o)
      /\ call \in [Calls -> Call] /\ UNCHANGED <<conversation, order, met>>
    BY DEF Canonical, At, InFlight, ConversationsTypeOK
<1>2. call[o].with \in Directors /\ o \in Opens /\ conversation[o] = Complete(call[o].with)
    BY <1>1 DEF CallOK, LocalsSet, HoldsConversation
<1>3. c = Nobody \/ (c \in Made /\ c \in Makers /\ conversation[c] = Complete(call[o].with))
    BY <1>2, FindFacts
<1>4. CASE End(o)
    BY <1>1, <1>4, EndInv
<1>5. CASE c \notin {o, Nobody}
          /\ call' = [call EXCEPT ![o].held = c, ![o].step = "delete"]
<2> HIDE DEF c
<2>1. loc \in Call
    BY <1>1, <1>3, <1>5 DEF Call, Steps, Maybe
<2>2. call' = [call EXCEPT ![o] = loc]
    BY <1>1, <1>5 DEF Call
<2>3. call'[o] = loc /\ Made' = Made
    BY <1>1, <2>2 DEF Made
<2>4. CallOK(o)'
    BY <1>1, <1>2, <1>3, <1>5, <2>3
       DEF CallOK, LocalsSet, HoldsConversation, CreatesKnowing, At, InFlight
<2> QED
    BY <1>1, <2>1, <2>2, <2>4, QuietInv
<1> QED
    BY <1>4, <1>5 DEF Canonical

-----------------------------------------------------------------------------
(* What a step of a call leaves to those who rely on it. *)

\* A creation that has looked for a pending request about its client.
Past(q) == q \in InFlight /\ call[q].step \notin {"client", "pending"}

LeavesToOthers ==
    /\ \A q \in Calls : At(q, "done") => call'[q].step = "done"
    /\ \A q \in Calls : ~At(q, "idle") => met[q] \subseteq met'[q]
    /\ \A q \in Calls : At(q, "done") /\ q \in Made' => q \in Made
    /\ \A a \in Makers, d \in Directors :
            conversation[a] = Complete(d) =>
                \/ conversation'[a] = Complete(d)
                \/ conversation'[a] = Nobody /\ a \in InFlight /\ a \in Opens
    /\ \A a \in Makers : a \in InFlight' /\ conversation[a] # Nobody => a \in InFlight

KeepsClients ==
    \A q \in Creates : Past(q)' =>
        /\ call'[q].client = call[q].client
        /\ Past(q) \/ ~AlreadyPending(call[q].client)

\* A statement of a call that is under way.
LEMMA MoveLeaves ==
    ASSUME ConvInv, NEW m \in InFlight, NEW loc, loc.step # "idle",
           call' = [call EXCEPT ![m] = loc], UNCHANGED met, Made' \subseteq Made \cup {m},
           \A a \in Makers, d \in Directors : conversation[a] = Complete(d) =>
                \/ conversation'[a] = Complete(d)
                \/ conversation'[a] = Nobody /\ a = m /\ a \in Opens
    PROVE  /\ LeavesToOthers
           /\ (\/ loc.step \in {"client", "pending", "done"}
               \/ /\ loc.client = call[m].client
                  /\ \/ call[m].step \notin {"client", "pending"}
                     \/ ~AlreadyPending(call[m].client)
               \/ m \in Opens)
              => KeepsClients
<1> USE NobodyFacts DEF ConvInv
<1>1. /\ m \in Calls /\ call \in [Calls -> Call] /\ call[m].step \notin {"idle", "done"}
      /\ \A q \in Calls : call'[q] = IF q = m THEN loc ELSE call[q]
    BY DEF InFlight, ConversationsTypeOK
<1>2. InFlight' \subseteq InFlight
    BY <1>1 DEF InFlight
<1>3. LeavesToOthers
    BY <1>1, <1>2 DEF LeavesToOthers, At
<1>4. ASSUME \/ loc.step \in {"client", "pending", "done"}
             \/ /\ loc.client = call[m].client
                /\ \/ call[m].step \notin {"client", "pending"}
                   \/ ~AlreadyPending(call[m].client)
             \/ m \in Opens,
             NEW q \in Creates, Past(q)'
      PROVE  /\ call'[q].client = call[q].client
             /\ Past(q) \/ ~AlreadyPending(call[q].client)
    BY <1>1, <1>2, <1>4 DEF Past, InFlight, Calls
<1> QED
    BY <1>3, <1>4 DEF KeepsClients

\* The beginning of a call.
LEMMA BeginLeaves ==
    ASSUME ConvInv, NEW m \in Calls, NEW loc \in Call, Begin(m, loc),
           \/ loc.step = "admit" /\ m \in Opens
           \/ loc.step = "client"
    PROVE  LeavesToOthers /\ KeepsClients
<1> USE NobodyFacts DEF ConvInv
<1>1. /\ call \in [Calls -> Call] /\ call[m].step = "idle"
      /\ \A q \in Calls : call'[q] = IF q = m THEN loc ELSE call[q]
      /\ \A q \in Calls :
            met'[q] = IF q = m THEN InFlight ELSE IF q \in InFlight THEN met[q] \cup {m} ELSE met[q]
      /\ UNCHANGED <<conversation, order>> /\ Made' = Made
    BY DEF Begin, At, ConversationsTypeOK, Made
<1>2. InFlight' = InFlight \cup {m}
    BY <1>1 DEF InFlight
<1>3. conversation[m] = Nobody
<2>1. m \notin Made /\ m \in Makers
    BY <1>1 DEF CallOK, HoldsConversation, Makers
<2> QED
    BY <2>1 DEF MadeOnce
<1>4. LeavesToOthers
    BY <1>1, <1>2, <1>3 DEF LeavesToOthers, At
<1>5. KeepsClients
    BY <1>1, <1>2 DEF KeepsClients, Past, Calls
<1> QED
    BY <1>4, <1>5

\* A statement of either path, but for those only a creation has.
LEMMA ConversationLeaves ==
    ASSUME ConvInv, NEW m \in Calls, ConversationStep(m)
    PROVE  ConvInv' /\ LeavesToOthers /\ KeepsClients
<1> USE NobodyFacts DEF ConvInv
<1>1. call \in [Calls -> Call] /\ CallOK(m) /\ Ready("done").step = "done"
    BY DEF ConversationsTypeOK, Ready
<1>2. CASE Open(m)
<2>1. PICK d \in Directors : Begin(m, [Ready("admit") EXCEPT !.with = d])
    BY <1>2 DEF Open
<2>2. [Ready("admit") EXCEPT !.with = d] \in Call
    BY DEF Ready, Call, Steps, Maybe
<2>3. /\ [Ready("admit") EXCEPT !.with = d].step = "admit"
      /\ [Ready("admit") EXCEPT !.with = d].with = d /\ m \in Opens
    BY <1>2 DEF Ready, Open
<2> QED
    BY <2>1, <2>2, <2>3, BeginInv, BeginLeaves
<1>3. ASSUME m \in InFlight, End(m), UNCHANGED <<conversation, order, met>>
      PROVE  ConvInv' /\ LeavesToOthers /\ KeepsClients
<2>1. call' = [call EXCEPT ![m] = Ready("done")] /\ Made' = Made
    BY <1>3 DEF End, Made
<2> QED
    BY <1>1, <1>3, <2>1, EndInv, MoveLeaves
<1>4. ASSUME m \in InFlight, NEW s \in Steps \ {"idle"}, Goto(m, s), UNCHANGED met,
             Made' = Made, m \in Opens \/ call[m].step \notin {"client", "pending"},
             \A a \in Makers, d \in Directors : conversation[a] = Complete(d) =>
                \/ conversation'[a] = Complete(d)
                \/ conversation'[a] = Nobody /\ a = m /\ a \in Opens
      PROVE  LeavesToOthers /\ KeepsClients
<2>1. /\ call' = [call EXCEPT ![m] = [call[m] EXCEPT !.step = s]] /\ call[m] \in Call
    BY <1>1, <1>4 DEF Goto, InFlight
<2>2. [call[m] EXCEPT !.step = s].step = s /\ [call[m] EXCEPT !.step = s].client = call[m].client
    BY <2>1 DEF Call
<2> QED
    BY <1>4, <2>1, <2>2, MoveLeaves
<1>5. CASE Admit(m)
<2>1. m \in InFlight /\ call[m].step = "admit" /\ m \in Opens
    BY <1>1, <1>5 DEF Admit, At, InFlight, CallOK, LocalsSet
<2>2. UNCHANGED <<conversation, order, met>> /\ Made' = Made /\ (Goto(m, "find") \/ End(m))
    BY <1>5 DEF Admit, Made
<2>3. "find" \in Steps \ {"idle"}
    BY DEF Steps
<2> QED
<3>1. CASE End(m)
    BY <1>3, <2>1, <2>2, <3>1
<3>2. CASE Goto(m, "find")
<4>1. LeavesToOthers /\ KeepsClients
    BY <1>4, <2>1, <2>2, <2>3, <3>2
<4>2. ConvInv'
    BY <2>1, <2>2, <2>3, <3>2, StepInv
<4> QED
    BY <4>1, <4>2
<3> QED
    BY <2>2, <3>1, <3>2
<1>6. CASE Find(m)
<2> DEFINE c == FindPrivateBetween(call[m].with)
           loc == [step |-> IF c = Nobody THEN "create" ELSE "unhide", client |-> call[m].client,
                   with |-> call[m].with, held |-> c]
<2>1. m \in InFlight /\ call[m].step = "find" /\ call[m] \in Call
    BY <1>1, <1>6 DEF Find, At, InFlight
<2>2. call' = [call EXCEPT ![m] = loc] /\ UNCHANGED <<conversation, met>> /\ Made' = Made
    BY <1>1, <1>6, <2>1 DEF Find, Call, Made
<2>3. loc.step # "idle" /\ loc.client = call[m].client
    OBVIOUS
<2> HIDE DEF loc
<2> QED
    BY <1>6, <2>1, <2>2, <2>3, FindInv, MoveLeaves
<1>7. CASE Create(m)
<2> DEFINE loc == [step |-> "join", client |-> call[m].client, with |-> call[m].with, held |-> m]
<2>1. m \in InFlight /\ call[m].step = "create" /\ call[m] \in Call /\ m \notin Made /\ m \in Makers
    BY <1>1, <1>7 DEF Create, At, InFlight, CallOK, HoldsConversation, Makers
<2>2. call' = [call EXCEPT ![m] = loc] /\ UNCHANGED met
    BY <1>1, <1>7, <2>1 DEF Create, Call
<2>3. loc.step # "idle" /\ loc.client = call[m].client
    OBVIOUS
<2>4. Made' \subseteq Made \cup {m}
    BY <1>7 DEF Create, Made, ConversationsTypeOK
<2>5. \A a \in Makers, d \in Directors :
         conversation[a] = Complete(d) => conversation'[a] = Complete(d)
<3>1. conversation[m] = Nobody
    BY <2>1 DEF MadeOnce
<3> QED
    BY <1>7, <3>1 DEF Create, Complete, Conversation, ConversationsTypeOK
<2> HIDE DEF loc
<2> QED
    BY <1>7, <2>1, <2>2, <2>3, <2>4, <2>5, CreateInv, MoveLeaves
<1>8. CASE Join(m)
<2>1. /\ m \in InFlight /\ call[m].step = "join" /\ call[m] \in Call
      /\ conversation[m].joined < 2 /\ Made' = Made /\ UNCHANGED met
    BY <1>1, <1>8 DEF Join, At, InFlight, CallOK, HoldsConversation, Made
<2>2. \A a \in Makers, d \in Directors :
         conversation[a] = Complete(d) => conversation'[a] = Complete(d)
    BY <1>8, <2>1 DEF Join, Complete, ConversationsTypeOK
<2>3. PICK s \in {"join", "canonical", "message"} : Goto(m, s)
<3>1. call[m] = [call[m] EXCEPT !.step = "join"]
    BY <2>1 DEF Call
<3> QED
    BY <1>1, <1>8, <2>1, <3>1 DEF Join, Goto
<2>4. s \in Steps \ {"idle"}
    BY DEF Steps
<2> QED
    BY <1>4, <1>8, <2>1, <2>2, <2>3, <2>4, JoinInv
<1>9. CASE Unhide(m)
<2>1. m \in InFlight /\ call[m].step = "unhide"
    BY <1>1, <1>9 DEF Unhide, At, InFlight
<2>2. UNCHANGED <<conversation, order, met>> /\ Made' = Made
      /\ (End(m) \/ (Goto(m, "message") /\ m \in Creates))
    BY <1>9 DEF Unhide, Made, Calls
<2>3. "message" \in Steps \ {"idle"}
    BY DEF Steps
<2> QED
<3>1. CASE End(m)
    BY <1>3, <2>1, <2>2, <3>1
<3>2. CASE Goto(m, "message") /\ m \in Creates
<4>1. LeavesToOthers /\ KeepsClients
    BY <1>4, <2>1, <2>2, <2>3, <3>2
<4>2. ConvInv'
    BY <2>1, <2>2, <2>3, <3>2, StepInv
<4> QED
    BY <4>1, <4>2
<3> QED
    BY <2>2, <3>1, <3>2
<1>10. CASE Canonical(m)
<2> DEFINE c == FindPrivateBetween(call[m].with)
           loc == [step |-> "delete", client |-> call[m].client, with |-> call[m].with, held |-> c]
<2>1. m \in InFlight /\ call[m].step = "canonical" /\ call[m] \in Call
    BY <1>1, <1>10 DEF Canonical, At, InFlight
<2>2. UNCHANGED <<conversation, order, met>> /\ Made' = Made
      /\ (End(m) \/ call' = [call EXCEPT ![m] = loc])
    BY <1>1, <1>10, <2>1 DEF Canonical, Call, Made
<2>3. loc.step # "idle" /\ loc.client = call[m].client
    OBVIOUS
<2> HIDE DEF loc
<2> QED
    BY <1>3, <1>10, <2>1, <2>2, <2>3, CanonicalInv, MoveLeaves
<1>11. CASE Delete(m)
<2>1. m \in InFlight /\ call[m].step = "delete" /\ m \in Opens
    BY <1>1, <1>11 DEF Delete, At, InFlight, CallOK, LocalsSet
<2>2. \A a \in Makers, d \in Directors : conversation[a] = Complete(d) =>
                \/ conversation'[a] = Complete(d)
                \/ conversation'[a] = Nobody /\ a = m /\ a \in Opens
    BY <1>11, <2>1 DEF Delete, Duplicate, ConversationsTypeOK
<2>3. "unhide" \in Steps \ {"idle"} /\ Goto(m, "unhide") /\ Made' = Made /\ UNCHANGED met
    BY <1>11 DEF Steps, Delete, Made
<2> QED
    BY <1>4, <1>11, <2>1, <2>2, <2>3, DeleteInv
<1>12. CASE Fails(m)
    BY <1>3, <1>12 DEF Fails
<1> QED
    BY <1>2, <1>5, <1>6, <1>7, <1>8, <1>9, <1>10, <1>11, <1>12 DEF ConversationStep

\* A statement only a creation has.
LEMMA CreationLeaves ==
    ASSUME ConvInv, NEW r \in Creates, CreateStep(r)
    PROVE  ConvInv' /\ LeavesToOthers /\ KeepsClients
<1> USE NobodyFacts DEF ConvInv
<1>1. call \in [Calls -> Call] /\ r \in Calls /\ CallOK(r) /\ Ready("done").step = "done"
    BY DEF ConversationsTypeOK, Ready, Calls
<1>2. CASE Ask(r)
<2>1. PICK c \in Clients : Begin(r, [Ready("client") EXCEPT !.client = c])
    BY <1>2 DEF Ask
<2>2. [Ready("client") EXCEPT !.client = c] \in Call
    BY DEF Ready, Call, Steps, Maybe
<2>3. /\ [Ready("client") EXCEPT !.client = c].step = "client"
      /\ [Ready("client") EXCEPT !.client = c].client = c
    BY DEF Ready
<2> QED
    BY <1>1, <2>1, <2>2, <2>3, BeginInv, BeginLeaves
<1>3. ASSUME r \in InFlight, End(r), UNCHANGED <<conversation, order, met>>
      PROVE  ConvInv' /\ LeavesToOthers /\ KeepsClients
<2>1. call' = [call EXCEPT ![r] = Ready("done")] /\ Made' = Made
    BY <1>3 DEF End, Made
<2> QED
    BY <1>1, <1>3, <2>1, EndInv, MoveLeaves
<1>4. ASSUME r \in InFlight, NEW s \in {"pending", "pick", "save"}, Goto(r, s),
             UNCHANGED <<conversation, order, met>>,
             \/ call[r].step = "client" /\ s = "pending"
             \/ call[r].step = "pending" /\ s = "pick" /\ ~AlreadyPending(call[r].client)
             \/ call[r].step = "message" /\ s = "save"
      PROVE  ConvInv' /\ LeavesToOthers /\ KeepsClients
<2> DEFINE loc == [call[r] EXCEPT !.step = s]
<2>1. /\ call' = [call EXCEPT ![r] = loc] /\ call[r] \in Call
    BY <1>1, <1>4 DEF Goto, InFlight
<2>2. loc.step = s /\ loc.client = call[r].client
    BY <2>1 DEF Call
<2>3. s \in Steps \ {"idle"} /\ Made' = Made
    BY <1>4 DEF Steps, Made
<2>4. ConvInv'
    BY <1>4, <2>3, StepInv
<2> HIDE DEF loc
<2>5. loc.step # "idle" /\ Made' \subseteq Made \cup {r}
    BY <2>2, <2>3
<2>6. \/ loc.step \in {"client", "pending", "done"}
      \/ /\ loc.client = call[r].client
         /\ \/ call[r].step \notin {"client", "pending"}
            \/ ~AlreadyPending(call[r].client)
    BY <1>4, <2>2
<2> QED
    BY <1>4, <2>1, <2>4, <2>5, <2>6, MoveLeaves
<1>5. CASE CheckClient(r)
<2>1. /\ r \in InFlight /\ call[r].step = "client" /\ UNCHANGED <<conversation, order, met>>
      /\ End(r) \/ Goto(r, "pending")
    BY <1>1, <1>5 DEF CheckClient, At, InFlight
<2> QED
    BY <1>3, <1>4, <2>1
<1>6. CASE CheckPending(r)
<2>1. /\ r \in InFlight /\ call[r].step = "pending" /\ UNCHANGED <<conversation, order, met>>
      /\ End(r) \/ (Goto(r, "pick") /\ ~AlreadyPending(call[r].client))
    BY <1>1, <1>6 DEF CheckPending, At, InFlight
<2> QED
    BY <1>3, <1>4, <2>1
<1>7. CASE Pick(r)
<2>1. /\ r \in InFlight /\ call[r].step = "pick" /\ UNCHANGED <<conversation, order, met>>
      /\ Made' = Made /\ call[r] \in Call
    BY <1>1, <1>7 DEF Pick, At, InFlight, Made
<2>2. ASSUME NEW x \in LeastLoaded, call' = [call EXCEPT ![r].with = x, ![r].step = "find"]
      PROVE  LeavesToOthers /\ KeepsClients
<3> DEFINE loc == [step |-> "find", client |-> call[r].client, with |-> x, held |-> call[r].held]
<3>1. call' = [call EXCEPT ![r] = loc]
    BY <1>1, <2>1, <2>2 DEF Call
<3>2. loc.step = "find" /\ loc.client = call[r].client
    OBVIOUS
<3> HIDE DEF loc
<3> QED
    BY <2>1, <3>1, <3>2, MoveLeaves
<2> QED
    BY <1>3, <1>7, <2>1, <2>2, PickInv DEF Pick
<1>8. CASE SendMessage(r)
<2>1. /\ r \in InFlight /\ call[r].step = "message" /\ UNCHANGED <<conversation, order, met>>
      /\ End(r) \/ Goto(r, "save")
    BY <1>1, <1>8 DEF SendMessage, At, InFlight
<2> QED
    BY <1>3, <1>4, <2>1
<1>9. CASE Save(r)
    BY <1>1, <1>3, <1>9 DEF Save, At, InFlight
<1> QED
    BY <1>2, <1>5, <1>6, <1>7, <1>8, <1>9 DEF CreateStep

-----------------------------------------------------------------------------
(* The invariant of the requests and of the decisions. *)

\* The conversation of a stored request: it cannot be the duplicate of a call
\* that did not overlap with the creation.
KeepsItsConversation(r) ==
    LET c == request[r].conversation IN
    /\ At(r, "done")
    /\ c = Nobody => met[r] \cap Opens # {} /\ r \notin Made
    /\ c # Nobody => /\ conversation[c] = Complete(request[r].director)
                     /\ c \in InFlight => c \in met[r]
                     /\ c # r => r \notin Made

GivenBackByFailure(r) == \E d \in Decisions : decision[d].about = r /\ InStage(d, "failed")

\* A pending request that a creation did not see is of a call it overlaps
\* with, or was given back by a failed ban.
MissedOnlyByOverlap(q) ==
    Past(q) => \A r \in Stored :
        (request[r].client = call[q].client /\ request[r].status = "PENDING") =>
            \/ r \in met[q] /\ q \in met[r]
            \/ GivenBackByFailure(r)

RequestsInv ==
    /\ \A r \in Stored : KeepsItsConversation(r)
    /\ \A q \in Creates : MissedOnlyByOverlap(q)
    /\ TwoPendingNeedOverlap

\* A decision that has claimed its request and has not given it back.
Holding(d) ==
    \/ decision[d].stage \in {"ban", "revert", "inform", "ok"}
    \/ decision[d].stage = "lost" /\ decision[d].applied

DecisionKnows(d) ==
    LET my == decision[d] IN
    /\ my.stage \in {"idle", "refused"} => my.about = Nobody
    /\ my.stage \notin {"idle", "refused"} => my.about \in Stored
    /\ my.applied => my.accept /\ my.stage \in {"revert", "inform", "ok", "lost", "failed"}
    /\ my.stage \in {"ban", "revert"} => my.accept
    /\ my.stage \in {"inform", "ok"} /\ my.accept => my.applied
    /\ Holding(d) =>
            /\ request[my.about].status = IF my.accept THEN "ACCEPTED" ELSE "REJECTED"
            /\ request[my.about].processedBy = my.actor

\* Two decisions never hold the same request.
OneHolder ==
    \A d, e \in Decisions :
        d # e /\ Holding(d) /\ Holding(e) => decision[d].about # decision[e].about

DecisionsInv ==
    /\ \A d \in Decisions : DecisionKnows(d)
    /\ OneHolder
    /\ StatusTellsBan

IInv == TypeOK /\ ConvInv /\ RequestsInv /\ DecisionsInv

\* No request, no ban and no decision at the start.
LEMMA InitInv == Init => IInv
<1> SUFFICES ASSUME Init PROVE IInv
    OBVIOUS
<1> USE NobodyFacts DEF Init
<1>1. ConvInv
    BY ConvInit
<1>2. Stored = {} /\ request \in [Creates -> Maybe(Request)]
    BY DEF Stored, Maybe
<1>3. decision \in [Decisions -> Decision]
    BY DEF Undecided, Decision, Stages, Maybe
<1>4. TypeOK
    BY <1>1, <1>2, <1>3 DEF TypeOK, ConvInv
<1>5. RequestsInv
    BY <1>2 DEF RequestsInv, MissedOnlyByOverlap, TwoPendingNeedOverlap
<1>6. DecisionsInv
    BY <1>2 DEF DecisionsInv, DecisionKnows, Holding, OneHolder, StatusTellsBan, Undecided
<1> QED
    BY <1>1, <1>4, <1>5, <1>6 DEF IInv

-----------------------------------------------------------------------------
(* Steps of the calls. *)

\* The requests keep everything but, some of them, their conversation.
SameVerdicts ==
    /\ Stored' = Stored
    /\ \A r \in Stored :
        /\ request'[r].client = request[r].client
        /\ request'[r].director = request[r].director
        /\ request'[r].status = request[r].status
        /\ request'[r].processedBy = request[r].processedBy

\* ON DELETE SET NULL: a deleted conversation leaves the request, its answer
\* and its client.
LEMMA DetachedFacts ==
    ASSUME request \in [Creates -> Maybe(Request)], request' = Detached
    PROVE  /\ SameVerdicts /\ request' \in [Creates -> Maybe(Request)]
           /\ \A r \in Stored : LET c == request[r].conversation IN
                request'[r].conversation =
                    IF c # Nobody /\ conversation'[c] = Nobody THEN Nobody ELSE c
<1> USE NobodyFacts
<1>1. ASSUME NEW r \in Creates, r \in Stored
      PROVE  /\ request'[r] \in Request
             /\ request'[r].client = request[r].client
             /\ request'[r].director = request[r].director
             /\ request'[r].status = request[r].status
             /\ request'[r].processedBy = request[r].processedBy
             /\ LET c == request[r].conversation IN
                request'[r].conversation =
                    IF c # Nobody /\ conversation'[c] = Nobody THEN Nobody ELSE c
<2>1. request[r] \in Request
    BY <1>1 DEF Stored, Maybe
<2>2. request'[r] =
        IF request[r].conversation # Nobody /\ conversation'[request[r].conversation] = Nobody
        THEN [request[r] EXCEPT !.conversation = Nobody] ELSE request[r]
    BY <1>1 DEF Detached
<2> QED
    BY <2>1, <2>2 DEF Request, Maybe
<1>2. ASSUME NEW r \in Creates, r \notin Stored
      PROVE  request'[r] = Nobody
    BY <1>2 DEF Detached, Stored
<1>3. request' \in [Creates -> Maybe(Request)]
<2>1. request' = [r \in Creates |-> request'[r]]
    BY DEF Detached
<2>2. \A r \in Creates : request'[r] \in Maybe(Request)
    BY <1>1, <1>2 DEF Maybe
<2> QED
    BY <2>1, <2>2
<1>4. Stored' = Stored
    BY <1>1, <1>2 DEF Stored
<1>5. SameVerdicts
    BY <1>1, <1>4 DEF SameVerdicts, Stored
<1> QED
    BY <1>1, <1>3, <1>5 DEF Stored

\* Requests that keep their verdicts suit the decisions.
LEMMA VerdictsInv ==
    ASSUME DecisionsInv, SameVerdicts, UNCHANGED decision
    PROVE  DecisionsInv'
<1> USE DEF DecisionsInv, SameVerdicts
<1>1. \A d \in Decisions : Holding(d) = Holding(d)'
    BY DEF Holding
<1>2. \A d \in Decisions : DecisionKnows(d) => DecisionKnows(d)'
    BY <1>1 DEF DecisionKnows, Holding
<1>3. OneHolder'
    BY <1>1 DEF OneHolder
<1>4. StatusTellsBan'
    BY DEF StatusTellsBan, InStage
<1> QED
    BY <1>2, <1>3, <1>4

\* The step of a call leaves the stored requests as they should be.
LEMMA OldRequestsKept ==
    ASSUME IInv, LeavesToOthers, NEW r \in Stored,
           request'[r].director = request[r].director,
           LET c == request[r].conversation IN
           \/ c = Nobody /\ request'[r].conversation = Nobody
           \/ c # Nobody /\ conversation'[c] # Nobody /\ request'[r].conversation = c
           \/ c # Nobody /\ conversation'[c] = Nobody /\ request'[r].conversation = Nobody
    PROVE  KeepsItsConversation(r)'
<1> USE NobodyFacts
<1> DEFINE c == request[r].conversation
<1>1. /\ r \in Calls /\ request[r] \in Request /\ KeepsItsConversation(r)
      /\ request[r].director \in Directors /\ c \in Maybe(Makers) /\ ~At(r, "idle")
    BY DEF IInv, TypeOK, RequestsInv, Stored, Calls, Maybe, Request, KeepsItsConversation, At
<1>2. /\ At(r, "done")' /\ met[r] \subseteq met'[r]
      /\ (r \notin Made => r \notin Made')
    BY <1>1 DEF LeavesToOthers, KeepsItsConversation, At
<1>3. CASE c = Nobody
    BY <1>1, <1>2, <1>3 DEF KeepsItsConversation
<1>4. CASE c # Nobody
<2>1. /\ c \in Makers /\ conversation[c] = Complete(request[r].director)
      /\ c \in InFlight => c \in met[r]
      /\ c # r => r \notin Made
      /\ conversation[c] # Nobody
    BY <1>1, <1>4 DEF KeepsItsConversation, Maybe, Complete, Conversation
<2>2. CASE conversation'[c] # Nobody
<3>1. conversation'[c] = Complete(request[r].director) /\ (c \in InFlight' => c \in InFlight)
    BY <1>1, <2>1, <2>2 DEF LeavesToOthers
<3> QED
    BY <1>2, <1>4, <2>1, <2>2, <3>1 DEF KeepsItsConversation
<2>3. CASE conversation'[c] = Nobody
<3>1. c \in InFlight /\ c \in Opens
    BY <1>1, <2>1, <2>3 DEF LeavesToOthers, Complete, Conversation
<3>2. c \in met[r] /\ c # r
    BY <2>1, <3>1 DEF Stored
<3> QED
    BY <1>2, <1>4, <2>1, <2>3, <3>1, <3>2 DEF KeepsItsConversation
<2> QED
    BY <2>2, <2>3
<1> QED
    BY <1>3, <1>4

\* ... and the pairs of pending ones explained.
LEMMA OldPendingMeet ==
    ASSUME IInv, LeavesToOthers, KeepsClients, UNCHANGED decision, SameVerdicts
    PROVE  (\A q \in Creates : MissedOnlyByOverlap(q)') /\ TwoPendingNeedOverlap'
<1>1. \A r \in Stored : r \in Calls /\ met[r] \subseteq met'[r]
    BY DEF LeavesToOthers, IInv, RequestsInv, KeepsItsConversation, At, Stored, Calls
<1>2. ASSUME NEW q \in Creates, Past(q)', NEW r \in Stored',
             (request[r].client = call[q].client /\ request[r].status = "PENDING")'
      PROVE  (\/ r \in met[q] /\ q \in met[r]
              \/ GivenBackByFailure(r))'
<2>1. /\ r \in Stored /\ request[r].client = call[q].client /\ request[r].status = "PENDING"
      /\ Past(q)
    BY <1>2 DEF KeepsClients, SameVerdicts, AlreadyPending
<2>2. \/ r \in met[q] /\ q \in met[r]
      \/ GivenBackByFailure(r)
    BY <2>1 DEF IInv, RequestsInv, MissedOnlyByOverlap
<2>3. met[q] \subseteq met'[q]
    BY <2>1 DEF LeavesToOthers, Past, InFlight, At
<2> QED
    BY <1>1, <2>1, <2>2, <2>3 DEF GivenBackByFailure, InStage
<1>3. \A q \in Creates : MissedOnlyByOverlap(q)'
    BY <1>2 DEF MissedOnlyByOverlap
<1>4. TwoPendingNeedOverlap'
    BY <1>1 DEF IInv, RequestsInv, TwoPendingNeedOverlap, SameVerdicts, InStage
<1> QED
    BY <1>3, <1>4

\* What happens to the conversations leaves verdicts and bans alone.
LEMMA ConversationStepInv ==
    ASSUME IInv, NEW m \in Calls, ConversationStep(m)
    PROVE  IInv'
<1>1. ConvInv' /\ LeavesToOthers /\ KeepsClients
    BY ConversationLeaves DEF IInv
<1>2. request' = Detached /\ UNCHANGED <<banned, decision>>
    BY DEF ConversationStep
<1>3. /\ SameVerdicts /\ request' \in [Creates -> Maybe(Request)]
      /\ \A r \in Stored : LET c == request[r].conversation IN
            request'[r].conversation = IF c # Nobody /\ conversation'[c] = Nobody THEN Nobody ELSE c
    BY <1>2, DetachedFacts DEF IInv, TypeOK
<1>4. TypeOK'
    BY <1>1, <1>2, <1>3 DEF IInv, TypeOK, ConvInv
<1>5. \A r \in Stored : KeepsItsConversation(r)'
    BY <1>1, <1>3, OldRequestsKept DEF SameVerdicts
<1>6. (\A q \in Creates : MissedOnlyByOverlap(q)') /\ TwoPendingNeedOverlap'
    BY <1>1, <1>2, <1>3, OldPendingMeet
<1>7. RequestsInv'
    BY <1>3, <1>5, <1>6 DEF RequestsInv, SameVerdicts
<1>8. DecisionsInv'
    BY <1>2, <1>3, VerdictsInv DEF IInv
<1> QED
    BY <1>1, <1>4, <1>7, <1>8 DEF IInv

\* Storing the request.
LEMMA SaveInv ==
    ASSUME IInv, NEW r \in Creates, Save(r), conversation[call[r].held] # Nobody
    PROVE  IInv'
<1> USE NobodyFacts
<1> DEFINE held == call[r].held
           row == [client |-> call[r].client, director |-> call[r].with, status |-> "PENDING",
                   processedBy |-> Nobody, conversation |-> held]
<1>1. ConvInv' /\ LeavesToOthers /\ KeepsClients
    BY CreationLeaves DEF IInv, CreateStep
<1>2. /\ r \in Calls /\ call[r] \in Call /\ call[r].step = "save" /\ r \in InFlight
      /\ CallOK(r) /\ call \in [Calls -> Call] /\ request \in [Creates -> Maybe(Request)]
    BY DEF Save, At, InFlight, Calls, IInv, TypeOK, ConvInv, ConversationsTypeOK
<1>3. /\ request' = [request EXCEPT ![r] = row] /\ End(r)
      /\ UNCHANGED <<conversation, order, met, banned, decision>> /\ Made' = Made
    BY DEF Save, Made
<1>4. /\ call[r].client \in Clients /\ call[r].with \in Directors /\ held \in Makers
      /\ conversation[held] = Complete(call[r].with)
      /\ held # r => r \notin Made
    BY <1>2 DEF CallOK, LocalsSet, HoldsConversation, Made, IInv, TypeOK, ConversationsTypeOK
<1>5. row \in Request /\ row # Nobody
    BY <1>4 DEF Request, Maybe
<1>6. r \notin Stored
    BY <1>2 DEF IInv, RequestsInv, KeepsItsConversation, At
<1>7. /\ request' \in [Creates -> Maybe(Request)] /\ Stored' = Stored \cup {r}
      /\ request'[r] = row /\ \A q \in Stored : request'[q] = request[q] /\ q # r
    BY <1>2, <1>3, <1>5, <1>6 DEF Stored, Maybe
<1>8. /\ call'[r].step = "done" /\ \A q \in Calls : q # r => call'[q] = call[q]
      /\ InFlight' = InFlight \ {r}
    BY <1>2, <1>3 DEF End, Ready, InFlight
<1>9. row.client = call[r].client /\ row.director = call[r].with /\ row.conversation = held
      /\ row.status = "PENDING"
    OBVIOUS
<1> HIDE DEF row
<1>10. TypeOK'
    BY <1>1, <1>3, <1>7 DEF IInv, TypeOK, ConvInv
<1>11. ASSUME NEW q \in Stored' PROVE KeepsItsConversation(q)'
<2>1. CASE q = r
<3>1. held \in InFlight' => held \in met[r]
    BY <1>2, <1>8 DEF IInv, ConvInv, FlightsMeet
<3> QED
    BY <1>3, <1>4, <1>7, <1>8, <1>9, <2>1, <3>1 DEF KeepsItsConversation, At
<2>2. CASE q \in Stored
<3>1. LET c == request[q].conversation IN
           \/ c = Nobody /\ request'[q].conversation = Nobody
           \/ c # Nobody /\ conversation'[c] # Nobody /\ request'[q].conversation = c
           \/ c # Nobody /\ conversation'[c] = Nobody /\ request'[q].conversation = Nobody
<4>1. KeepsItsConversation(q) /\ request[q] \in Request
    BY <1>2, <2>2 DEF IInv, RequestsInv, Stored, Maybe
<4> QED
    BY <1>3, <1>7, <2>2, <4>1 DEF KeepsItsConversation, Complete, Conversation, Request, Maybe
<3> QED
    BY <1>1, <1>7, <2>2, <3>1, OldRequestsKept
<2> QED
    BY <1>7, <2>1, <2>2
<1>12. ASSUME NEW q \in Creates, Past(q)', NEW s \in Stored',
             (request[s].client = call[q].client /\ request[s].status = "PENDING")'
      PROVE  (\/ s \in met[q] /\ q \in met[s]
              \/ GivenBackByFailure(s))'
<2>1. q \in InFlight /\ q # r /\ q \in Calls /\ call'[q] = call[q] /\ Past(q)
    BY <1>8, <1>12 DEF Past, InFlight
<2>2. CASE s = r
    BY <1>2, <1>3, <2>1, <2>2 DEF IInv, ConvInv, FlightsMeet
<2>3. CASE s \in Stored
<3>1. request[s].client = call[q].client /\ request[s].status = "PENDING"
    BY <1>7, <1>12, <2>1, <2>3
<3> QED
    BY <1>3, <2>1, <2>3, <3>1
       DEF IInv, RequestsInv, MissedOnlyByOverlap, GivenBackByFailure, InStage
<2> QED
    BY <1>7, <2>2, <2>3
<1>13. TwoPendingNeedOverlap'
<2> SUFFICES ASSUME NEW s \in Stored', NEW q \in Stored', s # q,
                    (request[s].client = request[q].client)',
                    (request[s].status = "PENDING")', (request[q].status = "PENDING")'
             PROVE  (\/ s \in met[q]
                     \/ \E d \in Decisions : decision[d].about \in {s, q} /\ InStage(d, "failed"))'
    BY DEF TwoPendingNeedOverlap
<2>1. CASE s \in Stored /\ q \in Stored
<3>1. /\ request[s].client = request[q].client
      /\ request[s].status = "PENDING" /\ request[q].status = "PENDING"
    BY <1>7, <2>1
<3> QED
    BY <1>3, <2>1, <3>1 DEF IInv, RequestsInv, TwoPendingNeedOverlap, InStage
<2>2. Past(r)
    BY <1>2 DEF Past
<2>3. \A p \in Stored : (request[p].client = call[r].client /\ request[p].status = "PENDING") =>
            (p \in met[r] /\ r \in met[p]) \/ GivenBackByFailure(p)
    BY <2>2 DEF IInv, RequestsInv, MissedOnlyByOverlap
<2>4. CASE s = r /\ q \in Stored
    BY <1>3, <1>7, <1>9, <2>3, <2>4 DEF GivenBackByFailure, InStage
<2>5. CASE q = r /\ s \in Stored
    BY <1>3, <1>7, <1>9, <2>3, <2>5 DEF GivenBackByFailure, InStage
<2> QED
    BY <1>7, <2>1, <2>4, <2>5
<1>14. RequestsInv'
    BY <1>11, <1>12, <1>13 DEF RequestsInv, MissedOnlyByOverlap
<1>15. DecisionsInv'
<2>1. DecisionsInv
    BY DEF IInv
<2>2. \A d \in Decisions : decision[d].about # r
    BY <1>6, <2>1 DEF DecisionsInv, DecisionKnows
<2>3. \A d \in Decisions : Holding(d)' = Holding(d)
    BY <1>3 DEF Holding
<2>4. ASSUME NEW d \in Decisions PROVE DecisionKnows(d)'
<3>1. Holding(d) => decision[d].about \in Stored
    BY <2>1 DEF DecisionsInv, DecisionKnows, Holding
<3> QED
    BY <1>3, <1>7, <2>1, <2>3, <3>1 DEF DecisionsInv, DecisionKnows
<2>5. OneHolder'
    BY <1>3, <2>1, <2>3 DEF DecisionsInv, OneHolder
<2>6. StatusTellsBan'
    BY <1>3, <1>7, <1>9, <2>1, <2>2 DEF DecisionsInv, StatusTellsBan, InStage
<2> QED
    BY <2>4, <2>5, <2>6 DEF DecisionsInv
<1> QED
    BY <1>1, <1>10, <1>14, <1>15 DEF IInv

\* Creating a ban request leaves the answers of the others alone.
LEMMA CreateStepInv ==
    ASSUME IInv, NEW r \in Creates, CreateStep(r)
    PROVE  IInv'
<1>1. CASE Save(r) /\ conversation[call[r].held] # Nobody
    BY <1>1, SaveInv
<1>2. CASE ~(Save(r) /\ conversation[call[r].held] # Nobody)
<2>1. UNCHANGED <<banned, request, decision>>
    BY <1>2 DEF CreateStep, Ask, CheckClient, CheckPending, Pick, SendMessage, Save
<2>2. ConvInv' /\ LeavesToOthers /\ KeepsClients
    BY CreationLeaves DEF IInv
<2>3. SameVerdicts
    BY <2>1 DEF SameVerdicts, Stored
<2>4. TypeOK'
    BY <2>1, <2>2 DEF IInv, TypeOK, ConvInv
<2>5. ASSUME NEW q \in Stored PROVE KeepsItsConversation(q)'
<3>1. conversation' = conversation
    BY <1>2, <2>1, <2>5 DEF CreateStep, Ask, Begin, CheckClient, CheckPending, Pick, SendMessage, Save
<3>2. KeepsItsConversation(q) /\ request[q] \in Request
    BY DEF IInv, TypeOK, RequestsInv, Stored, Maybe
<3>3. request[q].conversation # Nobody => conversation[request[q].conversation] # Nobody
    BY <3>2, NobodyFacts DEF KeepsItsConversation, Complete, Conversation, Request
<3> QED
    BY <2>1, <2>2, <3>1, <3>3, OldRequestsKept
<2>6. (\A q \in Creates : MissedOnlyByOverlap(q)') /\ TwoPendingNeedOverlap'
    BY <2>1, <2>2, <2>3, OldPendingMeet
<2>7. RequestsInv'
    BY <2>3, <2>5, <2>6 DEF RequestsInv, SameVerdicts
<2>8. DecisionsInv'
    BY <2>1, <2>3, VerdictsInv DEF IInv
<2> QED
    BY <2>2, <2>4, <2>7, <2>8 DEF IInv
<1> QED
    BY <1>1, <1>2

-----------------------------------------------------------------------------
(* Steps of the decisions. *)

\* A step of a decision leaves the calls alone.
LEMMA CallsKept ==
    ASSUME IInv, UNCHANGED convVars
    PROVE  ConvInv' /\ ConversationsTypeOK'
<1>1. InFlight' = InFlight /\ Made' = Made
    BY DEF convVars, InFlight, Made
<1>2. \A m \in Calls : CallOK(m) => CallOK(m)'
    BY <1>1 DEF convVars, CallOK, LocalsSet, HoldsConversation, CreatesKnowing, At
<1>3. MadeOnce' /\ FlightsMeet' /\ MakersMeet' /\ SecondsMeet'
    BY <1>1 DEF convVars, IInv, ConvInv, MadeOnce, FlightsMeet, MakersMeet, SecondsMeet, Rivals
<1> QED
    BY <1>2, <1>3 DEF convVars, IInv, ConvInv, ConversationsTypeOK

\* The requests stay explained when none becomes pending but by a failed ban
\* and their clients, directors and conversations are left alone.
LEMMA RequestsKept ==
    ASSUME IInv, UNCHANGED convVars, Stored' = Stored,
           \A r \in Stored :
              /\ request'[r].client = request[r].client
              /\ request'[r].director = request[r].director
              /\ request'[r].conversation = request[r].conversation
              /\ request'[r].status = "PENDING" =>
                    request[r].status = "PENDING" \/ GivenBackByFailure(r)',
           \A d \in Decisions : InStage(d, "failed") => decision'[d] = decision[d]
    PROVE  RequestsInv'
<1>1. \A r \in Stored : GivenBackByFailure(r) => GivenBackByFailure(r)'
    BY DEF GivenBackByFailure, InStage
<1>2. \A r \in Stored : KeepsItsConversation(r)'
    BY DEF IInv, RequestsInv, KeepsItsConversation, convVars, At, Made, InFlight
<1>3. \A q \in Creates : MissedOnlyByOverlap(q)'
    BY <1>1 DEF IInv, RequestsInv, MissedOnlyByOverlap, convVars, Past, InFlight
<1>4. TwoPendingNeedOverlap'
<2> SUFFICES ASSUME NEW r \in Stored, NEW q \in Stored, r # q,
                    request[r].client = request[q].client,
                    request'[r].status = "PENDING", request'[q].status = "PENDING"
             PROVE  r \in met[q] \/ GivenBackByFailure(r)' \/ GivenBackByFailure(q)'
    BY DEF TwoPendingNeedOverlap, GivenBackByFailure, convVars, InStage
<2>1. CASE request[r].status = "PENDING" /\ request[q].status = "PENDING"
<3>1. r \in met[q] \/ GivenBackByFailure(r) \/ GivenBackByFailure(q)
    BY <2>1 DEF IInv, RequestsInv, TwoPendingNeedOverlap, GivenBackByFailure
<3> QED
    BY <1>1, <3>1
<2> QED
    BY <2>1
<1> QED
    BY <1>2, <1>3, <1>4 DEF RequestsInv

\* A decision goes on without touching the requests.
LEMMA DecisionMoves ==
    ASSUME IInv, NEW d \in Decisions, NEW new \in Decision,
           decision' = [decision EXCEPT ![d] = new],
           UNCHANGED <<convVars, request>>, banned' \subseteq Users,
           ~InStage(d, "failed"), DecisionKnows(d)', new.stage # "failed",
           Holding(d)' => Holding(d) /\ new.about = decision[d].about,
           (\/ decision[d].accept /\ decision[d].applied
            \/ decision[d].accept /\ decision[d].stage \in {"ban", "revert", "lost"}) =>
              /\ new.about = decision[d].about /\ new.accept
              /\ new.applied \/ new.stage \in {"ban", "revert", "lost"}
    PROVE  IInv'
<1>1. /\ decision \in [Decisions -> Decision]
      /\ \A e \in Decisions : decision'[e] = IF e = d THEN new ELSE decision[e]
    BY DEF IInv, TypeOK
<1>2. ConvInv' /\ ConversationsTypeOK'
    BY CallsKept
<1>3. Stored' = Stored
    BY DEF Stored
<1>4. TypeOK'
    BY <1>2 DEF IInv, TypeOK
<1>5. \A e \in Decisions : InStage(e, "failed") => decision'[e] = decision[e]
    BY <1>1 DEF InStage
<1>6. RequestsInv'
    BY <1>3, <1>5, RequestsKept
<1>7. \A e \in Decisions : e # d => (Holding(e)' <=> Holding(e))
    BY <1>1 DEF Holding
<1>8. ASSUME NEW e \in Decisions PROVE DecisionKnows(e)'
<2>1. CASE e # d
    BY <1>1, <1>3, <1>7, <2>1 DEF IInv, DecisionsInv, DecisionKnows
<2> QED
    BY <2>1
<1>9. OneHolder'
    BY <1>1, <1>7 DEF IInv, DecisionsInv, OneHolder
<1>10. ASSUME NEW r \in Stored, request[r].status = "ACCEPTED"
       PROVE  \E e \in Decisions :
                /\ decision'[e].about = r /\ decision'[e].accept
                /\ decision'[e].applied \/ decision'[e].stage \in {"ban", "revert", "lost"}
<2>1. PICK e \in Decisions :
                /\ decision[e].about = r /\ decision[e].accept
                /\ decision[e].applied \/ decision[e].stage \in {"ban", "revert", "lost"}
    BY <1>10 DEF IInv, DecisionsInv, StatusTellsBan
<2> QED
    BY <1>1, <2>1
<1>11. ASSUME NEW r \in Stored, request[r].status # "ACCEPTED",
              NEW e \in Decisions, decision'[e].about = r, decision'[e].applied
       PROVE  decision'[e].stage = "failed"
<2>1. CASE e = d
    BY <1>1, <1>11, <2>1 DEF DecisionKnows, Holding
<2>2. CASE e # d
    BY <1>1, <1>11, <2>2 DEF IInv, DecisionsInv, StatusTellsBan, InStage
<2> QED
    BY <2>1, <2>2
<1>12. StatusTellsBan'
    BY <1>3, <1>10, <1>11 DEF StatusTellsBan, InStage
<1> QED
    BY <1>2, <1>4, <1>6, <1>8, <1>9, <1>12 DEF IInv, DecisionsInv

\* The types of a decision, and what it knows of the request it is about.
LEMMA DecisionFacts ==
    ASSUME IInv, NEW d \in Decisions
    PROVE  /\ decision[d] \in Decision /\ decision \in [Decisions -> Decision]
           /\ DecisionKnows(d) /\ banned \subseteq Users
           /\ \A r \in Stored : r \in Creates /\ request[r] \in Request
           /\ request \in [Creates -> Maybe(Request)]
    BY DEF IInv, TypeOK, DecisionsInv, Stored, Maybe

\* The same, when only the stage is another.
LEMMA StageMoves ==
    ASSUME IInv, NEW d \in Decisions, NEW s \in Stages, Proceed(d, s),
           UNCHANGED <<convVars, banned, request>>,
           \/ decision[d].stage = "ban" /\ s = "revert"
           \/ decision[d].stage = "inform" /\ s = "ok"
           \/ decision[d].stage \in {"claim", "ban", "revert", "inform"} /\ s = "lost"
    PROVE  IInv'
<1> DEFINE new == [decision[d] EXCEPT !.stage = s]
<1>1. /\ decision[d] \in Decision /\ decision \in [Decisions -> Decision] /\ DecisionKnows(d)
      /\ banned \subseteq Users
    BY DecisionFacts
<1>2. /\ new \in Decision /\ new.stage = s /\ new.about = decision[d].about
      /\ new.actor = decision[d].actor /\ new.accept = decision[d].accept
      /\ new.applied = decision[d].applied
    BY <1>1 DEF Decision
<1>3. decision' = [decision EXCEPT ![d] = new]
    BY DEF Proceed
<1> HIDE DEF new
<1>4. decision'[d] = new /\ Stored' = Stored
    BY <1>1, <1>3 DEF Stored
<1>5. Holding(d)' => Holding(d)
    BY <1>1, <1>2, <1>4 DEF Holding, DecisionKnows
<1>6. DecisionKnows(d)'
    BY <1>1, <1>2, <1>4, <1>5 DEF DecisionKnows
<1>7. ~InStage(d, "failed") /\ new.stage # "failed"
    BY <1>2 DEF InStage
<1>8. (\/ decision[d].accept /\ decision[d].applied
       \/ decision[d].accept /\ decision[d].stage \in {"ban", "revert", "lost"}) =>
              /\ new.about = decision[d].about /\ new.accept
              /\ new.applied \/ new.stage \in {"ban", "revert", "lost"}
    BY <1>2
<1> QED
    BY <1>1, <1>2, <1>3, <1>5, <1>6, <1>7, <1>8, DecisionMoves

\* A director takes up a request that is stored.
LEMMA DecideInv ==
    ASSUME IInv, NEW d \in Decisions, Decide(d)
    PROVE  IInv'
<1> USE NobodyFacts
<1>1. /\ decision[d] \in Decision /\ decision \in [Decisions -> Decision] /\ DecisionKnows(d)
      /\ banned \subseteq Users /\ decision[d].stage = "idle" /\ \A r \in Stored : r \in Creates
    BY DecisionFacts DEF Decide, InStage
<1>2. PICK r \in Stored, x \in Directors \ banned, yes \in BOOLEAN :
            decision' = [decision EXCEPT ![d] =
                [stage |-> "claim", about |-> r, actor |-> x, accept |-> yes, applied |-> FALSE]]
    BY DEF Decide
<1> DEFINE new == [stage |-> "claim", about |-> r, actor |-> x, accept |-> yes, applied |-> FALSE]
<1>3. new \in Decision
    BY <1>1 DEF Decision, Stages, Maybe
<1>4. decision'[d] = new /\ UNCHANGED <<convVars, banned, request>> /\ Stored' = Stored
    BY <1>1, <1>2 DEF Decide, Stored
<1>5. DecisionKnows(d)' /\ ~Holding(d)'
    BY <1>4 DEF DecisionKnows, Holding
<1>6. ~decision[d].applied /\ ~InStage(d, "failed")
    BY <1>1 DEF DecisionKnows, InStage
<1> QED
    BY <1>1, <1>2, <1>3, <1>4, <1>5, <1>6, DecisionMoves

\* The account is banned by whom holds the claim, and only for a request
\* accepted.
LEMMA BanInv ==
    ASSUME IInv, NEW d \in Decisions, Ban(d)
    PROVE  IInv'
<1>1. /\ decision[d] \in Decision /\ decision \in [Decisions -> Decision] /\ DecisionKnows(d)
      /\ banned \subseteq Users /\ decision[d].stage = "ban"
      /\ \A r \in Stored : request[r] \in Request
    BY DecisionFacts DEF Ban, InStage
<1>2. PICK s \in {"inform", "revert"} :
            decision' = [decision EXCEPT ![d].stage = s, ![d].applied = TRUE]
    BY DEF Ban
<1> DEFINE new == decision'[d]
<1>3. /\ new \in Decision /\ decision' = [decision EXCEPT ![d] = new]
      /\ new.stage = s /\ new.about = decision[d].about /\ new.actor = decision[d].actor
      /\ new.accept = decision[d].accept /\ new.applied = TRUE
    BY <1>1, <1>2 DEF Decision, Stages
<1>4. UNCHANGED <<convVars, request>> /\ Stored' = Stored
    BY DEF Ban, Stored
<1>5. banned' \subseteq Users
<2>1. decision[d].about \in Stored
    BY <1>1 DEF DecisionKnows
<2> QED
    BY <1>1, <2>1 DEF Ban, ClientOf, Request, Users
<1>6. DecisionKnows(d)' /\ Holding(d) /\ decision[d].accept
    BY <1>1, <1>3, <1>4 DEF DecisionKnows, Holding
<1> QED
    BY <1>1, <1>3, <1>4, <1>5, <1>6, DecisionMoves DEF InStage

\* A claim that comes too late.
LEMMA RefusedInv ==
    ASSUME IInv, NEW d \in Decisions, InStage(d, "claim"),
           decision' = [decision EXCEPT ![d] = Undecided("refused")],
           UNCHANGED <<convVars, banned, request>>
    PROVE  IInv'
<1>1. /\ decision[d] \in Decision /\ decision \in [Decisions -> Decision] /\ DecisionKnows(d)
      /\ banned \subseteq Users /\ decision[d].stage = "claim"
    BY DecisionFacts DEF InStage
<1> DEFINE new == Undecided("refused")
<1>2. new \in Decision /\ new.stage = "refused" /\ ~new.applied /\ new.about = Nobody
    BY DEF Undecided, Decision, Stages, Maybe
<1> HIDE DEF new
<1>3. decision'[d] = new
    BY <1>1 DEF new
<1>4. DecisionKnows(d)' /\ ~Holding(d)' /\ ~decision[d].applied
    BY <1>1, <1>2, <1>3 DEF DecisionKnows, Holding
<1> QED
    BY <1>1, <1>2, <1>4, DecisionMoves DEF InStage, new

\* A claim that finds its request pending.
LEMMA ClaimedInv ==
    ASSUME IInv, NEW d \in Decisions, Claim(d),
           Claimable(decision[d].about, decision[d].actor)
    PROVE  IInv'
<1> USE NobodyFacts
<1> DEFINE r == decision[d].about
           yes == decision[d].accept
           verdict == IF yes THEN "ACCEPTED" ELSE "REJECTED"
           s == IF yes THEN "ban" ELSE "inform"
           row == [request[r] EXCEPT !.status = verdict, !.processedBy = decision[d].actor]
           new == [decision[d] EXCEPT !.stage = s]
<1>1. /\ decision[d] \in Decision /\ decision \in [Decisions -> Decision] /\ DecisionKnows(d)
      /\ decision[d].stage = "claim" /\ request \in [Creates -> Maybe(Request)]
    BY DecisionFacts DEF Claim, InStage
<1>2. r \in Stored /\ r \in Creates /\ request[r] \in Request /\ request[r].status = "PENDING"
      /\ ~decision[d].applied
    BY <1>1, DecisionFacts DEF DecisionKnows, Claimable
<1>3. decision[d].actor \in Directors
    BY <1>2 DEF Claimable, Request
<1>4. /\ request' = [request EXCEPT ![r].status = verdict, ![r].processedBy = decision[d].actor]
      /\ decision' = [decision EXCEPT ![d].stage = s] /\ UNCHANGED <<convVars, banned>>
    BY DEF Claim, Proceed
<1>5. /\ request'[r] \in Request /\ request'[r].status = verdict
      /\ request'[r].processedBy = decision[d].actor
      /\ request'[r].client = request[r].client /\ request'[r].director = request[r].director
      /\ request'[r].conversation = request[r].conversation
      /\ request' \in [Creates -> Maybe(Request)]
      /\ \A q \in Creates : q # r => request'[q] = request[q]
    BY <1>1, <1>2, <1>3, <1>4 DEF Request, Maybe
<1>6. /\ decision'[d].stage = s /\ decision'[d].about = r /\ decision'[d].accept = yes
      /\ decision'[d].actor = decision[d].actor /\ decision'[d].applied = decision[d].applied
      /\ decision' \in [Decisions -> Decision]
      /\ \A e \in Decisions : e # d => decision'[e] = decision[e]
    BY <1>1, <1>4 DEF Decision, Stages
<1>7. Stored' = Stored
    BY <1>2, <1>5 DEF Stored
<1>8. ConvInv' /\ ConversationsTypeOK'
    BY <1>4, CallsKept
<1>9. TypeOK'
    BY <1>4, <1>5, <1>6, <1>8 DEF IInv, TypeOK
<1>10. RequestsInv'
<2>1. \A e \in Decisions : InStage(e, "failed") => decision'[e] = decision[e]
    BY <1>1, <1>6 DEF InStage
<2>2. \A q \in Stored :
              /\ request'[q].client = request[q].client
              /\ request'[q].director = request[q].director
              /\ request'[q].conversation = request[q].conversation
              /\ request'[q].status = "PENDING" => request[q].status = "PENDING"
    BY <1>2, <1>5 DEF Stored
<2> QED
    BY <1>4, <1>7, <2>1, <2>2, RequestsKept
<1>11. \A e \in Decisions : e # d => /\ Holding(e)' <=> Holding(e)
                                     /\ Holding(e) => decision[e].about # r
    BY <1>2, <1>6 DEF Holding, IInv, DecisionsInv, DecisionKnows
<1>12. ASSUME NEW e \in Decisions PROVE DecisionKnows(e)'
<2>1. CASE e = d
    BY <1>1, <1>2, <1>5, <1>6, <1>7, <2>1 DEF DecisionKnows, Holding
<2>2. CASE e # d
<3>1. DecisionKnows(e) /\ decision[e] \in Decision
    BY <1>1 DEF IInv, DecisionsInv
<3>2. Holding(e)' => request'[decision[e].about] = request[decision[e].about]
    BY <1>5, <1>11, <2>2, <3>1 DEF Holding, DecisionKnows, Stored
<3> QED
    BY <1>6, <1>7, <1>11, <2>2, <3>1, <3>2 DEF DecisionKnows
<2> QED
    BY <2>1, <2>2
<1>13. OneHolder'
    BY <1>6, <1>11 DEF IInv, DecisionsInv, OneHolder
<1>14. ASSUME NEW q \in Stored, request'[q].status = "ACCEPTED"
       PROVE  \E e \in Decisions :
                /\ decision'[e].about = q /\ decision'[e].accept
                /\ decision'[e].applied \/ decision'[e].stage \in {"ban", "revert", "lost"}
<2>1. CASE q = r
    BY <1>5, <1>6, <1>14, <2>1
<2>2. CASE q # r
<3>1. PICK e \in Decisions :
                /\ decision[e].about = q /\ decision[e].accept
                /\ decision[e].applied \/ decision[e].stage \in {"ban", "revert", "lost"}
    BY <1>5, <1>14, <2>2 DEF IInv, DecisionsInv, StatusTellsBan, Stored
<3> QED
    BY <1>6, <2>2, <3>1
<2> QED
    BY <2>1, <2>2
<1>15. ASSUME NEW q \in Stored, request'[q].status # "ACCEPTED",
              NEW e \in Decisions, decision'[e].about = q, decision'[e].applied
       PROVE  decision'[e].stage = "failed"
<2>1. e # d
    BY <1>2, <1>6, <1>15
<2>2. decision'[e] = decision[e]
    BY <1>6, <2>1
<2>3. request[q].status # "ACCEPTED"
    BY <1>2, <1>5, <1>15 DEF Stored
<2> QED
    BY <1>15, <2>2, <2>3 DEF IInv, DecisionsInv, StatusTellsBan, InStage
<1>16. StatusTellsBan'
    BY <1>7, <1>14, <1>15 DEF StatusTellsBan, InStage
<1> QED
    BY <1>8, <1>9, <1>10, <1>12, <1>13, <1>16 DEF IInv, DecisionsInv

\* A claim is given back only by who holds it, when the ban was not written.
LEMMA RevertInv ==
    ASSUME IInv, NEW d \in Decisions, Revert(d)
    PROVE  IInv'
<1> USE NobodyFacts
<1> DEFINE r == decision[d].about
<1>1. /\ decision[d] \in Decision /\ decision \in [Decisions -> Decision] /\ DecisionKnows(d)
      /\ decision[d].stage = "revert" /\ request \in [Creates -> Maybe(Request)]
    BY DecisionFacts DEF Revert, InStage
<1>2. r \in Stored /\ r \in Creates /\ request[r] \in Request /\ Holding(d) /\ decision[d].accept
    BY <1>1, DecisionFacts DEF DecisionKnows, Holding
<1>3. /\ request' = [request EXCEPT ![r] = GivenBack(request[r])]
      /\ decision' = [decision EXCEPT ![d].stage = "failed"] /\ UNCHANGED <<convVars, banned>>
    BY DEF Revert, Proceed
<1>4. /\ GivenBack(request[r]) \in Request /\ GivenBack(request[r]).status = "PENDING"
      /\ GivenBack(request[r]).client = request[r].client
      /\ GivenBack(request[r]).director = request[r].director
      /\ GivenBack(request[r]).conversation = request[r].conversation
    BY <1>2 DEF GivenBack, Request, Maybe
<1>5. /\ request'[r] = GivenBack(request[r]) /\ request' \in [Creates -> Maybe(Request)]
      /\ \A q \in Creates : q # r => request'[q] = request[q]
    BY <1>1, <1>2, <1>3, <1>4 DEF Maybe
<1>6. /\ decision'[d].stage = "failed" /\ decision'[d].about = r /\ decision'[d].accept
      /\ decision'[d].applied = decision[d].applied
      /\ decision' \in [Decisions -> Decision]
      /\ \A e \in Decisions : e # d => decision'[e] = decision[e]
    BY <1>1, <1>2, <1>3 DEF Decision, Stages
<1>7. Stored' = Stored
    BY <1>2, <1>4, <1>5 DEF Stored
<1>8. ConvInv' /\ ConversationsTypeOK'
    BY <1>3, CallsKept
<1>9. TypeOK'
    BY <1>3, <1>5, <1>6, <1>8 DEF IInv, TypeOK
<1>10. RequestsInv'
<2>1. \A e \in Decisions : InStage(e, "failed") => decision'[e] = decision[e]
    BY <1>1, <1>6 DEF InStage
<2>2. GivenBackByFailure(r)'
    BY <1>6 DEF GivenBackByFailure, InStage
<2>3. \A q \in Stored :
              /\ request'[q].client = request[q].client
              /\ request'[q].director = request[q].director
              /\ request'[q].conversation = request[q].conversation
              /\ request'[q].status = "PENDING" =>
                    request[q].status = "PENDING" \/ GivenBackByFailure(q)'
    BY <1>4, <1>5, <1>6, <2>2 DEF Stored
<2> QED
    BY <1>3, <1>7, <2>1, <2>3, RequestsKept
<1>11. \A e \in Decisions : e # d => /\ Holding(e)' <=> Holding(e)
                                     /\ Holding(e) => decision[e].about # r
    BY <1>2, <1>6 DEF Holding, IInv, DecisionsInv, OneHolder
<1>12. ~Holding(d)'
    BY <1>6 DEF Holding
<1>13. ASSUME NEW e \in Decisions PROVE DecisionKnows(e)'
<2>1. CASE e = d
    BY <1>2, <1>6, <1>7, <1>12, <2>1 DEF DecisionKnows
<2>2. CASE e # d
<3>1. DecisionKnows(e) /\ decision[e] \in Decision
    BY <1>1 DEF IInv, DecisionsInv
<3>2. Holding(e)' => request'[decision[e].about] = request[decision[e].about]
    BY <1>5, <1>11, <2>2, <3>1 DEF Holding, DecisionKnows, Stored
<3> QED
    BY <1>6, <1>7, <1>11, <2>2, <3>1, <3>2 DEF DecisionKnows
<2> QED
    BY <2>1, <2>2
<1>14. OneHolder'
    BY <1>6, <1>11, <1>12 DEF IInv, DecisionsInv, OneHolder
<1>15. ASSUME NEW q \in Stored, request'[q].status = "ACCEPTED"
       PROVE  \E e \in Decisions :
                /\ decision'[e].about = q /\ decision'[e].accept
                /\ decision'[e].applied \/ decision'[e].stage \in {"ban", "revert", "lost"}
<2>1. q # r /\ request'[q] = request[q]
    BY <1>4, <1>5, <1>15 DEF Stored
<2>2. PICK e \in Decisions :
                /\ decision[e].about = q /\ decision[e].accept
                /\ decision[e].applied \/ decision[e].stage \in {"ban", "revert", "lost"}
    BY <1>15, <2>1 DEF IInv, DecisionsInv, StatusTellsBan
<2> QED
    BY <1>6, <2>1, <2>2
<1>16. ASSUME NEW q \in Stored, request'[q].status # "ACCEPTED",
              NEW e \in Decisions, decision'[e].about = q, decision'[e].applied,
              decision'[e].stage # "failed"
       PROVE  FALSE
<2>1. e # d /\ decision'[e] = decision[e]
    BY <1>6, <1>16
<2>2. DecisionKnows(e)
    BY DEF IInv, DecisionsInv
<2>3. Holding(e)
    BY <1>16, <2>1, <2>2 DEF Holding, DecisionKnows
<2>4. q # r /\ request'[q] = request[q]
    BY <1>5, <1>11, <1>16, <2>1, <2>3 DEF Stored
<2> QED
    BY <1>16, <2>1, <2>4 DEF IInv, DecisionsInv, StatusTellsBan, InStage
<1>17. StatusTellsBan'
    BY <1>7, <1>15, <1>16 DEF StatusTellsBan, InStage
<1> QED
    BY <1>8, <1>9, <1>10, <1>13, <1>14, <1>17 DEF IInv, DecisionsInv

\* Every step keeps the invariant.
LEMMA NextInv == IInv /\ [Next]_vars => IInv'
<1> SUFFICES ASSUME IInv, [Next]_vars PROVE IInv'
    OBVIOUS
<1>1. ASSUME NEW r \in Creates, CreateStep(r) PROVE IInv'
    BY <1>1, CreateStepInv
<1>2. ASSUME NEW m \in Calls, ConversationStep(m) PROVE IInv'
    BY <1>2, ConversationStepInv
<1>3. ASSUME NEW d \in Decisions, DecisionStep(d) PROVE IInv'
<2>1. CASE Decide(d)
    BY <2>1, DecideInv
<2>2. CASE Claim(d)
<3>1. CASE Claimable(decision[d].about, decision[d].actor)
    BY <2>2, <3>1, ClaimedInv
<3>2. CASE ~Claimable(decision[d].about, decision[d].actor)
    BY <2>2, <3>2, RefusedInv DEF Claim
<3> QED
    BY <3>1, <3>2
<2>3. CASE Ban(d)
    BY <2>3, BanInv
<2>4. CASE BanFails(d)
<3>1. "revert" \in Stages
    BY DEF Stages
<3> QED
    BY <2>4, <3>1, StageMoves DEF BanFails, InStage
<2>5. CASE Revert(d)
    BY <2>5, RevertInv
<2>6. CASE Inform(d)
<3>1. "ok" \in Stages
    BY DEF Stages
<3> QED
    BY <2>6, <3>1, StageMoves DEF Inform, InStage
<2>7. CASE CutOff(d)
<3>1. "lost" \in Stages
    BY DEF Stages
<3> QED
    BY <2>7, <3>1, StageMoves DEF CutOff
<2> QED
    BY <1>3, <2>1, <2>2, <2>3, <2>4, <2>5, <2>6, <2>7 DEF DecisionStep
<1>4. ASSUME UNCHANGED <<convVars, request, decision>>, banned' \subseteq Users
      PROVE  IInv'
<2>1. ConvInv' /\ ConversationsTypeOK' /\ Stored' = Stored
    BY <1>4, CallsKept DEF Stored
<2>2. TypeOK'
    BY <1>4, <2>1 DEF IInv, TypeOK
<2>3. RequestsInv'
    BY <1>4, <2>1, RequestsKept
<2>4. SameVerdicts
    BY <1>4, <2>1 DEF SameVerdicts
<2>5. DecisionsInv'
    BY <1>4, <2>4, VerdictsInv DEF IInv
<2> QED
    BY <2>1, <2>2, <2>3, <2>5 DEF IInv
<1>5. CASE Staff
<2>1. banned' \subseteq Users
    BY <1>5, BanRequestsAssumption DEF Staff, IInv, TypeOK
<2> QED
    BY <1>4, <1>5, <2>1 DEF Staff
<1>6. CASE UNCHANGED vars
    BY <1>4, <1>6 DEF vars, IInv, TypeOK
<1> QED
    BY <1>1, <1>2, <1>3, <1>5, <1>6 DEF Next

\* The conversations, the requests and the decisions keep the inductive
\* invariant.
THEOREM Invariant == Spec => []IInv
    BY InitInv, NextInv, PTL DEF Spec

-----------------------------------------------------------------------------

\* The tables and the local variables keep their shape, an answered decision
\* stands and status and ban agree (decide): the claim is exclusive, and only
\* who holds it writes the ban or gives the request back.
THEOREM DecisionsStand == Spec => []DecisionsHold
<1>1. IInv => DecisionsHold
<2> SUFFICES ASSUME IInv PROVE DecisionsHold
    OBVIOUS
<2>1. TypeOK /\ StatusTellsBan
    BY DEF IInv, DecisionsInv
<2>2. AnsweredDecisionStands
<3> SUFFICES ASSUME NEW d \in Decisions, InStage(d, "ok")
             PROVE  LET row == request[decision[d].about] IN
                    /\ row.status = IF decision[d].accept THEN "ACCEPTED" ELSE "REJECTED"
                    /\ row.processedBy = decision[d].actor
    BY DEF AnsweredDecisionStands
<3>1. DecisionKnows(d) /\ Holding(d)
    BY DEF IInv, DecisionsInv, Holding, InStage
<3> QED
    BY <3>1 DEF DecisionKnows
<2> QED
    BY <2>1, <2>2 DEF DecisionsHold
<1> QED
    BY <1>1, Invariant, PTL

\* Two requests about one client are pending only when their creations
\* overlapped, the check being outside the advisory lock, or when a failed ban
\* gave one of them back (create, decide).
THEOREM PendingOverlap == Spec => []TwoPendingNeedOverlap
<1>1. IInv => TwoPendingNeedOverlap
    BY DEF IInv, RequestsInv
<1> QED
    BY <1>1, Invariant, PTL

\* Only overlapping calls give a pair a second conversation, and the
\* conversation a request was filed in is taken away only when the call that
\* made it overlapped with the creation (openOrFind, create, execute).
THEOREM ConversationsKept == Spec => []ConversationsHold
<1>1. IInv => ConversationsHold
<2> SUFFICES ASSUME IInv PROVE ConversationsHold
    OBVIOUS
<2>1. SecondNeedsOverlap
<3> SUFFICES ASSUME NEW i \in DOMAIN order, NEW j \in DOMAIN order, i < j,
                    NEW d \in Directors, {i, j} \subseteq Between(d)
             PROVE  order[i] \in met[order[j]]
    BY DEF SecondNeedsOverlap
<3>1. conversation[order[i]] = Complete(d) /\ conversation[order[j]] = Complete(d)
    BY DEF Between, Complete
<3>2. Complete(d) # Nobody /\ Complete(d).joined = 2
    BY NobodyFacts DEF Complete, Conversation
<3> QED
    BY <3>1, <3>2 DEF IInv, ConvInv, SecondsMeet, Rivals
<2>2. RequestKeepsConversation
<3>1. \A r \in Stored : KeepsItsConversation(r)
    BY DEF IInv, RequestsInv
<3> QED
    BY <3>1 DEF RequestKeepsConversation, KeepsItsConversation, Made, Complete
<2> QED
    BY <2>1, <2>2 DEF ConversationsHold
<1> QED
    BY <1>1, Invariant, PTL
=============================================================================
