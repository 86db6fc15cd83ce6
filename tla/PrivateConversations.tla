------------------------ MODULE PrivateConversations ------------------------
(***************************************************************************)
(* The private conversations of one advisor with the directors.  Two paths  *)
(* open them: OpenPrivateConversationUseCase, which looks for a conversation *)
(* again after it has made one and gives up its own for an older one, and    *)
(* BanRequestsService.openConversation, which does not look again.           *)
(*                                                                         *)
(* A conversation is named by the call that made it.  It can be found once   *)
(* both its members are in; order is the order of created_at.  Whether a     *)
(* user hides it is left out, so that unhiding only needs the row to exist.  *)
(***************************************************************************)
EXTENDS Naturals, Sequences, FiniteSetsExt

CONSTANTS Opens,      \* calls of OpenPrivateConversationUseCase
          Creates,    \* calls of BanRequestsService.create
          Directors,
          Clients,
          Seed,       \* who made the conversation that exists at the start
          Nobody      \* null

Calls == Opens \cup Creates
Makers == Calls \cup {Seed}
Users == Directors \cup Clients
Maybe(S) == S \cup {Nobody}

Conversation == [with : Directors, joined : 0..2]

ASSUME ConversationsAssumption ==
    /\ Opens \cap Creates = {} /\ Seed \notin Calls
    /\ Directors \cap Clients = {}
    /\ Nobody \notin Makers \cup Users \cup Conversation

VARIABLES
    conversation, \* conversation[m]: the row m made
    order,        \* who made a conversation, in the order of created_at
    call,         \* the local variables of a call: its next statement, the
                  \* client and the director it is about, the conversation it holds
    met           \* auxiliary: the calls it overlapped with

convVars == <<conversation, order, call, met>>

Steps == {"idle", "admit", "client", "pending", "pick", "find", "unhide", "create", "join",
          "canonical", "delete", "message", "save", "done"}
Call == [step : Steps, client : Maybe(Clients), with : Maybe(Directors), held : Maybe(Makers)]

Ready(s) == [step |-> s, client |-> Nobody, with |-> Nobody, held |-> Nobody]
At(m, s) == call[m].step = s
Goto(m, s) == call' = [call EXCEPT ![m].step = s]
End(m) == call' = [call EXCEPT ![m] = Ready("done")]
InFlight == {m \in Calls : call[m].step \notin {"idle", "done"}}

ConversationsInit ==
    /\ \E d \in Directors :
            conversation \in [Makers -> {Nobody, [with |-> d, joined |-> 2]}]
    /\ \A m \in Calls : conversation[m] = Nobody
    /\ order = <<Seed>>
    /\ call = [m \in Calls |-> Ready("idle")]
    /\ met = [m \in Calls |-> {}]

\* A call begins; it overlaps with every call under way.
Begin(m, locals) ==
    /\ At(m, "idle")
    /\ call' = [call EXCEPT ![m] = locals]
    /\ met' = [q \in Calls |->
            IF q = m THEN InFlight ELSE IF q \in InFlight THEN met[q] \cup {m} ELSE met[q]]
    /\ UNCHANGED <<conversation, order>>

-----------------------------------------------------------------------------
(* The tables conversations and conversation_participants. *)

Between(d) == {i \in DOMAIN order : conversation[order[i]] = [with |-> d, joined |-> 2]}

\* Mutant: the lookup never meets a conversation.
FindPrivateBetweenNone(d) == Nobody

\* The oldest private conversation both are members of.
FindPrivateBetween(d) == IF Between(d) = {} THEN Nobody ELSE order[Min(Between(d))]

Find(m) ==
    /\ At(m, "find")
    /\ LET c == FindPrivateBetween(call[m].with) IN
        call' = [call EXCEPT ![m].held = c, ![m].step = IF c = Nobody THEN "create" ELSE "unhide"]
    /\ UNCHANGED <<conversation, order, met>>

NewConversation(d) == [with |-> d, joined |-> 0]

Create(m) ==
    /\ At(m, "create")
    /\ conversation' = [conversation EXCEPT ![m] = NewConversation(call[m].with)]
    /\ order' = Append(order, m)
    /\ call' = [call EXCEPT ![m].held = m, ![m].step = "join"]
    /\ UNCHANGED met

\* addParticipantIfNotExists, for one member and then for the other.
Join(m) ==
    /\ At(m, "join")
    /\ conversation' = [conversation EXCEPT ![m].joined = @ + 1]
    /\ IF conversation[m].joined = 0
       THEN UNCHANGED call
       ELSE Goto(m, IF m \in Opens THEN "canonical" ELSE "message")
    /\ UNCHANGED <<order, met>>

\* setHidden(..., false): the foreign key refuses a conversation that is gone.
\* The chat unhides for the requester and ends, the ban request unhides for both.
Unhide(m) ==
    /\ At(m, "unhide")
    /\ IF m \in Opens \/ conversation[call[m].held] = Nobody THEN End(m) ELSE Goto(m, "message")
    /\ UNCHANGED <<conversation, order, met>>

-----------------------------------------------------------------------------
(* OpenPrivateConversationUseCase. *)

Open(o) ==
    /\ o \in Opens
    /\ \E d \in Directors : Begin(o, [Ready("admit") EXCEPT !.with = d])

\* A banned target and a user who may not be contacted are refused.
Admit(o) ==
    /\ At(o, "admit")
    /\ Goto(o, "find") \/ End(o)
    /\ UNCHANGED <<conversation, order, met>>

\* Having made one, look again for the oldest.
Canonical(o) ==
    /\ At(o, "canonical")
    /\ LET c == FindPrivateBetween(call[o].with) IN
        IF c \in {o, Nobody}
        THEN End(o)
        ELSE call' = [call EXCEPT ![o].held = c, ![o].step = "delete"]
    /\ UNCHANGED <<conversation, order, met>>

Duplicate(o) == o

Delete(o) ==
    /\ At(o, "delete")
    /\ conversation' = [conversation EXCEPT ![Duplicate(o)] = Nobody]
    /\ Goto(o, "unhide")
    /\ UNCHANGED <<order, met>>

\* A statement fails, or the replica dies.
Fails(m) ==
    /\ m \in InFlight
    /\ End(m)
    /\ UNCHANGED <<conversation, order, met>>

-----------------------------------------------------------------------------

(* The shape of the conversations and of the local variables.                *)
ConversationsTypeOK ==
    /\ conversation \in [Makers -> Maybe(Conversation)]
    /\ order \in Seq(Makers)
    /\ call \in [Calls -> Call]
    /\ met \in [Calls -> SUBSET Calls]

(* findPrivateBetween sees every finished conversation, so a pair gets a     *)
(* second one only from calls that were under way together.                  *)
SecondNeedsOverlap ==
    \A i, j \in DOMAIN order :
        (i < j /\ \E d \in Directors : {i, j} \subseteq Between(d)) => order[i] \in met[order[j]]
=============================================================================
