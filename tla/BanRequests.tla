---------------------------- MODULE BanRequests ----------------------------
(***************************************************************************)
(* An advisor asks the directors to ban clients (ban-requests.service.ts).  *)
(* create() chooses the director with the fewest pending requests, opens    *)
(* the private conversation with him, sends a message and stores the        *)
(* request; only the choice runs in a transaction, under an advisory lock.   *)
(* decide() claims the request with one conditional UPDATE, bans the client  *)
(* and gives the request back when the ban fails.                           *)
(*                                                                         *)
(* The advisor also opens conversations with the directors from the chat     *)
(* (PrivateConversations), and staff ban and unban users.                    *)
(***************************************************************************)
EXTENDS PrivateConversations

CONSTANTS Decisions, \* calls of BanRequestsService.decide
          Bannable,  \* bound: whom staff ban and unban directly
          MaxCalls   \* bound: how many calls of all kinds are made

Request == [client : Clients, director : Directors, status : {"PENDING", "ACCEPTED", "REJECTED"},
            processedBy : Maybe(Directors), conversation : Maybe(Makers)]

ASSUME BanRequestsAssumption ==
    Bannable \subseteq Users /\ MaxCalls \in Nat /\ Nobody \notin Request

VARIABLES
    banned,   \* users.is_banned
    request,  \* request[r]: the row of ban_requests that creation r stored
    decision  \* the local variables of a decision: its next statement, its
              \* request, who decides and how, whether it has written the ban

vars == <<convVars, banned, request, decision>>

Stages == {"idle", "claim", "ban", "revert", "inform", "ok", "refused", "failed", "lost"}
Decision == [stage : Stages, about : Maybe(Creates), actor : Maybe(Directors),
             accept : BOOLEAN, applied : BOOLEAN]
Undecided(s) ==
    [stage |-> s, about |-> Nobody, actor |-> Nobody, accept |-> FALSE, applied |-> FALSE]

Init ==
    /\ ConversationsInit
    /\ banned = {}
    /\ request = [r \in Creates |-> Nobody]
    /\ decision = [d \in Decisions |-> Undecided("idle")]

Stored == {r \in Creates : request[r] # Nobody}
Pending(x) == {r \in Stored : request[r].status = "PENDING" /\ request[r].director = x}

Room ==
    Cardinality({m \in Calls : ~At(m, "idle")} \cup {d \in Decisions : decision[d].stage # "idle"})
        < MaxCalls

-----------------------------------------------------------------------------
(* create *)

Ask(r) ==
    /\ Room
    /\ \E c \in Clients : Begin(r, [Ready("client") EXCEPT !.client = c])
    /\ UNCHANGED <<banned, request, decision>>

\* The client is the advisor's own and not banned.
CheckClient(r) ==
    /\ At(r, "client")
    /\ \/ call[r].client \notin banned /\ Goto(r, "pending")
       \/ End(r)
    /\ UNCHANGED <<conversation, order, met, banned, request, decision>>

\* Mutant: only a request that was accepted counts.
AlreadyPendingAccepted(c) ==
    \E r \in Stored : request[r].client = c /\ request[r].status = "ACCEPTED"

AlreadyPending(c) ==
    \E r \in Stored : request[r].client = c /\ request[r].status = "PENDING"

CheckPending(r) ==
    /\ At(r, "pending")
    /\ IF AlreadyPending(call[r].client) THEN End(r) ELSE Goto(r, "pick")
    /\ UNCHANGED <<conversation, order, met, banned, request, decision>>

LeastLoaded ==
    {x \in Directors \ banned :
        \A y \in Directors \ banned : Cardinality(Pending(x)) <= Cardinality(Pending(y))}

\* pickAssignedDirector: its transaction, and with it the advisory lock, ends here.
Pick(r) ==
    /\ At(r, "pick")
    /\ \/ LeastLoaded = {} /\ End(r)
       \/ \E x \in LeastLoaded : call' = [call EXCEPT ![r].with = x, ![r].step = "find"]
    /\ UNCHANGED <<conversation, order, met, banned, request, decision>>

\* SendMessageUseCase: the message, then the director's notification; when that
\* fails the creation ends, with the message sent.
SendMessage(r) ==
    /\ At(r, "message")
    /\ IF conversation[call[r].held] = Nobody THEN End(r) ELSE Goto(r, "save")
    /\ UNCHANGED <<conversation, order, met, banned, request, decision>>

\* The foreign keys refuse a conversation and a message deleted meanwhile.
Save(r) ==
    /\ At(r, "save")
    /\ request' =
            IF conversation[call[r].held] = Nobody THEN request
            ELSE [request EXCEPT ![r] =
                    [client |-> call[r].client, director |-> call[r].with, status |-> "PENDING",
                     processedBy |-> Nobody, conversation |-> call[r].held]]
    /\ End(r)
    /\ UNCHANGED <<conversation, order, met, banned, decision>>

CreateStep(r) ==
    \/ Ask(r)
    \/ CheckClient(r)
    \/ CheckPending(r)
    \/ Pick(r)
    \/ SendMessage(r)
    \/ Save(r)

-----------------------------------------------------------------------------
(* The conversation, for creations and for the chat. *)

\* ON DELETE SET NULL on ban_requests.conversation_id.
Detached ==
    [r \in Creates |->
        IF r \in Stored /\ request[r].conversation # Nobody
           /\ conversation'[request[r].conversation] = Nobody
        THEN [request[r] EXCEPT !.conversation = Nobody]
        ELSE request[r]]

ConversationStep(m) ==
    /\ \/ Room /\ Open(m)
       \/ Admit(m)
       \/ Find(m)
       \/ Create(m)
       \/ Join(m)
       \/ Unhide(m)
       \/ Canonical(m)
       \/ Delete(m)
       \/ Fails(m)
    /\ request' = Detached
    /\ UNCHANGED <<banned, decision>>

-----------------------------------------------------------------------------
(* decide *)

InStage(d, s) == decision[d].stage = s
Proceed(d, s) == decision' = [decision EXCEPT ![d].stage = s]
ClientOf(d) == request[decision[d].about].client

\* RolesGuard lets in a director who is not banned; he decides on any id.
Decide(d) ==
    /\ InStage(d, "idle") /\ Room
    /\ \E r \in Stored, x \in Directors \ banned, yes \in BOOLEAN :
            decision' = [decision EXCEPT ![d] =
                [stage |-> "claim", about |-> r, actor |-> x, accept |-> yes, applied |-> FALSE]]
    /\ UNCHANGED <<convVars, banned, request>>

\* Mutant: the UPDATE has no condition on the status.
ClaimableAnyStatus(r, x) == request[r].director = x

Claimable(r, x) == request[r].status = "PENDING" /\ request[r].director = x

Claim(d) ==
    /\ InStage(d, "claim")
    /\ LET r == decision[d].about
           yes == decision[d].accept IN
        IF Claimable(r, decision[d].actor)
        THEN /\ request' = [request EXCEPT ![r].status = IF yes THEN "ACCEPTED" ELSE "REJECTED",
                                           ![r].processedBy = decision[d].actor]
             /\ Proceed(d, IF yes THEN "ban" ELSE "inform")
        ELSE /\ decision' = [decision EXCEPT ![d] = Undecided("refused")]
             /\ UNCHANGED request
    /\ UNCHANGED <<convVars, banned>>

\* BanUserUseCase: the row of the client is written, and either its sockets
\* are closed or an error comes back all the same.
Ban(d) ==
    /\ InStage(d, "ban")
    /\ banned' = banned \cup {ClientOf(d)}
    /\ \E s \in {"inform", "revert"} :
            decision' = [decision EXCEPT ![d].stage = s, ![d].applied = TRUE]
    /\ UNCHANGED <<convVars, request>>

\* BanUserUseCase throws before the row is written.
BanFails(d) ==
    /\ InStage(d, "ban")
    /\ Proceed(d, "revert")
    /\ UNCHANGED <<convVars, banned, request>>

GivenBack(row) == [row EXCEPT !.status = "PENDING", !.processedBy = Nobody]

Revert(d) ==
    /\ InStage(d, "revert")
    /\ request' = [request EXCEPT ![decision[d].about] = GivenBack(@)]
    /\ Proceed(d, "failed")
    /\ UNCHANGED <<convVars, banned>>

\* The advisor is informed, best effort.
Inform(d) ==
    /\ InStage(d, "inform")
    /\ Proceed(d, "ok")
    /\ UNCHANGED <<convVars, banned, request>>

\* The claim or the revert fails, or the replica dies.
CutOff(d) ==
    /\ decision[d].stage \in {"claim", "ban", "revert", "inform"}
    /\ Proceed(d, "lost")
    /\ UNCHANGED <<convVars, banned, request>>

DecisionStep(d) ==
    \/ Decide(d)
    \/ Claim(d)
    \/ Ban(d)
    \/ BanFails(d)
    \/ Revert(d)
    \/ Inform(d)
    \/ CutOff(d)

\* UsersController.ban and unban.
Staff ==
    /\ \E u \in Bannable : banned' = IF u \in banned THEN banned \ {u} ELSE banned \cup {u}
    /\ UNCHANGED <<convVars, request, decision>>

Next ==
    \/ \E r \in Creates : CreateStep(r)
    \/ \E m \in Calls : ConversationStep(m)
    \/ \E d \in Decisions : DecisionStep(d)
    \/ Staff

Spec == Init /\ [][Next]_vars

-----------------------------------------------------------------------------
(* Properties. *)

(* The shape of the tables and of the local variables of the calls.          *)
TypeOK ==
    /\ ConversationsTypeOK
    /\ banned \subseteq Users
    /\ request \in [Creates -> Maybe(Request)]
    /\ decision \in [Decisions -> Decision]

(* A decision that was answered stands: no later decision and no reverted    *)
(* one changes the status or who decided.                                    *)
AnsweredDecisionStands ==
    \A d \in Decisions : InStage(d, "ok") =>
        LET row == request[decision[d].about] IN
        /\ row.status = IF decision[d].accept THEN "ACCEPTED" ELSE "REJECTED"
        /\ row.processedBy = decision[d].actor

(* Status and ban agree, unless a decision was cut off or its ban failed     *)
(* after it was written: an accepted request has been applied or is being    *)
(* applied, and a request that is not accepted has not been applied.         *)
StatusTellsBan ==
    \A r \in Stored :
        LET On == {d \in Decisions : decision[d].about = r} IN
        IF request[r].status = "ACCEPTED"
        THEN \E d \in On :
                /\ decision[d].accept
                /\ decision[d].applied \/ decision[d].stage \in {"ban", "revert", "lost"}
        ELSE \A d \in On : decision[d].applied => InStage(d, "failed")

(* Two requests about one client are pending only when their creations were  *)
(* under way together, or when a failed ban gave one of them back.           *)
TwoPendingNeedOverlap ==
    \A r, q \in Stored :
        (/\ r # q /\ request[r].client = request[q].client
         /\ request[r].status = "PENDING" /\ request[q].status = "PENDING")
        => \/ r \in met[q]
           \/ \E d \in Decisions : decision[d].about \in {r, q} /\ InStage(d, "failed")

(* A stored request keeps the conversation its director finds it in, unless  *)
(* it was filed in one that a call of the chat had made and was about to     *)
(* give up; a conversation made for a request is never given up.             *)
RequestKeepsConversation ==
    \A r \in Stored :
        IF request[r].conversation = Nobody
        THEN met[r] \cap Opens # {} /\ \A i \in DOMAIN order : order[i] # r
        ELSE conversation[request[r].conversation] = [with |-> request[r].director, joined |-> 2]

(* What was decided holds: a decision once answered, and the ban it gives or *)
(* refuses (decide).                                                         *)
DecisionsHold == TypeOK /\ AnsweredDecisionStands /\ StatusTellsBan

(* Only overlapping calls give an advisor a second conversation with a       *)
(* director, and none takes away the one a request was filed in              *)
(* (openOrFind, create).                                                     *)
ConversationsHold == SecondNeedsOverlap /\ RequestKeepsConversation
=============================================================================
