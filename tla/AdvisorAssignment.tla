------------------------- MODULE AdvisorAssignment -------------------------
(***************************************************************************)
(* Who advises a client: the row of advisor_clients, written by the          *)
(* onboarding of a client (assignAdvisor and link) and by a director's       *)
(* reassignment (AdvisorReassignmentService.reassign, whose transaction is   *)
(* AdvisorClientRepository.replaceAdvisor), while advisors are banned or     *)
(* deleted.                                                                  *)
(*                                                                         *)
(* PostgreSQL runs the transactions at READ COMMITTED: every statement has   *)
(* its own snapshot, and a statement that waited for a locked row looks at   *)
(* that row again but not for rows that were inserted meanwhile.  A          *)
(* statement that can wait is therefore two steps here, what it sees and     *)
(* what it does.  The unique index on client_id makes an INSERT wait for     *)
(* the transaction that inserts or deletes a row of the same client.         *)
(***************************************************************************)
EXTENDS Naturals, FiniteSets

CONSTANTS Clients,
          Advisors,
          Requests, \* executions of reassign and of assignAdvisor
          Nobody,   \* null: no row, no advisor, no transaction
          Seed,     \* the writer of the rows that exist at the start
          First,    \* the advisor of each client at the start, or Nobody
          Others,   \* clients of each advisor besides Clients
          Kinds,    \* what the requests do, a subset of {"reassign", "onboard"}
          Leaving   \* the advisors somebody may delete

Row == [by : Requests \cup {Seed}, advisor : Advisors]
Request == [kind : Kinds, client : Clients, advisor : Advisors]

ASSUME AssignmentAssumption ==
    /\ Nobody \notin Advisors \cup Requests \cup Row \cup Request
    /\ Seed \notin Requests
    /\ First \in [Clients -> Advisors \cup {Nobody}]
    /\ Others \in [Advisors -> Nat]
    /\ Leaving \subseteq Advisors

VARIABLES
    staff,     \* the advisors that exist
    banned,    \* the advisors with is_banned
    link,      \* the committed row of advisor_clients of each client
    lock,      \* the transaction that locked or deleted that row
    inserting, \* the transaction with an uncommitted row for the client
    history,   \* advisor_client_history
    hidden,    \* pairs <<client, advisor>> whose private conversation is hidden for both
    told,      \* pairs <<request, person>> notified by a reassignment
    req,       \* what each request asks for
    pc,        \* its next step
    seen,      \* the row its current statement saw in its snapshot
    old,       \* its local oldAdvisorId
    removed,   \* its transaction deleted the committed row
    candidates \* the advisors it listed

rowVars == <<link, lock, inserting, history>>
effects == <<hidden, told>>
locals == <<seen, old, removed, candidates>>
vars == <<staff, banned, rowVars, effects, req, pc, locals>>

Maybe(S) == S \cup {Nobody}
Audit == [by : Requests, client : Clients, old : Maybe(Advisors), new : Advisors]
Transaction == {"scan", "lock", "scanDelete", "delete", "insert", "commit"}
Effects == {"hide", "tellClient", "tellNew", "tellOld"}
Assigning == {"find", "list", "count", "link", "winner"}
Stages == {"idle", "validate", "done"} \cup Transaction \cup Effects \cup Assigning

Client(r) == req[r].client
Chosen(r) == req[r].advisor
AdvisorOf(c) == IF link[c] = Nobody THEN Nobody ELSE link[c].advisor
NewRow(r) == [by |-> r, advisor |-> Chosen(r)]

At(r, stage) == pc[r] = stage
Goto(r, stage) == pc' = [pc EXCEPT ![r] = stage]

-----------------------------------------------------------------------------

Init ==
    /\ staff = Advisors
    /\ banned = {}
    /\ link = [c \in Clients |-> IF First[c] = Nobody THEN Nobody
                                 ELSE [by |-> Seed, advisor |-> First[c]]]
    /\ lock = [c \in Clients |-> Nobody]
    /\ inserting = [c \in Clients |-> Nobody]
    /\ history = {}
    /\ hidden = {}
    /\ told = {}
    /\ req = [r \in Requests |-> Nobody]
    /\ pc = [r \in Requests |-> "idle"]
    /\ seen = [r \in Requests |-> Nobody]
    /\ old = [r \in Requests |-> Nobody]
    /\ removed = [r \in Requests |-> FALSE]
    /\ candidates = [r \in Requests |-> {}]

Submit(r) ==
    /\ At(r, "idle")
    /\ \E q \in Request :
        /\ req' = [req EXCEPT ![r] = q]
        /\ Goto(r, IF q.kind = "reassign" THEN "validate" ELSE "find")
    /\ UNCHANGED <<staff, banned, rowVars, effects, locals>>

-----------------------------------------------------------------------------
(* AdvisorReassignmentService.reassign: validation, outside the transaction. *)

MayReceiveClients(a) == a \in staff \ banned

Validate(r) ==
    /\ At(r, "validate")
    /\ Goto(r, IF MayReceiveClients(Chosen(r)) THEN "scan" ELSE "done")
    /\ UNCHANGED <<staff, banned, rowVars, effects, req, locals>>

(* replaceAdvisor, SELECT ... FOR UPDATE: the snapshot, then the lock. *)

Gone(r) == seen[r] # link[Client(r)]
Mine(r) == lock[Client(r)] \in {Nobody, r}
Waits(r) == seen[r] # Nobody /\ ~Gone(r) /\ ~Mine(r)

Scan(r) ==
    /\ At(r, "scan")
    /\ seen' = [seen EXCEPT ![r] = link[Client(r)]]
    /\ Goto(r, "lock")
    /\ UNCHANGED <<staff, banned, rowVars, effects, req, old, removed, candidates>>

\* Mutant: the current advisor is read without FOR UPDATE.
TakeLockNever(r) == lock

TakeLock(r) == [lock EXCEPT ![Client(r)] = r]

\* Mutant: the same advisor again returns without ending the transaction.
LockLinkUnended(r) ==
    /\ At(r, "lock")
    /\ ~Waits(r)
    /\ seen[r] # Nobody /\ ~Gone(r)
    /\ old' = [old EXCEPT ![r] = seen[r].advisor]
    /\ lock' = TakeLock(r)
    /\ Goto(r, IF seen[r].advisor = Chosen(r) THEN "done" ELSE "scanDelete")
    /\ UNCHANGED <<staff, banned, link, inserting, history, effects, req, seen, removed, candidates>>

\* The row is found and locked; the same advisor again rolls back.
LockLink(r) ==
    /\ At(r, "lock")
    /\ ~Waits(r)
    /\ seen[r] # Nobody /\ ~Gone(r)
    /\ old' = [old EXCEPT ![r] = seen[r].advisor]
    /\ IF seen[r].advisor = Chosen(r)
       THEN Goto(r, "done") /\ UNCHANGED lock
       ELSE Goto(r, "scanDelete") /\ lock' = TakeLock(r)
    /\ UNCHANGED <<staff, banned, link, inserting, history, effects, req, seen, removed, candidates>>

\* No row in the snapshot, or the one it saw was deleted while it waited.
LockNothing(r) ==
    /\ At(r, "lock")
    /\ seen[r] = Nobody \/ Gone(r)
    /\ old' = [old EXCEPT ![r] = Nobody]
    /\ Goto(r, "scanDelete")
    /\ UNCHANGED <<staff, banned, rowVars, effects, req, seen, removed, candidates>>

(* DELETE FROM advisor_clients WHERE client_id = ... *)

ScanDelete(r) ==
    /\ At(r, "scanDelete")
    /\ seen' = [seen EXCEPT ![r] = link[Client(r)]]
    /\ Goto(r, "delete")
    /\ UNCHANGED <<staff, banned, rowVars, effects, req, old, removed, candidates>>

Delete(r) ==
    /\ At(r, "delete")
    /\ ~Waits(r)
    /\ IF seen[r] = Nobody \/ Gone(r)
       THEN UNCHANGED <<lock, removed>>
       ELSE /\ lock' = [lock EXCEPT ![Client(r)] = r]
            /\ removed' = [removed EXCEPT ![r] = TRUE]
    /\ Goto(r, "insert")
    /\ UNCHANGED <<staff, banned, link, inserting, history, effects, req, seen, old, candidates>>

(* INSERT under the unique index and the foreign key. *)

\* The row of the client that another transaction has in hand.
InsertWaits(r) ==
    LET c == Client(r) IN
    \/ inserting[c] \notin {Nobody, r}
    \/ link[c] # Nobody /\ lock[c] \notin {Nobody, r} /\ removed[lock[c]]

Conflict(r) == link[Client(r)] # Nobody /\ ~removed[r]

Release(r) ==
    /\ lock' = [c \in Clients |-> IF lock[c] = r THEN Nobody ELSE lock[c]]
    /\ inserting' = [c \in Clients |-> IF inserting[c] = r THEN Nobody ELSE inserting[c]]
    /\ removed' = [removed EXCEPT ![r] = FALSE]

Insert(r) ==
    /\ At(r, "insert")
    /\ ~InsertWaits(r)
    /\ ~Conflict(r) /\ Chosen(r) \in staff
    /\ inserting' = [inserting EXCEPT ![Client(r)] = r]
    /\ Goto(r, "commit")
    /\ UNCHANGED <<staff, banned, link, lock, history, effects, req, locals>>

\* Unique or foreign key violation: the transaction rolls back, 500.
InsertRefused(r) ==
    /\ At(r, "insert")
    /\ ~InsertWaits(r)
    /\ Conflict(r) \/ Chosen(r) \notin staff
    /\ Release(r)
    /\ Goto(r, "done")
    /\ UNCHANGED <<staff, banned, link, history, effects, req, seen, old, candidates>>

\* Mutant: the audit row is forgotten.
AuditedNothing(r) == history

Audited(r) ==
    history \cup {[by |-> r, client |-> Client(r), old |-> old[r], new |-> Chosen(r)]}

\* The audit row and the commit.
Commit(r) ==
    /\ At(r, "commit")
    /\ link' = [link EXCEPT ![Client(r)] = NewRow(r)]
    /\ history' = Audited(r)
    /\ Release(r)
    /\ Goto(r, "hide")
    /\ UNCHANGED <<staff, banned, effects, req, seen, old, candidates>>

\* The connection or the replica dies inside the transaction.
Rollback(r) ==
    /\ pc[r] \in Transaction
    /\ Release(r)
    /\ Goto(r, "done")
    /\ UNCHANGED <<staff, banned, link, history, effects, req, seen, old, candidates>>

-----------------------------------------------------------------------------
(* applySideEffects: best effort, in this order, the first error ends it. *)

Hide(r) ==
    /\ At(r, "hide")
    /\ hidden' = IF old[r] = Nobody THEN hidden ELSE hidden \cup {<<Client(r), old[r]>>}
    /\ Goto(r, "tellClient")
    /\ UNCHANGED <<staff, banned, rowVars, told, req, locals>>

Tell(r, stage, person, next) ==
    /\ At(r, stage)
    /\ told' = IF person = Nobody THEN told ELSE told \cup {<<r, person>>}
    /\ Goto(r, next)
    /\ UNCHANGED <<staff, banned, rowVars, hidden, req, locals>>

TellClient(r) == Tell(r, "tellClient", Client(r), "tellNew")
TellNew(r) == Tell(r, "tellNew", Chosen(r), "tellOld")
TellOld(r) == Tell(r, "tellOld", old[r], "done")

EffectFails(r) ==
    /\ pc[r] \in Effects
    /\ Goto(r, "done")
    /\ UNCHANGED <<staff, banned, rowVars, effects, req, locals>>

-----------------------------------------------------------------------------
(* InitializeClientUseCase.assignAdvisor. *)

FindAdvisor(r) ==
    /\ At(r, "find")
    /\ Goto(r, IF link[Client(r)] = Nobody THEN "list" ELSE "done")
    /\ UNCHANGED <<staff, banned, rowVars, effects, req, locals>>

Load(a) == Others[a] + Cardinality({c \in Clients : AdvisorOf(c) = a})
LeastLoaded(S) == {a \in S : \A b \in S : Load(a) <= Load(b)}

ListAdvisors(r) ==
    /\ At(r, "list")
    /\ candidates' = [candidates EXCEPT ![r] = {a \in staff : MayReceiveClients(a)}]
    /\ Goto(r, IF candidates'[r] = {} THEN "done" ELSE "count")
    /\ UNCHANGED <<staff, banned, rowVars, effects, req, seen, old, removed>>

\* countByAdvisorIds and pickLeastLoadedId.
ChooseAdvisor(r) ==
    /\ At(r, "count")
    /\ \E a \in LeastLoaded(candidates[r]) : req' = [req EXCEPT ![r].advisor = a]
    /\ Goto(r, "link")
    /\ UNCHANGED <<staff, banned, rowVars, effects, locals>>

\* Mutant: a link that exists is replaced.
LinkConflictIgnored(r) == FALSE

LinkConflict(r) == Conflict(r)

Link(r) ==
    /\ At(r, "link")
    /\ ~InsertWaits(r)
    /\ IF LinkConflict(r) \/ Chosen(r) \notin staff
       THEN Goto(r, "winner") /\ UNCHANGED link
       ELSE Goto(r, "done") /\ link' = [link EXCEPT ![Client(r)] = NewRow(r)]
    /\ UNCHANGED <<staff, banned, lock, inserting, history, effects, req, locals>>

\* The caller that lost the race reads the winner's advisor.
ReadWinner(r) ==
    /\ At(r, "winner")
    /\ old' = [old EXCEPT ![r] = AdvisorOf(Client(r))]
    /\ Goto(r, "done")
    /\ UNCHANGED <<staff, banned, rowVars, effects, req, seen, removed, candidates>>

AssignFails(r) ==
    /\ pc[r] \in Assigning
    /\ Goto(r, IF pc[r] = "link" THEN "winner" ELSE "done")
    /\ UNCHANGED <<staff, banned, rowVars, effects, req, locals>>

-----------------------------------------------------------------------------
(* Other requests on the advisors. *)

Ban(a) ==
    /\ a \in staff \ banned
    /\ banned' = banned \cup {a}
    /\ UNCHANGED <<staff, rowVars, effects, req, pc, locals>>

\* The cascade waits for the row locks, and the foreign key of a row being
\* inserted holds the deletion back.  Audit rows go with the new advisor and
\* forget the old one (ON DELETE CASCADE, ON DELETE SET NULL).
DeleteAdvisor(a) ==
    /\ a \in staff \cap Leaving
    /\ \A c \in Clients :
        /\ AdvisorOf(c) = a => lock[c] = Nobody
        /\ inserting[c] # Nobody => Chosen(inserting[c]) # a
    /\ staff' = staff \ {a}
    /\ link' = [c \in Clients |-> IF AdvisorOf(c) = a THEN Nobody ELSE link[c]]
    /\ history' = {[h EXCEPT !.old = IF @ = a THEN Nobody ELSE @] :
                        h \in {g \in history : g.new # a}}
    /\ UNCHANGED <<banned, lock, inserting, effects, req, pc, locals>>

Reassign(r) ==
    \/ Validate(r)
    \/ Scan(r)
    \/ LockLink(r)
    \/ LockNothing(r)
    \/ ScanDelete(r)
    \/ Delete(r)
    \/ Insert(r)
    \/ InsertRefused(r)
    \/ Commit(r)
    \/ Hide(r)
    \/ TellClient(r)
    \/ TellNew(r)
    \/ TellOld(r)

Assign(r) ==
    \/ FindAdvisor(r)
    \/ ListAdvisors(r)
    \/ ChooseAdvisor(r)
    \/ Link(r)
    \/ ReadWinner(r)

Next ==
    \/ \E r \in Requests :
        \/ Submit(r)
        \/ Reassign(r)
        \/ Assign(r)
        \/ Rollback(r)
        \/ EffectFails(r)
        \/ AssignFails(r)
    \/ \E a \in Advisors : Ban(a) \/ DeleteAdvisor(a)

Spec == Init /\ [][Next]_vars

(* PostgreSQL wakes the statements that wait when a transaction ends, and    *)
(* Node runs every continuation.                                             *)
FairSpec == Spec /\ \A r \in Requests : WF_vars(Reassign(r) \/ Assign(r))

-----------------------------------------------------------------------------
(* Properties. *)

(* The shape of the rows, of the locks and of the local variables.           *)
TypeOK ==
    /\ staff \subseteq Advisors /\ banned \subseteq Advisors
    /\ link \in [Clients -> Maybe(Row)]
    /\ lock \in [Clients -> Maybe(Requests)]
    /\ inserting \in [Clients -> Maybe(Requests)]
    /\ history \subseteq Audit
    /\ hidden \subseteq Clients \X Advisors
    /\ told \subseteq Requests \X (Clients \cup Advisors)
    /\ req \in [Requests -> Maybe(Request)]
    /\ pc \in [Requests -> Stages]
    /\ \A r \in Requests : pc[r] # "idle" => req[r] # Nobody
    /\ seen \in [Requests -> Maybe(Row)]
    /\ old \in [Requests -> Maybe(Advisors)]
    /\ removed \in [Requests -> BOOLEAN]
    /\ candidates \in [Requests -> SUBSET Advisors]

(* Why the audit can be trusted as far as it goes: a transaction that knows  *)
(* the old advisor holds the row until it commits, and one about to commit   *)
(* is alone with the client's index entry.                                   *)
LockHeld == \A c \in Clients :
    lock[c] # Nobody =>
        /\ pc[lock[c]] \in {"scanDelete", "delete", "insert", "commit"}
        /\ Client(lock[c]) = c
        /\ link[c] # Nobody

IndexHeld == \A r \in Requests : \A c \in Clients :
    inserting[c] = r <=> pc[r] = "commit" /\ Client(r) = c

OldAdvisorHeld == \A r \in Requests :
    pc[r] \in {"scanDelete", "delete", "insert", "commit"} /\ old[r] # Nobody =>
        /\ lock[Client(r)] = r
        /\ AdvisorOf(Client(r)) = old[r]
        /\ old[r] # Chosen(r)

RemovedHeld == \A r \in Requests :
    removed[r] => pc[r] \in {"insert", "commit"} /\ lock[Client(r)] = r

ReadyToCommit == \A r \in Requests :
    pc[r] = "commit" => removed[r] \/ link[Client(r)] = Nobody

\* Each audit row is of a request past its commit.
AuditedAfterCommit == \A h \in history : pc[h.by] \in Effects \cup {"done"}

IInv ==
    /\ TypeOK
    /\ LockHeld
    /\ IndexHeld
    /\ OldAdvisorHeld
    /\ RemovedHeld
    /\ ReadyToCommit
    /\ AuditedAfterCommit

NewAudits == {h \in history' : h.by \notin {g.by : g \in history}}

(* The audit never names an advisor the client did not have at the commit,   *)
(* nor a replacement of an advisor by himself, however the reassignments,    *)
(* the onboarding and the deletions overlap.                                 *)
AuditNeverWrong ==
    [][\A h \in NewAudits :
          h.old # Nobody => h.old = AdvisorOf(h.client) /\ h.old # h.new]_vars

(* "un client deja rattache garde son conseiller": only an audited           *)
(* reassignment replaces the row of a client who has one.                    *)
NoSilentReplacement ==
    [][\A c \in Clients :
          link[c] # Nobody /\ link'[c] \notin {link[c], Nobody} =>
              \E h \in NewAudits : h.client = c /\ h.new = link'[c].advisor]_vars

(* "old NULL = premiere attribution" (db/init/00-init.sql) and "deux         *)
(* reattributions concurrentes se serialisent" (AdvisorClientRepository):    *)
(* the audit row of a reassignment names the advisor it replaced.            *)
AuditTruthful == [][\A h \in NewAudits : h.old = AdvisorOf(h.client)]_vars

(* Nobody waits for a row or an index entry forever: the transactions touch  *)
(* one client each, in one order.                                            *)
EveryRequestEnds == \A r \in Requests : (pc[r] # "idle") ~> (pc[r] = "done")
=============================================================================
