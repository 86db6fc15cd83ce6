------------------------- MODULE RegistrationProofs -------------------------
(***************************************************************************)
(* Proofs about the advisor, the dossier and the account of a client, for   *)
(* any number of requests and verification calls.                          *)
(***************************************************************************)
EXTENDS Registration, TLAPS

-----------------------------------------------------------------------------
(* The advisor: the reassignment transaction and its audit. *)

\* The invariant without the types: what the rows, the locks and the
\* transactions have to do with each other.
Held ==
    /\ LockHeld
    /\ IndexHeld
    /\ OldAdvisorHeld
    /\ RemovedHeld
    /\ ReadyToCommit
    /\ AuditedAfterCommit

\* The stages that hold a row or an index entry.
Holding == {"scanDelete", "delete", "insert", "commit"}

\* The invariant is the shape of the variables and what is held at each stage.
LEMMA InvariantParts == IInv <=> TypeOK /\ Held
    BY DEF IInv, Held

\* What a request that started asks for.
LEMMA RequestFacts ==
    ASSUME TypeOK, NEW r \in Requests, pc[r] # "idle"
    PROVE  /\ req[r] \in Request
           /\ Client(r) \in Clients
           /\ Chosen(r) \in Advisors
           /\ NewRow(r) \in Row
<1>1. req[r] \in Request
    BY DEF TypeOK, Maybe
<1>2. Client(r) \in Clients /\ Chosen(r) \in Advisors
    BY <1>1 DEF Request, Client, Chosen
<1> QED
    BY <1>1, <1>2 DEF NewRow, Row

\* A row is not the missing row.
LEMMA RowsExist == Nobody \notin Row
    BY AssignmentAssumption

\* At the start no request holds a lock or waits for one.
LEMMA InitInv == Init => IInv
<1> SUFFICES ASSUME Init PROVE IInv
    OBVIOUS
<1>1. link \in [Clients -> Maybe(Row)]
    BY AssignmentAssumption DEF Init, Maybe, Row
<1>2. TypeOK
    BY <1>1, AssignmentAssumption DEF Init, TypeOK, Maybe, Stages
<1>3. Held
    BY AssignmentAssumption
       DEF Init, Held, LockHeld, IndexHeld, OldAdvisorHeld, RemovedHeld, ReadyToCommit,
           AuditedAfterCommit
<1> QED
    BY <1>2, <1>3, InvariantParts

-----------------------------------------------------------------------------
(* Steps that leave the rows, the locks and the audit alone. *)

\* r moves between stages that hold nothing, or keeps what it has.
Private(r) ==
    /\ UNCHANGED <<link, lock, inserting, history, removed>>
    /\ \A p \in Requests \ {r} :
           pc'[p] = pc[p] /\ req'[p] = req[p] /\ old'[p] = old[p]
    /\ \/ /\ pc[r] \notin Holding /\ pc'[r] \notin Holding
          /\ pc[r] \in Effects => pc'[r] \in Effects \cup {"done"}
          /\ pc[r] # "done"
       \/ /\ pc[r] \in {"scanDelete", "delete"} /\ pc'[r] \in {"delete", "insert"}
          /\ req'[r] = req[r] /\ old'[r] = old[r]

\* A step that only moves its own request on keeps what every request holds.
LEMMA PrivateStep ==
    ASSUME IInv, NEW r \in Requests, Private(r)
    PROVE  Held'
<1>1. TypeOK /\ Held
    BY InvariantParts
<1>2. \A p \in Requests : p # Nobody
    BY AssignmentAssumption
<1>3. LockHeld'
    BY <1>1, <1>2 DEF Held, LockHeld, Private, Holding, Client, TypeOK, Maybe
<1>4. IndexHeld'
    BY <1>1 DEF Held, IndexHeld, Private, Holding, Client
<1>5. OldAdvisorHeld'
    BY <1>1 DEF Held, OldAdvisorHeld, Private, Holding, Client, Chosen, AdvisorOf
<1>6. RemovedHeld'
    BY <1>1 DEF Held, RemovedHeld, Private, Holding, Client
<1>7. ReadyToCommit'
    BY <1>1 DEF Held, ReadyToCommit, Private, Holding, Client
<1>8. AuditedAfterCommit'
    BY <1>1 DEF Held, AuditedAfterCommit, Private, Holding, Effects, TypeOK, Audit
<1> QED
    BY <1>3, <1>4, <1>5, <1>6, <1>7, <1>8 DEF Held

-----------------------------------------------------------------------------
(* The steps that take a row or an index entry, and those that end a         *)
(* transaction. *)

\* Only r's transaction can have the row of r's client locked or deleted.
LEMMA OwnLock ==
    ASSUME TypeOK, Held, NEW r \in Requests, pc[r] \in Transaction, Mine(r)
    PROVE  \A p \in Requests \ {r} : Client(p) = Client(r) => lock[Client(p)] # p /\ ~removed[p]
<1>1. \A p \in Requests \ {r} : Client(p) = Client(r) => lock[Client(p)] # p
    BY AssignmentAssumption DEF Mine
<1> QED
    BY <1>1 DEF Held, RemovedHeld

\* Locking the row a request read gives it the lock and what it read.
LEMMA LockStep ==
    ASSUME IInv, NEW r \in Requests, LockLink(r)
    PROVE  Held'
<1>1. TypeOK /\ Held
    BY InvariantParts
<1>2. pc[r] = "lock" /\ Mine(r) /\ link[Client(r)] = seen[r] /\ seen[r] # Nobody
    BY DEF LockLink, At, Waits, Gone
<1>3. Client(r) \in Clients /\ Chosen(r) \in Advisors
    BY <1>1, <1>2, RequestFacts
<1>4. CASE seen[r].advisor = Chosen(r)
<2>1. Private(r)
    BY <1>1, <1>2, <1>4 DEF LockLink, Private, Goto, Holding, TypeOK, Effects
<2> QED
    BY <2>1, PrivateStep
<1>5. CASE seen[r].advisor # Chosen(r)
<2>1. /\ pc' = [pc EXCEPT ![r] = "scanDelete"]
      /\ lock' = [lock EXCEPT ![Client(r)] = r]
      /\ old' = [old EXCEPT ![r] = seen[r].advisor]
      /\ UNCHANGED <<link, inserting, history, removed, req>>
    BY <1>5 DEF LockLink, Goto, TakeLock
<2>2. \A p \in Requests \ {r} : Client(p) = Client(r) => lock[Client(p)] # p /\ ~removed[p]
    BY <1>1, <1>2, OwnLock DEF Transaction
<2>3. LockHeld'
    BY <1>1, <1>2, <1>3, <2>1, AssignmentAssumption
       DEF Held, LockHeld, Client, TypeOK, Maybe
<2>4. IndexHeld'
    BY <1>1, <1>2, <2>1 DEF Held, IndexHeld, Client, TypeOK
<2>5. OldAdvisorHeld'
    BY <1>1, <1>2, <1>3, <1>5, <2>1, <2>2
       DEF Held, OldAdvisorHeld, Client, Chosen, AdvisorOf, TypeOK
<2>6. RemovedHeld'
    BY <1>1, <1>2, <2>1, <2>2 DEF Held, RemovedHeld, Client, TypeOK
<2>7. ReadyToCommit'
    BY <1>1, <1>2, <2>1 DEF Held, ReadyToCommit, Client, TypeOK
<2>8. AuditedAfterCommit'
    BY <1>1, <1>2, <2>1 DEF Held, AuditedAfterCommit, Effects, TypeOK, Audit
<2> QED
    BY <2>3, <2>4, <2>5, <2>6, <2>7, <2>8 DEF Held
<1> QED
    BY <1>4, <1>5

\* A row deleted meanwhile is locked by nobody: the request goes on without a
\* lock.
LEMMA LockNothingStep ==
    ASSUME IInv, NEW r \in Requests, LockNothing(r)
    PROVE  Held'
<1>1. TypeOK /\ Held
    BY InvariantParts
<1>2. /\ pc[r] = "lock" /\ pc' = [pc EXCEPT ![r] = "scanDelete"]
      /\ old' = [old EXCEPT ![r] = Nobody]
      /\ UNCHANGED <<link, lock, inserting, history, removed, req>>
    BY DEF LockNothing, At, Goto, rowVars
<1>3. LockHeld'
    BY <1>1, <1>2 DEF Held, LockHeld, Client, TypeOK, Maybe
<1>4. IndexHeld'
    BY <1>1, <1>2 DEF Held, IndexHeld, Client, TypeOK
<1>5. OldAdvisorHeld'
    BY <1>1, <1>2 DEF Held, OldAdvisorHeld, Client, Chosen, AdvisorOf, TypeOK
<1>6. RemovedHeld'
    BY <1>1, <1>2 DEF Held, RemovedHeld, Client, TypeOK
<1>7. ReadyToCommit'
    BY <1>1, <1>2 DEF Held, ReadyToCommit, Client, TypeOK
<1>8. AuditedAfterCommit'
    BY <1>1, <1>2 DEF Held, AuditedAfterCommit, Effects, TypeOK, Audit
<1> QED
    BY <1>3, <1>4, <1>5, <1>6, <1>7, <1>8 DEF Held

\* The DELETE removes the locked row, or nothing when it is already gone.
LEMMA DeleteStep ==
    ASSUME IInv, NEW r \in Requests, Delete(r)
    PROVE  Held'
<1>1. TypeOK /\ Held
    BY InvariantParts
<1>2. pc[r] = "delete" /\ pc' = [pc EXCEPT ![r] = "insert"]
      /\ UNCHANGED <<link, inserting, history, req, old>>
    BY DEF Delete, At, Goto
<1>3. CASE seen[r] = Nobody \/ Gone(r)
<2>1. Private(r)
    BY <1>1, <1>2, <1>3 DEF Delete, Private, Holding, TypeOK
<2> QED
    BY <2>1, PrivateStep
<1>4. CASE ~(seen[r] = Nobody \/ Gone(r))
<2>1. /\ lock' = [lock EXCEPT ![Client(r)] = r]
      /\ removed' = [removed EXCEPT ![r] = TRUE]
      /\ Mine(r) /\ link[Client(r)] # Nobody
    BY <1>4 DEF Delete, Waits, Gone
<2>2. \A p \in Requests \ {r} : Client(p) = Client(r) => lock[Client(p)] # p /\ ~removed[p]
    BY <1>1, <1>2, <2>1, OwnLock DEF Transaction
<2>3. Client(r) \in Clients
    BY <1>1, <1>2, RequestFacts
<2>4. LockHeld'
    BY <1>1, <1>2, <2>1, <2>3, AssignmentAssumption
       DEF Held, LockHeld, Client, TypeOK, Maybe
<2>5. IndexHeld'
    BY <1>1, <1>2 DEF Held, IndexHeld, Client, TypeOK
<2>6. OldAdvisorHeld'
    BY <1>1, <1>2, <2>1, <2>2, <2>3
       DEF Held, OldAdvisorHeld, Client, Chosen, AdvisorOf, TypeOK
<2>7. RemovedHeld'
    BY <1>1, <1>2, <2>1, <2>2, <2>3 DEF Held, RemovedHeld, Client, TypeOK
<2>8. ReadyToCommit'
    BY <1>1, <1>2, <2>1 DEF Held, ReadyToCommit, Client, TypeOK
<2>9. AuditedAfterCommit'
    BY <1>1, <1>2 DEF Held, AuditedAfterCommit, Effects, TypeOK, Audit
<2> QED
    BY <2>4, <2>5, <2>6, <2>7, <2>8, <2>9 DEF Held
<1> QED
    BY <1>3, <1>4

\* The INSERT waits for the unique index: one transaction at a time inserts for
\* a client.
LEMMA InsertStep ==
    ASSUME IInv, NEW r \in Requests, Insert(r)
    PROVE  Held'
<1>1. TypeOK /\ Held
    BY InvariantParts
<1>2. /\ pc[r] = "insert" /\ pc' = [pc EXCEPT ![r] = "commit"]
      /\ inserting' = [inserting EXCEPT ![Client(r)] = r]
      /\ inserting[Client(r)] \in {Nobody, r}
      /\ removed[r] \/ link[Client(r)] = Nobody
      /\ UNCHANGED <<link, lock, history, req, old, removed>>
    BY DEF Insert, At, Goto, locals, InsertWaits, Conflict
<1>3. Client(r) \in Clients
    BY <1>1, <1>2, RequestFacts
<1>4. LockHeld'
    BY <1>1, <1>2 DEF Held, LockHeld, Client, TypeOK, Maybe
<1>5. IndexHeld'
    BY <1>1, <1>2, <1>3, AssignmentAssumption DEF Held, IndexHeld, Client, TypeOK
<1>6. OldAdvisorHeld'
    BY <1>1, <1>2 DEF Held, OldAdvisorHeld, Client, Chosen, AdvisorOf, TypeOK
<1>7. RemovedHeld'
    BY <1>1, <1>2 DEF Held, RemovedHeld, Client, TypeOK
<1>8. ReadyToCommit'
    BY <1>1, <1>2 DEF Held, ReadyToCommit, Client, TypeOK
<1>9. AuditedAfterCommit'
    BY <1>1, <1>2 DEF Held, AuditedAfterCommit, Effects, TypeOK, Audit
<1> QED
    BY <1>4, <1>5, <1>6, <1>7, <1>8, <1>9 DEF Held

\* A transaction that ends gives back its rows and its index entry.
LEMMA ReleaseStep ==
    ASSUME IInv, NEW r \in Requests, pc[r] \in Transaction, Release(r),
           pc' = [pc EXCEPT ![r] = "done"], UNCHANGED <<link, history, req, old>>
    PROVE  Held'
<1>1. TypeOK /\ Held
    BY InvariantParts
<1>2. LockHeld'
    BY <1>1, AssignmentAssumption DEF Held, LockHeld, Release, Client, TypeOK, Maybe
<1>3. IndexHeld'
    BY <1>1, AssignmentAssumption DEF Held, IndexHeld, Release, Client, TypeOK, Maybe
<1>4. OldAdvisorHeld'
<2> SUFFICES ASSUME NEW p \in Requests, pc'[p] \in Holding, old'[p] # Nobody
             PROVE  /\ lock'[Client(p)'] = p
                    /\ (AdvisorOf(Client(p)))' = old'[p]
                    /\ old'[p] # Chosen(p)'
    BY DEF OldAdvisorHeld, Holding
<2>1. p # r /\ pc[p] \in Holding /\ old[p] # Nobody /\ pc[p] # "idle"
    BY <1>1 DEF Holding, TypeOK
<2>2. Client(p) \in Clients
    BY <1>1, <2>1, RequestFacts
<2> QED
    BY <1>1, <2>1, <2>2
       DEF Held, OldAdvisorHeld, Release, Holding, Client, Chosen, AdvisorOf
<1>5. RemovedHeld'
<2> SUFFICES ASSUME NEW p \in Requests, removed'[p]
             PROVE  pc'[p] \in {"insert", "commit"} /\ lock'[Client(p)'] = p
    BY DEF RemovedHeld
<2>1. p # r /\ removed[p]
    BY <1>1 DEF Release, TypeOK
<2>2. pc[p] \in {"insert", "commit"} /\ lock[Client(p)] = p
    BY <1>1, <2>1 DEF Held, RemovedHeld
<2>3. Client(p) \in Clients
    BY <1>1, <2>2, RequestFacts
<2> QED
    BY <1>1, <2>1, <2>2, <2>3 DEF Release, Client, TypeOK
<1>6. ReadyToCommit'
    BY <1>1 DEF Held, ReadyToCommit, Release, Client, TypeOK
<1>7. AuditedAfterCommit'
    BY <1>1 DEF Held, AuditedAfterCommit, Effects, TypeOK, Audit
<1> QED
    BY <1>2, <1>3, <1>4, <1>5, <1>6, <1>7 DEF Held

\* The new row and its audit become visible together.
LEMMA CommitStep ==
    ASSUME IInv, NEW r \in Requests, Commit(r)
    PROVE  Held'
<1>1. TypeOK /\ Held
    BY InvariantParts
<1>2. /\ pc[r] = "commit" /\ pc' = [pc EXCEPT ![r] = "hide"]
      /\ link' = [link EXCEPT ![Client(r)] = NewRow(r)]
      /\ history' = Audited(r)
      /\ Release(r)
      /\ UNCHANGED <<req, old>>
    BY DEF Commit, At, Goto
<1>3. Client(r) \in Clients /\ NewRow(r) \in Row
    BY <1>1, <1>2, RequestFacts
<1>4. NewRow(r) # Nobody
    BY <1>1, <1>2, <1>3, RowsExist
<1>5. lock[Client(r)] \in {Nobody, r}
    BY <1>1, <1>2, <1>3 DEF Held, ReadyToCommit, RemovedHeld, LockHeld
<1>6. LockHeld'
    BY <1>1, <1>2, <1>3, <1>4, AssignmentAssumption
       DEF Held, LockHeld, Release, Client, TypeOK, Maybe
<1>7. IndexHeld'
    BY <1>1, <1>2, <1>3, AssignmentAssumption
       DEF Held, IndexHeld, Release, Client, TypeOK, Maybe
<1>8. ASSUME NEW p \in Requests, p # r, pc[p] # "idle"
      PROVE  /\ Client(p) \in Clients
             /\ lock[Client(p)] = p => lock'[Client(p)] = p /\ Client(p) # Client(r)
             /\ Client(p)' = Client(p) /\ Chosen(p)' = Chosen(p)
<2>1. Client(p) \in Clients
    BY <1>1, <1>8, RequestFacts
<2> QED
    BY <1>1, <1>2, <1>5, <1>8, <2>1, AssignmentAssumption DEF Release, Client, Chosen, TypeOK
<1>9. OldAdvisorHeld'
<2> SUFFICES ASSUME NEW p \in Requests, pc'[p] \in Holding, old'[p] # Nobody
             PROVE  /\ lock'[Client(p)'] = p
                    /\ (AdvisorOf(Client(p)))' = old'[p]
                    /\ old'[p] # Chosen(p)'
    BY DEF OldAdvisorHeld, Holding
<2>1. p # r /\ pc[p] \in Holding /\ old[p] # Nobody /\ pc[p] # "idle"
    BY <1>1, <1>2 DEF Holding, TypeOK
<2>2. lock[Client(p)] = p /\ AdvisorOf(Client(p)) = old[p] /\ old[p] # Chosen(p)
    BY <1>1, <2>1 DEF Held, OldAdvisorHeld, Holding
<2> QED
    BY <1>1, <1>2, <1>8, <2>1, <2>2 DEF AdvisorOf, TypeOK
<1>10. RemovedHeld'
<2> SUFFICES ASSUME NEW p \in Requests, removed'[p]
             PROVE  pc'[p] \in {"insert", "commit"} /\ lock'[Client(p)'] = p
    BY DEF RemovedHeld
<2>1. p # r /\ removed[p]
    BY <1>1, <1>2 DEF Release, TypeOK
<2>2. pc[p] \in {"insert", "commit"} /\ lock[Client(p)] = p
    BY <1>1, <2>1 DEF Held, RemovedHeld
<2> QED
    BY <1>1, <1>2, <1>8, <2>1, <2>2 DEF TypeOK
<1>11. ReadyToCommit'
<2> SUFFICES ASSUME NEW p \in Requests, pc'[p] = "commit"
             PROVE  removed'[p] \/ link'[Client(p)'] = Nobody
    BY DEF ReadyToCommit
<2>1. p # r /\ pc[p] = "commit"
    BY <1>1, <1>2 DEF TypeOK
<2>2. Client(p) # Client(r)
    BY <1>1, <1>2, <1>3, <2>1 DEF Held, IndexHeld
<2>3. removed[p] \/ link[Client(p)] = Nobody
    BY <1>1, <2>1 DEF Held, ReadyToCommit
<2> QED
    BY <1>1, <1>2, <1>8, <2>1, <2>2, <2>3 DEF Release, TypeOK
<1>12. AuditedAfterCommit'
    BY <1>1, <1>2 DEF Held, AuditedAfterCommit, Audited, Effects, TypeOK, Audit
<1> QED
    BY <1>6, <1>7, <1>9, <1>10, <1>11, <1>12 DEF Held

\* The onboarding writes where there is no row and nobody holds anything.
LEMMA LinkStep ==
    ASSUME IInv, NEW r \in Requests, Link(r)
    PROVE  Held'
<1>1. TypeOK /\ Held
    BY InvariantParts
<1>2. pc[r] = "link" /\ UNCHANGED <<lock, inserting, history, req, old, removed>>
    BY DEF Link, At, locals
<1>3. CASE LinkConflict(r) \/ Chosen(r) \notin staff
<2>1. Private(r)
    BY <1>1, <1>2, <1>3 DEF Link, Private, Goto, Holding, TypeOK, Effects
<2> QED
    BY <2>1, PrivateStep
<1>4. CASE ~(LinkConflict(r) \/ Chosen(r) \notin staff)
<2>1. /\ pc' = [pc EXCEPT ![r] = "done"]
      /\ link' = [link EXCEPT ![Client(r)] = NewRow(r)]
      /\ inserting[Client(r)] \in {Nobody, r}
      /\ ~removed[r] => link[Client(r)] = Nobody
    BY <1>4 DEF Link, Goto, InsertWaits, LinkConflict, Conflict
<2>2. link[Client(r)] = Nobody
    BY <1>1, <1>2, <2>1 DEF Held, RemovedHeld
<2>3. Client(r) \in Clients
    BY <1>1, <1>2, RequestFacts
<2>4. inserting[Client(r)] = Nobody /\ lock[Client(r)] = Nobody
    BY <1>1, <1>2, <2>1, <2>2, <2>3 DEF Held, IndexHeld, LockHeld
<2>5. LockHeld'
    BY <1>1, <1>2, <2>1, <2>4 DEF Held, LockHeld, Client, TypeOK, Maybe
<2>6. IndexHeld'
    BY <1>1, <1>2, <2>1 DEF Held, IndexHeld, Client, TypeOK
<2>7. OldAdvisorHeld'
    BY <1>1, <1>2, <2>1, <2>4, AssignmentAssumption
       DEF Held, OldAdvisorHeld, Client, Chosen, AdvisorOf, TypeOK
<2>8. RemovedHeld'
    BY <1>1, <1>2, <2>1 DEF Held, RemovedHeld, Client, TypeOK
<2>9. ReadyToCommit'
<3> SUFFICES ASSUME NEW p \in Requests, pc'[p] = "commit"
             PROVE  removed'[p] \/ link'[Client(p)'] = Nobody
    BY DEF ReadyToCommit
<3>1. p # r /\ pc[p] = "commit"
    BY <1>1, <2>1 DEF TypeOK
<3>2. Client(p) \in Clients
    BY <1>1, <3>1, RequestFacts
<3>3. Client(p) # Client(r)
    BY <1>1, <2>4, <3>1, <3>2, AssignmentAssumption DEF Held, IndexHeld
<3>4. removed[p] \/ link[Client(p)] = Nobody
    BY <1>1, <3>1 DEF Held, ReadyToCommit
<3> QED
    BY <1>1, <1>2, <2>1, <3>2, <3>3, <3>4 DEF Client, TypeOK
<2>10. AuditedAfterCommit'
    BY <1>1, <1>2, <2>1 DEF Held, AuditedAfterCommit, Effects, TypeOK, Audit
<2> QED
    BY <2>5, <2>6, <2>7, <2>8, <2>9, <2>10 DEF Held
<1> QED
    BY <1>3, <1>4

\* The cascade spares the rows somebody holds.
LEMMA DeleteAdvisorStep ==
    ASSUME IInv, NEW a \in Advisors, DeleteAdvisor(a)
    PROVE  Held'
<1>1. TypeOK /\ Held
    BY InvariantParts
<1>2. /\ \A c \in Clients : AdvisorOf(c) = a => lock[c] = Nobody
      /\ link' = [c \in Clients |-> IF AdvisorOf(c) = a THEN Nobody ELSE link[c]]
      /\ \A h \in history' : \E g \in history : h.by = g.by
      /\ UNCHANGED <<lock, inserting, req, pc, old, removed>>
<2>1. \A g \in history : [g EXCEPT !.old = IF @ = a THEN Nobody ELSE @].by = g.by
    BY <1>1 DEF TypeOK, Audit
<2> QED
    BY <2>1 DEF DeleteAdvisor, locals
<1>3. LockHeld'
    BY <1>1, <1>2 DEF Held, LockHeld, Client, TypeOK, Maybe
<1>4. IndexHeld'
    BY <1>1, <1>2 DEF Held, IndexHeld, Client
<1>5. OldAdvisorHeld'
<2> SUFFICES ASSUME NEW p \in Requests, pc[p] \in Holding, old[p] # Nobody
             PROVE  (AdvisorOf(Client(p)))' = old[p]
    BY <1>1, <1>2 DEF Held, OldAdvisorHeld, Holding, Client, Chosen
<2>1. lock[Client(p)] = p /\ AdvisorOf(Client(p)) = old[p]
    BY <1>1 DEF Held, OldAdvisorHeld, Holding
<2>2. Client(p) \in Clients /\ p # Nobody
    BY <1>1, RequestFacts, AssignmentAssumption DEF Holding
<2> QED
    BY <1>2, <2>1, <2>2 DEF AdvisorOf, Client
<1>6. RemovedHeld'
    BY <1>1, <1>2 DEF Held, RemovedHeld, Client
<1>7. ReadyToCommit'
<2> SUFFICES ASSUME NEW p \in Requests, pc[p] = "commit", ~removed[p]
             PROVE  link'[Client(p)] = Nobody
    BY <1>2 DEF ReadyToCommit, Client
<2>1. link[Client(p)] = Nobody /\ Client(p) \in Clients
    BY <1>1, RequestFacts DEF Held, ReadyToCommit
<2> QED
    BY <1>2, <2>1
<1>8. AuditedAfterCommit'
    BY <1>1, <1>2 DEF Held, AuditedAfterCommit
<1> QED
    BY <1>3, <1>4, <1>5, <1>6, <1>7, <1>8 DEF Held

-----------------------------------------------------------------------------
(* The inductive invariant. *)

\* A request moves to a stage it has, in a step that keeps what it asks for.
LEMMA TypeStep ==
    ASSUME IInv, [Next]_vars
    PROVE  TypeOK'
<1>1. TypeOK
    BY InvariantParts
<1>2. CASE UNCHANGED vars
    BY <1>1, <1>2 DEF vars, rowVars, effects, locals, TypeOK
<1>3. ASSUME NEW r \in Requests, Submit(r)
      PROVE  TypeOK'
<2>1. PICK q \in Request :
          /\ req' = [req EXCEPT ![r] = q]
          /\ pc' = [pc EXCEPT ![r] = IF q.kind = "reassign" THEN "validate" ELSE "find"]
    BY <1>3 DEF Submit, Goto
<2>2. q # Nobody
    BY AssignmentAssumption
<2> QED
    BY <1>1, <1>3, <2>1, <2>2
       DEF Submit, TypeOK, Stages, Assigning, Maybe, rowVars, effects, locals
<1>4. ASSUME NEW r \in Requests, Reassign(r)
      PROVE  TypeOK'
<2>1. CASE pc[r] = "idle"
    BY <1>4, <2>1
       DEF Reassign, Validate, Scan, LockLink, LockNothing, ScanDelete, Delete, Insert,
           InsertRefused, Commit, Hide, TellClient, TellNew, TellOld, Tell, At
<2>2. CASE pc[r] # "idle"
<3>1. Client(r) \in Clients /\ Chosen(r) \in Advisors /\ NewRow(r) \in Row
    BY <1>1, <2>2, RequestFacts
<3>2. CASE Validate(r)
    BY <1>1, <2>2, <3>2 DEF Validate, Goto, TypeOK, Stages, Transaction, rowVars, effects, locals
<3>3. CASE Scan(r) \/ ScanDelete(r)
    BY <1>1, <2>2, <3>1, <3>3
       DEF Scan, ScanDelete, Goto, TypeOK, Stages, Transaction, rowVars, effects
<3>4. CASE LockLink(r)
<4>1. seen[r] \in Row
    BY <1>1, <2>2, <3>4 DEF LockLink, TypeOK, Maybe
<4>2. seen[r].advisor \in Advisors
    BY <4>1 DEF Row
<4> QED
    BY <1>1, <2>2, <3>1, <3>4, <4>2
       DEF LockLink, TakeLock, Goto, TypeOK, Maybe, Stages, Transaction, effects
<3>5. CASE LockNothing(r)
    BY <1>1, <2>2, <3>5
       DEF LockNothing, Goto, TypeOK, Maybe, Stages, Transaction, rowVars, effects
<3>6. CASE Delete(r)
    BY <1>1, <2>2, <3>1, <3>6 DEF Delete, Goto, TypeOK, Maybe, Stages, Transaction, effects
<3>7. CASE Insert(r)
    BY <1>1, <2>2, <3>1, <3>7 DEF Insert, Goto, TypeOK, Maybe, Stages, Transaction, effects, locals
<3>8. CASE InsertRefused(r)
    BY <1>1, <2>2, <3>8 DEF InsertRefused, Release, Goto, TypeOK, Maybe, Stages, effects
<3>9. CASE Commit(r)
<4>1. [by |-> r, client |-> Client(r), old |-> old[r], new |-> Chosen(r)] \in Audit
    BY <1>1, <3>1 DEF Audit, TypeOK
<4> QED
    BY <1>1, <2>2, <3>1, <3>9, <4>1
       DEF Commit, Audited, Release, Goto, TypeOK, Maybe, Stages, Effects, effects
<3>10. CASE Hide(r)
    BY <1>1, <2>2, <3>1, <3>10
       DEF Hide, Goto, TypeOK, Maybe, Stages, Effects, rowVars, locals
<3>11. CASE TellClient(r) \/ TellNew(r) \/ TellOld(r)
<4>1. old[r] \in Maybe(Advisors)
    BY <1>1 DEF TypeOK
<4> QED
    BY <1>1, <2>2, <3>1, <3>11, <4>1
       DEF TellClient, TellNew, TellOld, Tell, Goto, TypeOK, Maybe, Stages, Effects,
           rowVars, locals
<3> QED
    BY <1>4, <3>2, <3>3, <3>4, <3>5, <3>6, <3>7, <3>8, <3>9, <3>10, <3>11 DEF Reassign
<2> QED
    BY <2>1, <2>2
<1>5. ASSUME NEW r \in Requests, Assign(r)
      PROVE  TypeOK'
<2>1. pc[r] # "idle"
    BY <1>5 DEF Assign, FindAdvisor, ListAdvisors, ChooseAdvisor, Link, ReadWinner, At
<2>2. Client(r) \in Clients /\ Chosen(r) \in Advisors /\ NewRow(r) \in Row
    BY <1>1, <2>1, RequestFacts
<2>3. CASE FindAdvisor(r)
    BY <1>1, <2>1, <2>3 DEF FindAdvisor, Goto, TypeOK, Stages, Assigning, rowVars, effects, locals
<2>4. CASE ListAdvisors(r)
    BY <1>1, <2>1, <2>4 DEF ListAdvisors, Goto, TypeOK, Stages, Assigning, rowVars, effects
<2>5. CASE ChooseAdvisor(r)
<3>1. PICK a \in LeastLoaded(candidates[r]) : req' = [req EXCEPT ![r].advisor = a]
    BY <2>5 DEF ChooseAdvisor
<3>2. a \in Advisors
    BY <1>1, <3>1 DEF LeastLoaded, TypeOK
<3>3. req[r] \in Request
    BY <1>1, <2>1, RequestFacts
<3>4. [req[r] EXCEPT !.advisor = a] \in Request
    BY <3>2, <3>3 DEF Request
<3>5. req' = [req EXCEPT ![r] = [req[r] EXCEPT !.advisor = a]]
    BY <1>1, <3>1 DEF TypeOK
<3>6. [req[r] EXCEPT !.advisor = a] # Nobody
    BY <3>4, AssignmentAssumption
<3> DEFINE q == [req[r] EXCEPT !.advisor = a]
<3> HIDE DEF q
<3>7. req' = [req EXCEPT ![r] = q] /\ q \in Request /\ q # Nobody
    BY <3>4, <3>5, <3>6 DEF q
<3> QED
    BY <1>1, <2>1, <2>5, <3>7
       DEF ChooseAdvisor, Goto, TypeOK, Maybe, Stages, Assigning, rowVars, effects, locals
<2>6. CASE Link(r)
    BY <1>1, <2>1, <2>2, <2>6 DEF Link, Goto, TypeOK, Maybe, Stages, Assigning, effects, locals
<2>7. CASE ReadWinner(r)
<3>1. AdvisorOf(Client(r)) \in Maybe(Advisors)
    BY <1>1, <2>2 DEF AdvisorOf, TypeOK, Maybe, Row
<3> QED
    BY <1>1, <2>1, <2>7, <3>1
       DEF ReadWinner, Goto, TypeOK, Maybe, Stages, rowVars, effects
<2> QED
    BY <1>5, <2>3, <2>4, <2>5, <2>6, <2>7 DEF Assign
<1>6. ASSUME NEW r \in Requests, Rollback(r) \/ EffectFails(r) \/ AssignFails(r)
      PROVE  TypeOK'
<2>1. pc[r] # "idle"
    BY <1>6 DEF Rollback, EffectFails, AssignFails, Transaction, Effects, Assigning
<2>2. CASE Rollback(r)
    BY <1>1, <2>1, <2>2 DEF Rollback, Release, Goto, TypeOK, Maybe, Stages, effects
<2>3. CASE EffectFails(r) \/ AssignFails(r)
    BY <1>1, <2>1, <2>3
       DEF EffectFails, AssignFails, Goto, TypeOK, Stages, Assigning, rowVars, effects, locals
<2> QED
    BY <1>6, <2>2, <2>3
<1>7. ASSUME NEW a \in Advisors, Ban(a)
      PROVE  TypeOK'
    BY <1>1, <1>7 DEF Ban, TypeOK, rowVars, effects, locals
<1>8. ASSUME NEW a \in Advisors, DeleteAdvisor(a)
      PROVE  TypeOK'
<2>1. link' \in [Clients -> Maybe(Row)]
    BY <1>1, <1>8 DEF DeleteAdvisor, TypeOK, Maybe
<2>2. \A h \in history : [h EXCEPT !.old = IF @ = a THEN Nobody ELSE @] \in Audit
    BY <1>1 DEF TypeOK, Audit, Maybe
<2>3. history' \subseteq Audit
    BY <1>8, <2>2 DEF DeleteAdvisor
<2> QED
    BY <1>1, <1>8, <2>1, <2>3 DEF DeleteAdvisor, TypeOK, effects, locals
<1> QED
    BY <1>2, <1>3, <1>4, <1>5, <1>6, <1>7, <1>8 DEF Next

\* Every step of every request keeps what the requests hold.
LEMMA HeldStep ==
    ASSUME IInv, [Next]_vars
    PROVE  Held'
<1>1. TypeOK /\ Held
    BY InvariantParts
<1>2. CASE UNCHANGED vars
    BY <1>1, <1>2
       DEF vars, rowVars, effects, locals, Held, LockHeld, IndexHeld, OldAdvisorHeld,
           RemovedHeld, ReadyToCommit, AuditedAfterCommit, Client, Chosen, AdvisorOf
<1>3. ASSUME NEW r \in Requests, Submit(r)
      PROVE  Held'
<2>1. pc[r] = "idle" /\ pc'[r] \notin Holding
    BY <1>1, <1>3 DEF Submit, At, Goto, Holding, TypeOK
<2>2. Private(r)
    BY <1>1, <1>3, <2>1
       DEF Submit, Goto, Private, Holding, Effects, TypeOK, rowVars, locals
<2> QED
    BY <2>2, PrivateStep
<1>4. ASSUME NEW r \in Requests,
             Validate(r) \/ Scan(r) \/ ScanDelete(r) \/ Hide(r) \/ TellClient(r)
             \/ TellNew(r) \/ TellOld(r) \/ FindAdvisor(r) \/ ListAdvisors(r)
             \/ ChooseAdvisor(r) \/ ReadWinner(r) \/ EffectFails(r) \/ AssignFails(r)
      PROVE  Held'
<2>1. CASE Validate(r) \/ Scan(r) \/ ScanDelete(r)
<3>1. Private(r)
    BY <1>1, <2>1
       DEF Validate, Scan, ScanDelete, At, Goto, Private, Holding, Effects, TypeOK, rowVars,
           locals
<3> QED
    BY <3>1, PrivateStep
<2>2. CASE Hide(r) \/ TellClient(r) \/ TellNew(r) \/ TellOld(r) \/ EffectFails(r)
<3>1. Private(r)
    BY <1>1, <2>2
       DEF Hide, TellClient, TellNew, TellOld, Tell, EffectFails, At, Goto, Private,
           Holding, Effects, TypeOK, rowVars, locals
<3> QED
    BY <3>1, PrivateStep
<2>3. CASE FindAdvisor(r) \/ ListAdvisors(r) \/ ReadWinner(r) \/ AssignFails(r)
<3>1. Private(r)
    BY <1>1, <2>3
       DEF FindAdvisor, ListAdvisors, ReadWinner, AssignFails, At, Goto, Private, Holding,
           Effects, Assigning, TypeOK, rowVars, locals
<3> QED
    BY <3>1, PrivateStep
<2>4. CASE ChooseAdvisor(r)
<3>1. PICK a : req' = [req EXCEPT ![r].advisor = a]
    BY <2>4 DEF ChooseAdvisor
<3>2. Private(r)
    BY <1>1, <2>4, <3>1
       DEF ChooseAdvisor, At, Goto, Private, Holding, Effects, TypeOK, rowVars, locals
<3> QED
    BY <3>2, PrivateStep
<2> QED
    BY <1>4, <2>1, <2>2, <2>3, <2>4
<1>5. ASSUME NEW r \in Requests, InsertRefused(r) \/ Rollback(r)
      PROVE  Held'
<2>1. /\ pc[r] \in Transaction
      /\ Release(r)
      /\ pc' = [pc EXCEPT ![r] = "done"]
      /\ UNCHANGED <<link, history, req, old>>
    BY <1>5 DEF InsertRefused, Rollback, At, Goto, Transaction
<2> QED
    BY <2>1, ReleaseStep
<1>6. ASSUME NEW a \in Advisors, Ban(a)
      PROVE  Held'
    BY <1>1, <1>6
       DEF Ban, rowVars, effects, locals, Held, LockHeld, IndexHeld, OldAdvisorHeld,
           RemovedHeld, ReadyToCommit, AuditedAfterCommit, Client, Chosen, AdvisorOf
<1> QED
    BY <1>2, <1>3, <1>4, <1>5, <1>6, LockStep, LockNothingStep, DeleteStep, InsertStep,
       CommitStep, LinkStep, DeleteAdvisorStep
       DEF Next, Reassign, Assign

(* The inductive invariant: a transaction that knows the old advisor holds   *)
(* his row until it commits, one about to commit is alone with the client's  *)
(* index entry, for any clients, advisors and requests.                      *)
THEOREM InductiveInvariant == Spec => []IInv
<1>1. IInv /\ [Next]_vars => IInv'
    BY TypeStep, HeldStep, InvariantParts, PTL
<1> QED
    BY InitInv, <1>1, PTL DEF Spec

-----------------------------------------------------------------------------
(* What the audit says. *)

\* The only audit row a step adds is the one of the request that commits.
LEMMA NewAuditsOfStep ==
    ASSUME IInv, [Next]_vars, NEW h \in NewAudits
    PROVE  \E r \in Requests : Commit(r) /\ h.by = r /\ h.old = old[r]
                               /\ h.client = Client(r) /\ h.new = Chosen(r)
<1>1. TypeOK
    BY InvariantParts
<1>2. h \in history' /\ \A g \in history : h.by # g.by
    BY DEF NewAudits
<1>3. history' # history
    BY <1>2
<1>4. ASSUME NEW r \in Requests, Commit(r)
      PROVE  h = [by |-> r, client |-> Client(r), old |-> old[r], new |-> Chosen(r)]
    BY <1>2, <1>4 DEF Commit, Audited
<1>5. ASSUME NEW a \in Advisors, DeleteAdvisor(a)
      PROVE  FALSE
<2>1. PICK g \in history : h = [g EXCEPT !.old = IF @ = a THEN Nobody ELSE @]
    BY <1>2, <1>5 DEF DeleteAdvisor
<2>2. g \in Audit
    BY <1>1 DEF TypeOK
<2>3. h.by = g.by
    BY <2>1, <2>2 DEF Audit
<2> QED
    BY <1>2, <2>3
<1>6. \E r \in Requests : Commit(r)
<2>1. ~UNCHANGED vars
    BY <1>3 DEF vars, rowVars
<2>2. \A r \in Requests : ~Submit(r)
    BY <1>3 DEF Submit, rowVars
<2>3. \A r \in Requests : Reassign(r) => Commit(r)
    BY <1>3
       DEF Reassign, Validate, Scan, LockLink, LockNothing, ScanDelete, Delete, Insert,
           InsertRefused, Hide, TellClient, TellNew, TellOld, Tell, rowVars
<2>4. \A r \in Requests : ~Assign(r)
    BY <1>3
       DEF Assign, FindAdvisor, ListAdvisors, ChooseAdvisor, Link, ReadWinner, rowVars
<2>5. \A r \in Requests : ~Rollback(r) /\ ~EffectFails(r) /\ ~AssignFails(r)
    BY <1>3 DEF Rollback, EffectFails, AssignFails, rowVars
<2>6. \A a \in Advisors : ~Ban(a)
    BY <1>3 DEF Ban, rowVars
<2> QED
    BY <1>5, <2>1, <2>2, <2>3, <2>4, <2>5, <2>6 DEF Next
<1> QED
    BY <1>4, <1>6

(* The audit never names an advisor the client did not have when the         *)
(* reassignment committed, nor a replacement of an advisor by himself.       *)
THEOREM AuditSound == Spec => AuditNeverWrong
<1>1. ASSUME IInv, [Next]_vars, NEW h \in NewAudits, h.old # Nobody
      PROVE  h.old = AdvisorOf(h.client) /\ h.old # h.new
<2>1. PICK r \in Requests : Commit(r) /\ h.old = old[r] /\ h.client = Client(r)
                            /\ h.new = Chosen(r)
    BY <1>1, NewAuditsOfStep
<2>2. pc[r] = "commit" /\ OldAdvisorHeld
    BY <1>1, <2>1 DEF Commit, At, IInv
<2> QED
    BY <1>1, <2>1, <2>2 DEF OldAdvisorHeld
<1>2. IInv /\ [Next]_vars
      => [\A h \in NewAudits :
             h.old # Nobody => h.old = AdvisorOf(h.client) /\ h.old # h.new]_vars
    BY <1>1
<1> QED
    BY <1>2, InductiveInvariant, PTL DEF Spec, AuditNeverWrong

(* Only an audited reassignment replaces the row of a client who has one.    *)
THEOREM ReplacementAudited == Spec => NoSilentReplacement
<1>1. ASSUME IInv, [Next]_vars, NEW c \in Clients,
             link[c] # Nobody, link'[c] \notin {link[c], Nobody}
      PROVE  \E h \in NewAudits : h.client = c /\ h.new = link'[c].advisor
<2>1. TypeOK /\ Held
    BY <1>1, InvariantParts
<2>2. ASSUME NEW r \in Requests, Commit(r)
      PROVE  \E h \in NewAudits : h.client = c /\ h.new = link'[c].advisor
<3> DEFINE h == [by |-> r, client |-> Client(r), old |-> old[r], new |-> Chosen(r)]
<3>1. pc[r] = "commit" /\ link' = [link EXCEPT ![Client(r)] = NewRow(r)] /\ h \in history'
    BY <2>2 DEF Commit, At, Audited
<3>2. Client(r) = c /\ link'[c] = NewRow(r)
    BY <1>1, <2>1, <3>1 DEF TypeOK
<3>3. \A g \in history : g.by # r
    BY <2>1, <3>1 DEF Held, AuditedAfterCommit, Effects
<3>4. h \in NewAudits
    BY <3>1, <3>3 DEF NewAudits
<3>5. h.client = c /\ h.new = link'[c].advisor
    BY <3>2 DEF NewRow
<3> QED
    BY <3>4, <3>5
<2>3. ASSUME NEW r \in Requests, Link(r)
      PROVE  FALSE
<3>1. pc[r] = "link" /\ ~Conflict(r) /\ link' = [link EXCEPT ![Client(r)] = NewRow(r)]
    BY <1>1, <2>3 DEF Link, At, LinkConflict
<3>2. Client(r) = c
    BY <1>1, <2>1, <3>1 DEF TypeOK
<3> QED
    BY <1>1, <2>1, <3>1, <3>2 DEF Conflict, Held, RemovedHeld
<2>4. ASSUME NEW a \in Advisors, DeleteAdvisor(a)
      PROVE  FALSE
    BY <1>1, <2>4 DEF DeleteAdvisor
<2>5. link' # link
    BY <1>1
<2>6. ~UNCHANGED vars /\ \A r \in Requests : ~Submit(r)
    BY <2>5 DEF vars, rowVars, Submit
<2>7. \A r \in Requests : Reassign(r) => Commit(r)
    BY <2>5
       DEF Reassign, Validate, Scan, LockLink, LockNothing, ScanDelete, Delete, Insert,
           InsertRefused, Hide, TellClient, TellNew, TellOld, Tell, rowVars
<2>8. \A r \in Requests : Assign(r) => Link(r)
    BY <2>5 DEF Assign, FindAdvisor, ListAdvisors, ChooseAdvisor, ReadWinner, rowVars
<2>9. \A r \in Requests : ~Rollback(r) /\ ~EffectFails(r) /\ ~AssignFails(r)
    BY <2>5 DEF Rollback, EffectFails, AssignFails, rowVars
<2>10. \A a \in Advisors : ~Ban(a)
    BY <2>5 DEF Ban, rowVars
<2> QED
    BY <1>1, <2>2, <2>3, <2>4, <2>6, <2>7, <2>8, <2>9, <2>10 DEF Next
<1>2. IInv /\ [Next]_vars
      => [\A c \in Clients :
             link[c] # Nobody /\ link'[c] \notin {link[c], Nobody} =>
                 \E h \in NewAudits : h.client = c /\ h.new = link'[c].advisor]_vars
    BY <1>1
<1> QED
    BY <1>2, InductiveInvariant, PTL DEF Spec, NoSilentReplacement

-----------------------------------------------------------------------------
(* The dossier. *)

AfterChecking == {"savings", "investments", "investment", "cards", "card", "advisor",
                  "advisors", "link", "winner"}
AfterSavings == AfterChecking \ {"savings"}
AfterInvestments == AfterSavings \ {"investments", "investment"}
AfterCards == AfterInvestments \ {"cards", "card"}

HasCard == \E k \in cards : k.account \in Dossier!OfType("checking")

\* What a call has made sure of when it comes to a statement.
Ensured(c) ==
    /\ statement[c] # "done" => outcome[c] = "none" /\ attempt[c] < Attempts
    /\ found[c] \subseteq accounts
    /\ statement[c] \in AfterChecking =>
            checking[c] # {} /\ checking[c] \subseteq Dossier!OfType("checking")
    /\ statement[c] \in AfterSavings => Dossier!OfType("savings") # {}
    /\ statement[c] \in AfterInvestments => investments # {}
    /\ statement[c] \in AfterCards => HasCard
    /\ statement[c] = "advisors" => named[c] = NoAdvisor
    /\ outcome[c] = "onboarded" => Dossier!Complete /\ named[c] \in {attached, NoAdvisor}

\* Who made an account had listed the accounts, and none of its type was there.
MadeUnseen(a) ==
    /\ Dossier!Seen(a.by, a.type) = {}
    /\ statement[a.by] \notin Dossier!VerifyStages \cup {"user", "accounts", "checking"}
    /\ a.type = "savings" => statement[a.by] # "savings"

DossierInv ==
    /\ Dossier!TypeOK
    /\ \A c \in Calls : Ensured(c)
    /\ \A a \in accounts : MadeUnseen(a)

\* At the start no call has ensured anything of the dossier.
LEMMA DossierInit == RegistrationInit => DossierInv
<1> SUFFICES ASSUME RegistrationInit PROVE DossierInv
    OBVIOUS
<1> USE RegistrationAssumption DEF RegistrationInit, Dossier!Init, Dossier!OnboardingAssumption
<1>1. Dossier!TypeOK
<2>1. isClient \in BOOLEAN /\ tokenUsed \in BOOLEAN /\ verified \in BOOLEAN
    BY Zenon
<2>2. attempt \in [Calls -> 0..Attempts]
    OBVIOUS
<2>3. statement \in [Calls -> Dossier!Stages] /\ outcome \in [Calls -> Dossier!Outcomes]
    BY DEF Dossier!Stages, Dossier!VerifyStages, Dossier!Outcomes
<2>4. found \in [Calls -> SUBSET Dossier!Account]
      /\ checking \in [Calls -> SUBSET Dossier!Account]
    OBVIOUS
<2>5. named \in [Calls -> Advisors \cup {NoAdvisor}]
    OBVIOUS
<2> QED
    BY <2>1, <2>2, <2>3, <2>4, <2>5 DEF Dossier!TypeOK
<1>2. \A c \in Calls : Ensured(c)
    BY DEF Ensured, AfterChecking, AfterSavings, AfterInvestments, AfterCards
<1> QED
    BY <1>1, <1>2 DEF DossierInv

\* Rows are added and never changed, and a client keeps the advisor he has.
OnlyAdded ==
    /\ accounts \subseteq accounts' /\ investments \subseteq investments' /\ cards \subseteq cards'
    /\ attached = NoAdvisor \/ attached' = attached

\* The step of one call leaves the memory of the others alone.
OthersKept(c) ==
    \A q \in Calls \ {c} :
        /\ statement'[q] = statement[q] /\ outcome'[q] = outcome[q] /\ found'[q] = found[q]
        /\ checking'[q] = checking[q] /\ attempt'[q] = attempt[q] /\ named'[q] = named[q]

\* A step of one call that only adds rows keeps what the others ensured.
LEMMA DossierKept ==
    ASSUME DossierInv, NEW c \in Calls, Dossier!TypeOK', OnlyAdded, OthersKept(c), Ensured(c)',
           \A a \in accounts' : a \notin accounts \/ a.by = c => MadeUnseen(a)'
    PROVE  DossierInv'
<1>1. ASSUME NEW q \in Calls, q # c PROVE Ensured(q)'
<2>1. Ensured(q)
    BY DEF DossierInv
<2>2. \A type : Dossier!OfType(type) \subseteq Dossier!OfType(type)'
    BY DEF OnlyAdded, Dossier!OfType
<2>3. HasCard => HasCard'
    BY <2>2 DEF HasCard, OnlyAdded
<2>4. Dossier!Complete => Dossier!Complete'
    BY <2>2 DEF Dossier!Complete, OnlyAdded
<2>5. /\ statement'[q] = statement[q] /\ outcome'[q] = outcome[q] /\ found'[q] = found[q]
      /\ checking'[q] = checking[q] /\ attempt'[q] = attempt[q] /\ named'[q] = named[q]
    BY <1>1 DEF OthersKept
<2> QED
    BY <2>1, <2>2, <2>3, <2>4, <2>5 DEF Ensured, OnlyAdded
<1>2. ASSUME NEW a \in accounts', a \in accounts, a.by # c PROVE MadeUnseen(a)'
<2>1. MadeUnseen(a) /\ a.by \in Calls
    BY <1>2 DEF DossierInv, Dossier!TypeOK, Dossier!Account
<2> QED
    BY <1>2, <2>1 DEF MadeUnseen, OthersKept, Dossier!Seen
<1> QED
    BY <1>1, <1>2 DEF DossierInv

\* The types of what a call writes for itself.
LEMMA CallTypes ==
    ASSUME DossierInv, NEW c \in Calls
    PROVE  /\ statement \in [Calls -> Dossier!Stages] /\ outcome \in [Calls -> Dossier!Outcomes]
           /\ found \in [Calls -> SUBSET Dossier!Account]
           /\ checking \in [Calls -> SUBSET Dossier!Account]
           /\ attempt \in [Calls -> 0..Attempts]
           /\ named \in [Calls -> Advisors \cup {NoAdvisor}]
           /\ Ensured(c) /\ \A a \in accounts : a.by = c => MadeUnseen(a)
           /\ accounts \subseteq Dossier!Account
           /\ Attempts \in Nat /\ Attempts > 0 /\ NoAdvisor \notin Advisors
    BY RegistrationAssumption DEF DossierInv, Dossier!TypeOK, Dossier!OnboardingAssumption

\* A statement that writes no row and no memory but where the call goes on.
LEMMA MovesOn ==
    ASSUME DossierInv, NEW c \in Calls, NEW s \in Dossier!Stages, statement[c] # "done",
           Dossier!Goto(c, s), UNCHANGED <<Dossier!rows, Dossier!locals>>,
           UNCHANGED isClient, tokenUsed' \in BOOLEAN, verified' \in BOOLEAN,
           \/ s \in {"saveToken", "saveUser", "user"} /\ statement[c] \in Dossier!VerifyStages
           \/ s = "accounts" /\ statement[c] = "user"
           \/ s \in {"investment", "cards"} /\ statement[c] = "investments"
              /\ (s = "cards" => investments # {})
           \/ s \in {"advisor", "card"} /\ statement[c] = "cards" /\ (s = "advisor" => HasCard)
           \/ s = "winner" /\ statement[c] = "link"
    PROVE  DossierInv'
<1> USE CallTypes DEF Dossier!Goto, Dossier!rows, Dossier!locals
<1>1. /\ statement'[c] = s /\ outcome' = outcome
      /\ UNCHANGED <<accounts, investments, cards, attached, found, checking, attempt, named>>
    OBVIOUS
<1>2. Dossier!TypeOK'
<2>1. statement' \in [Calls -> Dossier!Stages]
    OBVIOUS
<2> QED
    BY <1>1, <2>1 DEF DossierInv, Dossier!TypeOK
<1>3. OnlyAdded /\ OthersKept(c)
    BY <1>1 DEF OnlyAdded, OthersKept
<1>4. HasCard' = HasCard /\ Dossier!Complete' = Dossier!Complete
      /\ \A type : Dossier!OfType(type)' = Dossier!OfType(type)
    BY <1>1 DEF HasCard, Dossier!Complete, Dossier!OfType
<1>5. Ensured(c)'
    BY <1>1, <1>4 DEF Ensured, AfterChecking, AfterSavings, AfterInvestments, AfterCards,
                      Dossier!VerifyStages
<1>6. \A a \in accounts : a.by = c => MadeUnseen(a)'
    BY <1>1 DEF MadeUnseen, Dossier!Seen, Dossier!VerifyStages
<1> QED
    BY <1>1, <1>2, <1>3, <1>5, <1>6, DossierKept

\* A call ends without naming an advisor it should not.
LEMMA Ends ==
    ASSUME DossierInv, NEW c \in Calls, NEW how \in Dossier!Outcomes, statement[c] # "done",
           Dossier!End(c, how), OnlyAdded, UNCHANGED <<isClient, tokenUsed, verified>>,
           UNCHANGED <<accounts, investments, cards, found, checking>>,
           attached' \in Advisors \cup {NoAdvisor},
           \E a \in Advisors \cup {NoAdvisor} : named' = [named EXCEPT ![c] = a],
           \E n \in 0..Attempts : attempt' = [attempt EXCEPT ![c] = n],
           how = "onboarded" => Dossier!Complete /\ named'[c] \in {attached', NoAdvisor}
    PROVE  DossierInv'
<1> USE CallTypes DEF Dossier!End
<1>1. /\ statement'[c] = "done" /\ outcome'[c] = how
      /\ statement' \in [Calls -> Dossier!Stages]
      /\ outcome' \in [Calls -> Dossier!Outcomes]
    BY DEF Dossier!Stages
<1>2. PICK a \in Advisors \cup {NoAdvisor} : named' = [named EXCEPT ![c] = a]
    OBVIOUS
<1>3. PICK n \in 0..Attempts : attempt' = [attempt EXCEPT ![c] = n]
    OBVIOUS
<1>4. Dossier!TypeOK'
    BY <1>1, <1>2, <1>3 DEF DossierInv, Dossier!TypeOK
<1>5. OthersKept(c)
    BY <1>2, <1>3 DEF OthersKept
<1>6. Dossier!Complete' = Dossier!Complete
    BY DEF Dossier!Complete, Dossier!OfType
<1>7. Ensured(c)'
    BY <1>1, <1>6 DEF Ensured, AfterChecking, AfterSavings, AfterInvestments, AfterCards
<1>8. \A b \in accounts : b.by = c => MadeUnseen(b)'
    BY <1>1 DEF MadeUnseen, Dossier!Seen, Dossier!VerifyStages
<1> QED
    BY <1>4, <1>5, <1>7, <1>8, DossierKept

\* verifyEmail up to the user: each statement only moves on, or the call is refused.
LEMMA Verifies ==
    ASSUME DossierInv, NEW c \in Calls,
           \/ Dossier!FindToken(c) \/ Dossier!SaveToken(c) \/ Dossier!SaveUser(c)
           \/ Dossier!LoadUser(c)
    PROVE  DossierInv'
<1> USE CallTypes DEF Dossier!At, Dossier!rows, Dossier!locals
<1> DEFINE More(s) ==
        /\ Dossier!Goto(c, s) /\ UNCHANGED <<Dossier!rows, Dossier!locals>>
        /\ UNCHANGED isClient /\ tokenUsed' \in BOOLEAN /\ verified' \in BOOLEAN
<1> DEFINE Over(how) ==
        Dossier!End(c, how) /\ UNCHANGED <<isClient, tokenUsed, verified, Dossier!rows, Dossier!locals>>
<1>1. ASSUME NEW how \in Dossier!Outcomes, how # "onboarded", Over(how), statement[c] # "done"
      PROVE  DossierInv'
<2>1. OnlyAdded /\ attached' \in Advisors \cup {NoAdvisor}
    BY <1>1 DEF OnlyAdded, DossierInv, Dossier!TypeOK
<2>2. /\ \E a \in Advisors \cup {NoAdvisor} : named' = [named EXCEPT ![c] = a]
      /\ \E n \in 0..Attempts : attempt' = [attempt EXCEPT ![c] = n]
    BY <1>1
<2> QED
    BY <1>1, <2>1, <2>2, Ends
<1>2. tokenUsed \in BOOLEAN /\ verified \in BOOLEAN
    BY Zenon DEF DossierInv, Dossier!TypeOK
<1>3. CASE Dossier!FindToken(c)
<2>1. statement[c] = "findToken" /\ statement[c] \in Dossier!VerifyStages
    BY <1>3 DEF Dossier!FindToken, Dossier!VerifyStages
<2>2. More("saveToken") \/ Over("invalid")
    BY <1>2, <1>3, Zenon DEF Dossier!FindToken
<2>3. "saveToken" \in Dossier!Stages /\ "invalid" \in Dossier!Outcomes
    BY DEF Dossier!Stages, Dossier!VerifyStages, Dossier!Outcomes
<2> QED
    BY <1>1, <2>1, <2>2, <2>3, MovesOn
<1>4. CASE Dossier!SaveToken(c)
<2>1. statement[c] = "saveToken" /\ statement[c] \in Dossier!VerifyStages
    BY <1>4 DEF Dossier!SaveToken, Dossier!VerifyStages
<2>2. More("saveUser")
    BY <1>2, <1>4, Zenon DEF Dossier!SaveToken
<2>3. "saveUser" \in Dossier!Stages
    BY DEF Dossier!Stages, Dossier!VerifyStages
<2> QED
    BY <2>1, <2>2, <2>3, MovesOn
<1>5. CASE Dossier!SaveUser(c)
<2>1. statement[c] = "saveUser" /\ statement[c] \in Dossier!VerifyStages
    BY <1>5 DEF Dossier!SaveUser, Dossier!VerifyStages
<2>2. More("user")
    BY <1>2, <1>5, Zenon DEF Dossier!SaveUser
<2>3. "user" \in Dossier!Stages
    BY DEF Dossier!Stages, Dossier!DossierStages
<2> QED
    BY <2>1, <2>2, <2>3, MovesOn
<1>6. CASE Dossier!LoadUser(c)
<2>1. statement[c] = "user"
    BY <1>6 DEF Dossier!LoadUser
<2>2. More("accounts") \/ Over("skipped")
    BY <1>2, <1>6, Zenon DEF Dossier!LoadUser
<2>3. "accounts" \in Dossier!Stages /\ "skipped" \in Dossier!Outcomes
    BY DEF Dossier!Stages, Dossier!DossierStages, Dossier!Outcomes
<2> QED
    BY <1>1, <2>1, <2>2, <2>3, MovesOn
<1> QED
    BY <1>3, <1>4, <1>5, <1>6

\* The accounts the call goes by are those there are at this moment.
LEMMA Lists ==
    ASSUME DossierInv, NEW c \in Calls, Dossier!ListAccounts(c)
    PROVE  DossierInv'
<1> USE CallTypes DEF Dossier!ListAccounts, Dossier!At, Dossier!Goto, Dossier!rows
<1>1. /\ statement[c] = "accounts" /\ statement'[c] = "checking" /\ found'[c] = accounts
      /\ statement' \in [Calls -> Dossier!Stages] /\ found' \in [Calls -> SUBSET Dossier!Account]
    BY DEF Dossier!Stages, Dossier!DossierStages
<1>2. Dossier!TypeOK'
    BY <1>1 DEF DossierInv, Dossier!TypeOK
<1>3. Ensured(c)'
    BY <1>1 DEF Ensured, AfterChecking, AfterSavings, AfterInvestments, AfterCards
<1>4. \A a \in accounts : a.by # c
    BY <1>1 DEF MadeUnseen
<1>5. OnlyAdded /\ OthersKept(c)
    BY DEF OnlyAdded, OthersKept
<1> QED
    BY <1>2, <1>3, <1>4, <1>5, DossierKept

\* A missing checking account is inserted, else the listed one is used.
LEMMA EnsuresChecking ==
    ASSUME DossierInv, NEW c \in Calls, Dossier!EnsureChecking(c)
    PROVE  DossierInv'
<1> USE CallTypes DEF Dossier!At, Dossier!Goto
<1> DEFINE new == [by |-> c, type |-> "checking"]
<1>1. /\ statement[c] = "checking" /\ statement'[c] = "savings"
      /\ statement' \in [Calls -> Dossier!Stages] /\ outcome' = outcome
      /\ attempt' = [attempt EXCEPT ![c] = 0] /\ attempt' \in [Calls -> 0..Attempts]
      /\ attempt'[c] = 0
      /\ UNCHANGED <<isClient, tokenUsed, verified, investments, cards, attached, found, named>>
    BY DEF Dossier!EnsureChecking, Dossier!Stages, Dossier!DossierStages
<1>2. PICK a \in Dossier!Account :
        /\ a.type = "checking" /\ a \in accounts'
        /\ checking' = [checking EXCEPT ![c] = {a}]
        /\ accounts' # accounts =>
                /\ a = new /\ accounts' = accounts \cup {new}
                /\ Dossier!Seen(c, "checking") = {}
<2>1. CASE \E a \in Dossier!Seen(c, "checking") :
            checking' = [checking EXCEPT ![c] = {a}] /\ UNCHANGED accounts
<3>1. PICK a \in Dossier!Seen(c, "checking") :
            checking' = [checking EXCEPT ![c] = {a}] /\ UNCHANGED accounts
    BY <2>1
<3>2. a.type = "checking" /\ a \in accounts /\ a \in Dossier!Account
    BY DEF Dossier!Seen, Ensured
<3> QED
    BY <3>1, <3>2
<2>2. CASE /\ Dossier!Seen(c, "checking") = {}
           /\ accounts' = accounts \cup {new} /\ checking' = [checking EXCEPT ![c] = {new}]
<3>1. new \in Dossier!Account /\ new.type = "checking"
    BY DEF Dossier!Account
<3> QED
    BY <2>2, <3>1
<2> QED
    BY <2>1, <2>2, Zenon DEF Dossier!EnsureChecking
<1>3. Dossier!TypeOK'
    BY <1>1, <1>2 DEF DossierInv, Dossier!TypeOK
<1>4. Ensured(c)'
<2>1. checking'[c] = {a} /\ found'[c] \subseteq accounts'
    BY <1>1, <1>2 DEF Ensured
<2>2. a \in Dossier!OfType("checking")'
    BY <1>2 DEF Dossier!OfType
<2> QED
    BY <1>1, <2>1, <2>2 DEF Ensured, AfterChecking, AfterSavings, AfterInvestments, AfterCards
<1>5. OnlyAdded /\ OthersKept(c)
    BY <1>1, <1>2 DEF OnlyAdded, OthersKept, Dossier!EnsureChecking
<1>6. \A b \in accounts' : b \notin accounts \/ b.by = c => MadeUnseen(b)'
<2>1. ASSUME NEW b \in accounts, b.by = c PROVE FALSE
    BY <1>1, <2>1 DEF MadeUnseen
<2>2. ASSUME NEW b \in accounts', b \notin accounts PROVE MadeUnseen(b)'
<3>1. b.by = c /\ b.type = "checking" /\ Dossier!Seen(c, "checking") = {}
    BY <1>2, <2>2
<3> QED
    BY <1>1, <3>1 DEF MadeUnseen, Dossier!Seen, Dossier!VerifyStages
<2> QED
    BY <2>1, <2>2
<1> QED
    BY <1>3, <1>4, <1>5, <1>6, DossierKept

\* And the savings account alike.
LEMMA EnsuresSavings ==
    ASSUME DossierInv, NEW c \in Calls, Dossier!EnsureSavings(c)
    PROVE  DossierInv'
<1> USE CallTypes DEF Dossier!At, Dossier!Goto
<1> DEFINE new == [by |-> c, type |-> "savings"]
<1>1. /\ statement[c] = "savings" /\ statement'[c] = "investments"
      /\ statement' \in [Calls -> Dossier!Stages] /\ outcome' = outcome
      /\ attempt' = [attempt EXCEPT ![c] = 0] /\ attempt' \in [Calls -> 0..Attempts]
      /\ attempt'[c] = 0
      /\ UNCHANGED <<isClient, tokenUsed, verified, investments, cards, attached, found,
                     checking, named>>
    BY DEF Dossier!EnsureSavings, Dossier!Stages, Dossier!DossierStages
<1>2. /\ accounts \subseteq accounts' /\ accounts' \subseteq accounts \cup {new}
      /\ Dossier!Seen(c, "savings") # {} => accounts' = accounts
      /\ Dossier!Seen(c, "savings") = {} => new \in accounts'
    BY DEF Dossier!EnsureSavings, Dossier!NeedsSavings
<1>3. Dossier!TypeOK'
<2>1. new \in Dossier!Account
    BY DEF Dossier!Account
<2> QED
    BY <1>1, <1>2, <2>1 DEF DossierInv, Dossier!TypeOK
<1>4. Dossier!OfType("savings")' # {}
<2>1. CASE Dossier!Seen(c, "savings") = {}
    BY <1>2, <2>1 DEF Dossier!OfType
<2>2. CASE Dossier!Seen(c, "savings") # {}
    BY <1>2, <2>2 DEF Dossier!OfType, Dossier!Seen, Ensured
<2> QED
    BY <2>1, <2>2
<1>5. Ensured(c)'
<2>1. found'[c] \subseteq accounts'
    BY <1>1, <1>2 DEF Ensured
<2>2. checking'[c] # {} /\ checking'[c] \subseteq Dossier!OfType("checking")'
    BY <1>1, <1>2 DEF Ensured, AfterChecking, Dossier!OfType
<2> QED
    BY <1>1, <1>4, <2>1, <2>2 DEF Ensured, AfterChecking, AfterSavings, AfterInvestments, AfterCards
<1>6. OnlyAdded /\ OthersKept(c)
    BY <1>1, <1>2 DEF OnlyAdded, OthersKept, Dossier!EnsureSavings
<1>7. \A b \in accounts' : b \notin accounts \/ b.by = c => MadeUnseen(b)'
<2>1. ASSUME NEW b \in accounts, b.by = c PROVE MadeUnseen(b)'
    BY <1>1, <2>1 DEF MadeUnseen, Dossier!Seen, Dossier!VerifyStages
<2>2. ASSUME NEW b \in accounts', b \notin accounts PROVE MadeUnseen(b)'
<3>1. b.by = c /\ b.type = "savings" /\ Dossier!Seen(c, "savings") = {}
    BY <1>2, <2>2
<3> QED
    BY <1>1, <3>1 DEF MadeUnseen, Dossier!Seen, Dossier!VerifyStages
<2> QED
    BY <2>1, <2>2
<1> QED
    BY <1>3, <1>5, <1>6, <1>7, DossierKept

\* The investment account and the card: looked up, inserted when missing.
LEMMA FillsIn ==
    ASSUME DossierInv, NEW c \in Calls,
           \/ Dossier!ListInvestments(c) \/ Dossier!CreateInvestment(c)
           \/ Dossier!ListCards(c) \/ Dossier!CreateCard(c)
    PROVE  DossierInv'
<1> USE CallTypes DEF Dossier!At, Dossier!rows, Dossier!locals
<1>1. {"investment", "cards", "card", "advisor"} \subseteq Dossier!Stages
    BY DEF Dossier!Stages, Dossier!DossierStages
<1>2. tokenUsed \in BOOLEAN /\ verified \in BOOLEAN
    BY Zenon DEF DossierInv, Dossier!TypeOK
<1>3. CASE Dossier!ListInvestments(c)
<2>1. /\ statement[c] = "investments"
      /\ \E s \in {"investment", "cards"} : Dossier!Goto(c, s) /\ (s = "cards" => investments # {})
      /\ UNCHANGED <<isClient, tokenUsed, verified, Dossier!rows, Dossier!locals>>
    BY <1>3 DEF Dossier!ListInvestments
<2> QED
    BY <1>1, <1>2, <2>1, MovesOn
<1>4. CASE Dossier!ListCards(c)
<2>1. /\ statement[c] = "cards"
      /\ \E s \in {"advisor", "card"} :
            Dossier!Goto(c, s) /\ (s = "advisor" => \E k \in cards : k.account \in checking[c])
      /\ UNCHANGED <<isClient, tokenUsed, verified, Dossier!rows, Dossier!locals>>
    BY <1>4 DEF Dossier!ListCards
<2>2. checking[c] \subseteq Dossier!OfType("checking")
    BY <2>1 DEF Ensured, AfterChecking
<2>3. (\E k \in cards : k.account \in checking[c]) => HasCard
    BY <2>2 DEF HasCard
<2> QED
    BY <1>1, <1>2, <2>1, <2>3, MovesOn
<1>5. CASE Dossier!CreateInvestment(c)
<2> USE <1>5 DEF Dossier!CreateInvestment, Dossier!Goto
<2>1. /\ statement[c] = "investment" /\ statement'[c] = "cards" /\ outcome' = outcome
      /\ statement' \in [Calls -> Dossier!Stages] /\ investments' = investments \cup {c}
    BY <1>1
<2>2. Dossier!TypeOK'
    BY <2>1 DEF DossierInv, Dossier!TypeOK
<2>3. \A type : Dossier!OfType(type)' = Dossier!OfType(type)
    BY DEF Dossier!OfType
<2>4. Ensured(c)'
    BY <2>1, <2>3 DEF Ensured, AfterChecking, AfterSavings, AfterInvestments, AfterCards
<2>5. OnlyAdded /\ OthersKept(c)
    BY DEF OnlyAdded, OthersKept
<2>6. \A a \in accounts : a.by = c => MadeUnseen(a)'
    BY <2>1 DEF MadeUnseen, Dossier!Seen, Dossier!VerifyStages
<2> QED
    BY <2>2, <2>4, <2>5, <2>6, DossierKept
<1>6. CASE Dossier!CreateCard(c)
<2> USE <1>6 DEF Dossier!CreateCard, Dossier!Goto, Dossier!CardAccounts
<2>1. /\ statement[c] = "card" /\ statement'[c] = "advisor" /\ outcome' = outcome
      /\ statement' \in [Calls -> Dossier!Stages]
      /\ cards' = cards \cup [by : {c}, account : checking[c]]
    BY <1>1
<2>2. [by : {c}, account : checking[c]] \subseteq Dossier!Card
    BY DEF Dossier!Card
<2>3. Dossier!TypeOK'
    BY <2>1, <2>2 DEF DossierInv, Dossier!TypeOK
<2>4. \A type : Dossier!OfType(type)' = Dossier!OfType(type)
    BY DEF Dossier!OfType
<2>5. checking[c] # {} /\ checking[c] \subseteq Dossier!OfType("checking")
    BY <2>1 DEF Ensured, AfterChecking
<2>6. HasCard'
<3>1. PICK a : a \in checking[c]
    BY <2>5
<3>2. [by |-> c, account |-> a] \in cards' /\ a \in Dossier!OfType("checking")'
    BY <2>1, <2>4, <2>5, <3>1
<3> QED
    BY <3>2 DEF HasCard
<2>7. Ensured(c)'
    BY <2>1, <2>4, <2>6 DEF Ensured, AfterChecking, AfterSavings, AfterInvestments, AfterCards
<2>8. OnlyAdded /\ OthersKept(c)
    BY <2>1 DEF OnlyAdded, OthersKept
<2>9. \A a \in accounts : a.by = c => MadeUnseen(a)'
    BY <2>1 DEF MadeUnseen, Dossier!Seen, Dossier!VerifyStages
<2> QED
    BY <2>3, <2>7, <2>8, <2>9, DossierKept
<1> QED
    BY <1>3, <1>4, <1>5, <1>6

\* The advisor: kept, chosen, or the one the winner of the race linked.
LEMMA NamesAdvisor ==
    ASSUME DossierInv, NEW c \in Calls,
           \/ Dossier!FindAdvisor(c) \/ Dossier!ChooseAdvisor(c) \/ Dossier!Link(c)
           \/ Dossier!ReadWinner(c)
    PROVE  DossierInv'
<1> USE CallTypes DEF Dossier!At, Dossier!rows, Dossier!locals
<1>1. statement[c] \in AfterCards /\ statement[c] # "done"
    BY DEF Dossier!FindAdvisor, Dossier!ChooseAdvisor, Dossier!Link, Dossier!ReadWinner,
           AfterCards, AfterInvestments, AfterSavings, AfterChecking
<1>2. Dossier!Complete
    BY <1>1 DEF Ensured, Dossier!Complete, HasCard, AfterCards, AfterInvestments, AfterSavings
<1>3. attached \in Advisors \cup {NoAdvisor} /\ named[c] \in Advisors \cup {NoAdvisor}
    BY DEF DossierInv, Dossier!TypeOK
<1>4. "onboarded" \in Dossier!Outcomes /\ {"advisors", "link", "winner"} \subseteq Dossier!Stages
    BY DEF Dossier!Outcomes, Dossier!Stages, Dossier!DossierStages
<1>5. ASSUME Dossier!End(c, "onboarded"), UNCHANGED <<isClient, tokenUsed, verified>>,
             UNCHANGED <<accounts, investments, cards, found, checking, attempt>>,
             attached' = attached \/ (attached = NoAdvisor /\ attached' = named[c]),
             NEW a, a = attached' \/ a = NoAdvisor, named' = [named EXCEPT ![c] = a]
      PROVE  DossierInv'
<2>1. OnlyAdded /\ attached' \in Advisors \cup {NoAdvisor}
    BY <1>3, <1>5 DEF OnlyAdded
<2>2. /\ \E n \in 0..Attempts : attempt' = [attempt EXCEPT ![c] = n]
      /\ a \in Advisors \cup {NoAdvisor}
    BY <1>5, <2>1
<2>3. named'[c] = a /\ \E b \in Advisors \cup {NoAdvisor} : named' = [named EXCEPT ![c] = b]
    BY <1>5, <2>2
<2>4. Dossier!Complete /\ named'[c] \in {attached', NoAdvisor}
    BY <1>2, <1>5, <2>3
<2> QED
    BY <1>1, <1>4, <1>5, <2>1, <2>2, <2>3, <2>4, Ends
<1>6. ASSUME NEW s \in {"advisors", "link"}, Dossier!Goto(c, s),
             UNCHANGED <<isClient, tokenUsed, verified, Dossier!rows, found, checking, attempt>>,
             NEW a \in Advisors \cup {NoAdvisor}, named' = [named EXCEPT ![c] = a],
             s = "advisors" => a = NoAdvisor
      PROVE  DossierInv'
<2> USE <1>6 DEF Dossier!Goto
<2>1. statement'[c] = s /\ statement' \in [Calls -> Dossier!Stages] /\ named'[c] = a
    BY <1>4
<2>2. Dossier!TypeOK'
    BY <2>1 DEF DossierInv, Dossier!TypeOK
<2>3. HasCard' = HasCard /\ \A type : Dossier!OfType(type)' = Dossier!OfType(type)
    BY DEF HasCard, Dossier!OfType
<2>4. Ensured(c)'
    BY <1>1, <2>1, <2>3 DEF Ensured, AfterChecking, AfterSavings, AfterInvestments, AfterCards
<2>5. OnlyAdded /\ OthersKept(c)
    BY DEF OnlyAdded, OthersKept
<2>6. \A b \in accounts : b.by = c => MadeUnseen(b)'
    BY <1>1, <2>1 DEF MadeUnseen, Dossier!Seen, Dossier!VerifyStages
<2> QED
    BY <2>2, <2>4, <2>5, <2>6, DossierKept
<1>7. CASE Dossier!FindAdvisor(c)
<2>1. /\ named' = [named EXCEPT ![c] = attached]
      /\ UNCHANGED <<isClient, tokenUsed, verified, Dossier!rows, found, checking, attempt>>
      /\ (attached = NoAdvisor /\ Dossier!Goto(c, "advisors")) \/ Dossier!End(c, "onboarded")
    BY <1>7 DEF Dossier!FindAdvisor
<2>2. CASE attached = NoAdvisor /\ Dossier!Goto(c, "advisors")
    BY <1>6, <2>1, <2>2
<2>3. CASE Dossier!End(c, "onboarded")
<3>1. attached' = attached /\ UNCHANGED <<accounts, investments, cards>>
    BY <2>1
<3> QED
    BY <1>3, <1>5, <2>1, <2>3, <3>1
<2> QED
    BY <2>1, <2>2, <2>3
<1>8. CASE Dossier!ChooseAdvisor(c)
<2>1. named[c] = NoAdvisor
    BY <1>8 DEF Dossier!ChooseAdvisor, Ensured
<2>2. CASE Dossier!End(c, "onboarded") /\ UNCHANGED named
<3>1. named' = [named EXCEPT ![c] = NoAdvisor]
    BY <2>1, <2>2
<3>2. /\ UNCHANGED <<isClient, tokenUsed, verified>> /\ attached' = attached
      /\ UNCHANGED <<accounts, investments, cards, found, checking, attempt>>
    BY <1>8 DEF Dossier!ChooseAdvisor
<3> QED
    BY <1>5, <2>2, <3>1, <3>2
<2>3. CASE \E a \in Advisors : named' = [named EXCEPT ![c] = a] /\ Dossier!Goto(c, "link")
    BY <1>6, <1>8, <2>3 DEF Dossier!ChooseAdvisor
<2> QED
    BY <1>8, <2>2, <2>3 DEF Dossier!ChooseAdvisor
<1>9. CASE Dossier!Link(c)
<2>1. CASE Dossier!Unlinked
<3>1. named' = [named EXCEPT ![c] = named[c]]
    BY <1>9 DEF Dossier!Link
<3> QED
    BY <1>3, <1>5, <1>9, <2>1, <3>1 DEF Dossier!Link, Dossier!Unlinked
<2>2. CASE ~Dossier!Unlinked
<3>1. tokenUsed \in BOOLEAN /\ verified \in BOOLEAN
    BY Zenon DEF DossierInv, Dossier!TypeOK
<3> QED
    BY <1>4, <1>9, <2>2, <3>1, MovesOn DEF Dossier!Link
<2> QED
    BY <2>1, <2>2
<1>10. CASE Dossier!ReadWinner(c)
<2>1. /\ named' = [named EXCEPT ![c] = attached] /\ Dossier!End(c, "onboarded")
      /\ UNCHANGED <<isClient, tokenUsed, verified>> /\ attached' = attached
      /\ UNCHANGED <<accounts, investments, cards, found, checking, attempt>>
    BY <1>10 DEF Dossier!ReadWinner
<2> QED
    BY <1>3, <1>5, <2>1
<1> QED
    BY <1>7, <1>8, <1>9, <1>10

\* Statements that fail, tries that are repeated, replicas that die.
LEMMA Interrupted ==
    ASSUME DossierInv, NEW c \in Calls, Dossier!StatementFails(c) \/ Dossier!ReplicaDies(c)
    PROVE  DossierInv'
<1> USE CallTypes DEF Dossier!At, Dossier!rows, Dossier!locals
<1>1. /\ statement[c] # "done" /\ UNCHANGED <<isClient, tokenUsed, verified, Dossier!rows>>
      /\ UNCHANGED <<found, checking, named>>
    BY DEF Dossier!StatementFails, Dossier!ReplicaDies
<1>2. {"error", "logged", "lost"} \subseteq Dossier!Outcomes
    BY DEF Dossier!Outcomes
<1>3. ASSUME NEW how \in {"error", "logged", "lost"}, Dossier!End(c, how),
             NEW n \in 0..Attempts, attempt' = [attempt EXCEPT ![c] = n]
      PROVE  DossierInv'
<2>1. OnlyAdded /\ attached' \in Advisors \cup {NoAdvisor}
    BY <1>1 DEF OnlyAdded, DossierInv, Dossier!TypeOK
<2>2. named[c] \in Advisors \cup {NoAdvisor} /\ named' = [named EXCEPT ![c] = named[c]]
    BY <1>1
<2> QED
    BY <1>1, <1>2, <1>3, <2>1, <2>2, Ends
<1>4. ASSUME NEW how \in {"error", "logged", "lost"}, Dossier!End(c, how), UNCHANGED attempt
      PROVE  DossierInv'
<2>1. attempt[c] \in 0..Attempts /\ attempt' = [attempt EXCEPT ![c] = attempt[c]]
    BY <1>4
<2> QED
    BY <1>3, <1>4, <2>1
<1>5. CASE Dossier!ReplicaDies(c)
    BY <1>4, <1>5 DEF Dossier!ReplicaDies
<1>6. CASE /\ statement[c] \in {"checking", "savings"}
           /\ attempt' = [attempt EXCEPT ![c] = @ + 1]
           /\ IF Dossier!LastTry(c) THEN Dossier!End(c, "logged") ELSE UNCHANGED <<statement, outcome>>
<2>1. attempt[c] \in Nat /\ attempt[c] < Attempts
    BY <1>1 DEF Ensured
<2>2. attempt' = [attempt EXCEPT ![c] = attempt[c] + 1] /\ attempt[c] + 1 \in 0..Attempts
    BY <1>6, <2>1
<2>3. CASE Dossier!LastTry(c)
    BY <1>3, <1>6, <2>2, <2>3
<2>4. CASE ~Dossier!LastTry(c)
<3> USE <1>1, <1>6, <2>4
<3>1. attempt' \in [Calls -> 0..Attempts] /\ attempt'[c] < Attempts
    BY <2>1, <2>2 DEF Dossier!LastTry
<3>2. Dossier!TypeOK'
    BY <3>1 DEF DossierInv, Dossier!TypeOK
<3>3. /\ HasCard' = HasCard /\ Dossier!Complete' = Dossier!Complete
      /\ \A type : Dossier!OfType(type)' = Dossier!OfType(type)
    BY DEF HasCard, Dossier!Complete, Dossier!OfType
<3>4. Ensured(c)'
    BY <3>1, <3>3 DEF Ensured, AfterChecking, AfterSavings, AfterInvestments, AfterCards
<3>5. OnlyAdded /\ OthersKept(c)
    BY DEF OnlyAdded, OthersKept
<3>6. \A a \in accounts : a.by = c => MadeUnseen(a)'
    BY DEF MadeUnseen, Dossier!Seen
<3> QED
    BY <3>2, <3>4, <3>5, <3>6, DossierKept
<2> QED
    BY <2>3, <2>4
<1>7. CASE statement[c] = "link" /\ Dossier!Goto(c, "winner") /\ UNCHANGED attempt
<2>1. tokenUsed' \in BOOLEAN /\ verified' \in BOOLEAN
    BY <1>1, Zenon DEF DossierInv, Dossier!TypeOK
<2>2. "winner" \in Dossier!Stages
    BY DEF Dossier!Stages, Dossier!DossierStages
<2> QED
    BY <1>1, <1>7, <2>1, <2>2, MovesOn
<1> QED
    BY <1>4, <1>5, <1>6, <1>7 DEF Dossier!StatementFails

\* Every step of the registration keeps the client's dossier.
LEMMA DossierStepKeeps ==
    DossierInv /\ [RegistrationNext]_registrationVars => DossierInv'
<1> SUFFICES ASSUME DossierInv, [RegistrationNext]_registrationVars PROVE DossierInv'
    OBVIOUS
<1>1. CASE Dossier!Next
<2>1. PICK c \in Calls :
        Dossier!Statement(c) \/ Dossier!StatementFails(c) \/ Dossier!ReplicaDies(c)
    BY <1>1 DEF Dossier!Next
<2> QED
    BY <2>1, Verifies, Lists, EnsuresChecking, EnsuresSavings, FillsIn, NamesAdvisor, Interrupted
       DEF Dossier!Statement
<1>2. CASE UNCHANGED dossierVars
<2> USE <1>2 DEF dossierVars
<2>1. Dossier!TypeOK'
    BY DEF DossierInv, Dossier!TypeOK
<2>2. \A c \in Calls : Ensured(c)'
    BY DEF DossierInv, Ensured, HasCard, Dossier!Complete, Dossier!OfType
<2>3. \A a \in accounts' : MadeUnseen(a)'
    BY DEF DossierInv, MadeUnseen, Dossier!Seen
<2> QED
    BY <2>1, <2>2, <2>3 DEF DossierInv
<1> QED
    BY <1>1, <1>2 DEF RegistrationNext, registrationVars

\* A verification call that reports success has left a complete dossier and named the
\* advisor the client has, and two accounts of one type come only from calls that
\* overlapped (InitializeClientUseCase.execute), for any number of calls.
THEOREM DossierCorrect == RegistrationSpec => []DossierHolds
<1>1. DossierInv => DossierHolds
<2> SUFFICES ASSUME DossierInv PROVE DossierHolds
    OBVIOUS
<2>1. Dossier!CompleteWhenAnswered
    BY DEF DossierInv, Ensured, Dossier!CompleteWhenAnswered
<2>2. Dossier!DuplicatesNeedOverlap
<3>1. ASSUME NEW x \in accounts, NEW y \in accounts, x.type = y.type
      PROVE  x \notin found[y.by]
    BY <3>1 DEF DossierInv, MadeUnseen, Dossier!Seen
<3> QED
    BY <3>1 DEF Dossier!DuplicatesNeedOverlap
<2> QED
    BY <2>1, <2>2 DEF DossierInv, DossierHolds
<1> QED
    BY <1>1, DossierInit, DossierStepKeeps, PTL DEF RegistrationSpec

-----------------------------------------------------------------------------
(* The row of the account and the mailed links. *)

Changeable == Account!Columns \cup {"id"}

\* The columns a request may write: its own, and those others wrote since it read.
Excused(r) == Account!Own(kind[r]) \cup changed[r]

\* A link that works no more.
Spent(m) == mailed[m] = Nobody \/ mailed[m].used

\* The kinds that come to a statement.
KindFits(r) ==
    /\ step[r] # "idle" => kind[r] \in Account!AllKinds
    /\ step[r] = "exists" => kind[r] = "register"
    /\ step[r] \in {"candidate", "allowed", "guard"} => kind[r] # "reset"
    /\ step[r] = "useFirst" => kind[r] = "verify"
    /\ step[r] = "mark" => kind[r] \in {"forgot", "register", "reset"}
    /\ step[r] \in {"issue", "mail"} => kind[r] \in {"forgot", "register"}
    /\ step[r] = "delete" => kind[r] \in {"delete", "deleteMe"}
    /\ step[r] = "use" => kind[r] = "reset"

\* Until the save reads the row again, the copy differs from it where it is excused.
RemembersRow(r) ==
    /\ step[r] \in {"useFirst", "load", "write"} => copy[r] \in Account!Row
    /\ step[r] \in {"useFirst", "load"} =>
        /\ Account!Loaded(r) = Nobody => Changeable \subseteq Excused(r)
        /\ Account!Loaded(r) # Nobody =>
                \A k \in Account!Columns : row[k] = copy[r][k] \/ k \in Excused(r)
    /\ step[r] = "write" => diff[r] \subseteq Excused(r)

\* A request that has not issued its link yet is nobody's link.
Unissued(r) ==
    step[r] \notin {"mail", "done"} =>
        /\ mailed[r] = Nobody
        /\ \A q \in Changes : r \notin marked[q] /\ (using[q] # Nobody => using[q].by # r)

Reset(r) == kind[r] = "reset" /\ (step[r] = "mark" \/ (step[r] = "done" /\ answer[r] = "ok"))

\* What was marked is spent, and so is the link of a reset that has come to mark.
SpendsLinks(r) ==
    /\ \A m \in marked[r] : Spent(m)
    /\ kind[r] = "reset" /\ step[r] \in {"read", "load", "write", "use"} => using[r] # Nobody
    /\ Reset(r) => using[r] # Nobody /\ Spent(using[r].by)

AccountInv ==
    /\ Account!TypeOK
    /\ \A r \in Changes : KindFits(r) /\ RemembersRow(r) /\ Unissued(r) /\ SpendsLinks(r)

\* What a request of each kind is about, and where it goes, case by case.
LEMMA OwnColumns ==
    /\ Account!Own("login") = {"failures", "lockUntil"}
    /\ Account!Own("reset") = {"password", "failures", "lockUntil"}
    /\ Account!Own("verify") = {"verified"}
    /\ Account!Own("ban") = {"banned"} /\ Account!Own("unban") = {"banned"}
    /\ Account!Own("roles") = {"roles"}
    /\ Account!Own("setup") = {"secret", "enabled"}
    /\ Account!Own("enable") = {"secret", "enabled"}
    /\ Account!Own("disable") = {"secret", "enabled"}
    /\ Account!Own("register") = Changeable
<1> USE DEF Account!Own, Changeable
<1>1. Account!Own("login") = {"failures", "lockUntil"}
    BY Zenon
<1>2. Account!Own("reset") = {"password", "failures", "lockUntil"}
    BY Zenon
<1>3. Account!Own("verify") = {"verified"}
    BY Zenon
<1>4. Account!Own("ban") = {"banned"} /\ Account!Own("unban") = {"banned"}
    BY Zenon
<1>5. Account!Own("roles") = {"roles"}
    BY Zenon
<1>6. Account!Own("setup") = {"secret", "enabled"}
    BY Zenon
<1>7. Account!Own("enable") = {"secret", "enabled"} /\ Account!Own("disable") = {"secret", "enabled"}
    BY Zenon
<1>8. Account!Own("register") = Changeable
    BY Zenon
<1> QED
    BY <1>1, <1>2, <1>3, <1>4, <1>5, <1>6, <1>7, <1>8

\* Where each kind of request begins and where it goes after it read the row.
LEMMA Ways ==
    ASSUME NEW k \in Account!AllKinds
    PROVE  /\ Account!FirstStep[k] \in {"exists", "candidate", "allowed", "guard", "findLink", "read"}
           /\ Account!FirstStep[k] = "exists" => k = "register"
           /\ k = "reset" => Account!FirstStep[k] = "findLink"
           /\ Account!AfterRead[k] \in {"useFirst", "mark", "delete", "load"}
           /\ Account!AfterRead[k] = "useFirst" => k = "verify"
           /\ Account!AfterRead[k] = "mark" => k = "forgot"
           /\ Account!AfterRead[k] = "delete" => k \in {"delete", "deleteMe"}
           /\ k = "reset" => Account!AfterRead[k] = "load"
           /\ Account!AfterSave[k] \in {"use", "mark", "done"}
           /\ Account!AfterSave[k] = "mark" => k = "register"
           /\ k = "reset" <=> Account!AfterSave[k] = "use"
<1>1. /\ Account!FirstStep[k] \in {"exists", "candidate", "allowed", "guard", "findLink", "read"}
      /\ Account!FirstStep[k] = "exists" => k = "register"
      /\ k = "reset" => Account!FirstStep[k] = "findLink"
    BY Zenon DEF Account!FirstStep, Account!AllKinds
<1>2. /\ Account!AfterRead[k] \in {"useFirst", "mark", "delete", "load"}
      /\ Account!AfterRead[k] = "useFirst" => k = "verify"
      /\ Account!AfterRead[k] = "mark" => k = "forgot"
      /\ Account!AfterRead[k] = "delete" => k \in {"delete", "deleteMe"}
      /\ k = "reset" => Account!AfterRead[k] = "load"
    BY Zenon DEF Account!AfterRead, Account!AllKinds
<1>3. /\ Account!AfterSave[k] \in {"use", "mark", "done"}
      /\ Account!AfterSave[k] = "mark" => k = "register"
      /\ k = "reset" <=> Account!AfterSave[k] = "use"
    BY Zenon DEF Account!AfterSave, Account!AllKinds
<1> QED
    BY <1>1, <1>2, <1>3

\* The account and its mailed links at the start.
LEMMA AccountInit == RegistrationInit => AccountInv
<1> SUFFICES ASSUME RegistrationInit PROVE AccountInv
    OBVIOUS
<1> USE RegistrationAssumption
    DEF RegistrationInit, Account!Init, Account!UserAccountsAssumption, Account!Maybe
<1>1. row \in Account!Row \cup {Nobody}
    OBVIOUS
<1>2. mailed \in [Account!Makers -> Account!Link \cup {Nobody}]
<2>1. ASSUME NEW p \in {"reset", "verify"}
      PROVE  [purpose |-> p, user |-> Seed, expires |-> LinkFor, used |-> FALSE] \in Account!Link
    BY <2>1 DEF Account!Link, Account!Makers
<2> QED
    BY <2>1
<1>3. /\ clock \in Nat /\ kind \in [Changes -> Account!AllKinds \cup {Nobody}]
      /\ step \in [Changes -> Account!Stages] /\ now \in [Changes -> Nat]
      /\ copy \in [Changes -> Account!Row \cup {Nobody}]
    BY DEF Account!Stages
<1>4. /\ diff \in [Changes -> SUBSET (Account!Columns \cup {"id"})]
      /\ using \in [Changes -> Account!LinkUse \cup {Nobody}]
      /\ marked \in [Changes -> SUBSET Account!Makers]
      /\ answer \in [Changes -> Account!Answers]
      /\ changed \in [Changes -> SUBSET (Account!Columns \cup {"id"})]
    BY DEF Account!Answers
<1>5. Account!TypeOK
    BY <1>1, <1>2, <1>3, <1>4 DEF Account!TypeOK
<1>6. ASSUME NEW r \in Changes
      PROVE  KindFits(r) /\ RemembersRow(r) /\ Unissued(r) /\ SpendsLinks(r)
    BY DEF KindFits, RemembersRow, Unissued, SpendsLinks, Reset
<1> QED
    BY <1>5, <1>6 DEF AccountInv

\* The step of one request leaves the memory of the others alone and only adds to what
\* they have seen change.
OthersKeep(r) ==
    \A q \in Changes \ {r} :
        /\ kind'[q] = kind[q] /\ step'[q] = step[q] /\ copy'[q] = copy[q] /\ diff'[q] = diff[q]
        /\ using'[q] = using[q] /\ marked'[q] = marked[q] /\ answer'[q] = answer[q]
        /\ changed[q] \subseteq changed'[q]

\* Whoever holds a copy of the row has every column noted that a step of r writes.
RowMoves(r) ==
    \/ row' = row
    \/ row = Nobody
    \/ \A q \in Changes \ {r} : Changeable \subseteq changed'[q]
    \/ /\ row # Nobody /\ row' # Nobody /\ row'.id = row.id
       /\ \A q \in Changes \ {r}, k \in Account!Columns : row'[k] = row[k] \/ k \in changed'[q]

\* Only the issue of r's own link makes a link that works.
LinksMove(r) ==
    /\ \A m \in Account!Makers : m # r \/ step[r] # "issue" =>
            /\ mailed[m] = Nobody => mailed'[m] = Nobody
            /\ Spent(m) => Spent(m)'
    /\ \A m \in marked'[r] : m \in marked[r] \/ mailed[m] # Nobody
    /\ using'[r] \in {using[r], Nobody} \/ mailed[using'[r].by] # Nobody

\* The types, as the steps below use them.
LEMMA AccountTypes ==
    ASSUME AccountInv, NEW r \in Changes
    PROVE  /\ kind \in [Changes -> Account!AllKinds \cup {Nobody}]
           /\ step \in [Changes -> Account!Stages] /\ now \in [Changes -> Nat]
           /\ copy \in [Changes -> Account!Row \cup {Nobody}]
           /\ diff \in [Changes -> SUBSET Changeable] /\ changed \in [Changes -> SUBSET Changeable]
           /\ using \in [Changes -> Account!LinkUse \cup {Nobody}]
           /\ marked \in [Changes -> SUBSET Account!Makers]
           /\ answer \in [Changes -> Account!Answers]
           /\ row \in Account!Row \cup {Nobody} /\ clock \in Nat
           /\ mailed \in [Account!Makers -> Account!Link \cup {Nobody}]
           /\ KindFits(r) /\ RemembersRow(r) /\ Unissued(r) /\ SpendsLinks(r)
           /\ Changes \subseteq Account!Makers
           /\ Nobody \notin Account!Makers \cup Account!Row \cup Account!Link \cup Account!LinkUse
           /\ MaxAttempts \in Nat /\ LockFor \in Nat /\ LinkFor \in Nat
           /\ {"CLIENT"} \in RoleSets
    BY RegistrationAssumption
       DEF AccountInv, Account!TypeOK, Account!Maybe, Account!Makers, Changeable,
           Account!UserAccountsAssumption

\* A step of one request keeps what the others remember and the links they
\* spent.
LEMMA AccountKept ==
    ASSUME AccountInv, NEW r \in Changes, Account!TypeOK', OthersKeep(r), RowMoves(r), LinksMove(r),
           KindFits(r)', RemembersRow(r)', SpendsLinks(r)',
           step'[r] \in {"mail", "done"} \/ step[r] \notin {"issue", "mail", "done"}
    PROVE  AccountInv'
<1>1. ASSUME NEW q \in Changes \ {r} PROVE KindFits(q)'
    BY AccountTypes DEF KindFits, OthersKeep
<1>2. ASSUME NEW q \in Changes \ {r} PROVE RemembersRow(q)'
<2>1. RemembersRow(q) /\ row \in Account!Row \cup {Nobody} /\ Nobody \notin Account!Row
    BY AccountTypes
<2>2. Excused(q) \subseteq Excused(q)'
    BY DEF Excused, OthersKeep
<2>3. /\ step'[q] = step[q] /\ copy'[q] = copy[q] /\ diff'[q] = diff[q]
      /\ changed'[q] \subseteq Excused(q)'
    BY DEF OthersKeep, Excused
<2>4. CASE row = Nobody \/ Changeable \subseteq changed'[q]
    BY <2>1, <2>2, <2>3, <2>4 DEF RemembersRow, Account!Loaded, Changeable
<2>5. CASE row' = row
    BY <2>1, <2>2, <2>3, <2>5 DEF RemembersRow, Account!Loaded
<2>6. CASE /\ row # Nobody /\ row' # Nobody /\ row'.id = row.id
           /\ \A k \in Account!Columns : row'[k] = row[k] \/ k \in changed'[q]
    BY <2>1, <2>2, <2>3, <2>6 DEF RemembersRow, Account!Loaded
<2> QED
    BY <2>4, <2>5, <2>6 DEF RowMoves
<1>3. ASSUME NEW q \in Changes, step'[q] \notin {"mail", "done"}
      PROVE  /\ mailed'[q] = Nobody
             /\ \A p \in Changes : q \notin marked'[p] /\ (using'[p] # Nobody => using'[p].by # q)
<2>1. step[q] \notin {"mail", "done"} /\ (q # r \/ step[r] # "issue")
    BY <1>3 DEF OthersKeep
<2>2. mailed[q] = Nobody
      /\ \A p \in Changes : q \notin marked[p] /\ (using[p] # Nobody => using[p].by # q)
    BY <2>1, AccountTypes DEF Unissued
<2>3. mailed'[q] = Nobody
    BY <2>1, <2>2, AccountTypes DEF LinksMove
<2>4. ASSUME NEW p \in Changes, p # r
      PROVE  q \notin marked'[p] /\ (using'[p] # Nobody => using'[p].by # q)
    BY <2>2, <2>4 DEF OthersKeep
<2>5. q \notin marked'[r] /\ (using'[r] # Nobody => using'[r].by # q)
    BY <2>2 DEF LinksMove
<2> QED
    BY <2>3, <2>4, <2>5
<1>4. ASSUME NEW q \in Changes \ {r} PROVE SpendsLinks(q)'
<2>1. SpendsLinks(q) /\ marked[q] \subseteq Account!Makers
    BY AccountTypes
<2>2. ASSUME NEW m \in Account!Makers, Spent(m),
             m \in marked[q] \/ (using[q] # Nobody /\ m = using[q].by)
      PROVE  Spent(m)'
    BY <2>2, AccountTypes DEF LinksMove, Unissued
<2>3. using[q] # Nobody => using[q].by \in Account!Makers
    BY AccountTypes DEF Account!LinkUse
<2>4. /\ kind'[q] = kind[q] /\ step'[q] = step[q] /\ using'[q] = using[q]
      /\ marked'[q] = marked[q] /\ answer'[q] = answer[q]
    BY DEF OthersKeep
<2>5. \A m \in marked'[q] : Spent(m)'
    BY <2>1, <2>2, <2>4 DEF SpendsLinks
<2>6. Reset(q)' => using[q] # Nobody /\ Spent(using[q].by)
    BY <2>1, <2>4 DEF SpendsLinks, Reset
<2>7. ASSUME Reset(q)' PROVE Spent(using[q].by)'
<3>1. PICK m \in Account!Makers : m = using[q].by
    BY <2>3, <2>6, <2>7
<3>2. Spent(m)'
    BY <2>2, <2>6, <2>7, <3>1
<3> QED
    BY <2>4, <3>1, <3>2 DEF Spent
<2> QED
    BY <2>1, <2>4, <2>5, <2>6, <2>7 DEF SpendsLinks
<1>5. \A q \in Changes : Unissued(q)'
    BY <1>3 DEF Unissued
<1> QED
    BY <1>1, <1>2, <1>4, <1>5 DEF AccountInv

\* A request that ends: refused, failed, or done with the mail.
LEMMA Quits ==
    ASSUME AccountInv, NEW r \in Changes, step[r] \notin {"idle", "done"},
           NEW how \in Account!Answers, how = "ok" => kind[r] # "reset", Account!End(r, how),
           UNCHANGED <<row, mailed, clock, kind, copy, diff, using, marked>>,
           now' \in [Changes -> Nat], changed' \in [Changes -> SUBSET Changeable],
           \A q \in Changes \ {r} : changed'[q] = changed[q]
    PROVE  AccountInv'
<1> USE AccountTypes DEF Account!End, Account!Goto
<1>1. /\ step' \in [Changes -> Account!Stages] /\ answer' \in [Changes -> Account!Answers]
      /\ step'[r] = "done" /\ answer'[r] = how
    BY DEF Account!Stages
<1>2. Account!TypeOK'
    BY <1>1 DEF AccountInv, Account!TypeOK, Changeable
<1>3. OthersKeep(r) /\ RowMoves(r)
    BY DEF OthersKeep, RowMoves
<1>4. LinksMove(r)
    BY DEF LinksMove, Spent
<1>5. KindFits(r)' /\ RemembersRow(r)' /\ SpendsLinks(r)'
    BY <1>1 DEF KindFits, RemembersRow, SpendsLinks, Reset, Spent
<1> QED
    BY <1>1, <1>2, <1>3, <1>4, <1>5, AccountKept

\* A request that goes on, with the row, its copy and the links as they are.
LEMMA Goes ==
    ASSUME AccountInv, NEW r \in Changes, NEW s \in Account!Stages, Account!Goto(r, s),
           UNCHANGED <<row, mailed, copy, diff, marked, answer, changed>>,
           clock' \in Nat, now' \in [Changes -> Nat],
           NEW k \in Account!AllKinds, kind' = [kind EXCEPT ![r] = k],
           step[r] = "idle" \/ k = kind[r],
           using' = using
           \/ \E m \in Account!Makers : mailed[m] # Nobody
                /\ using' = [using EXCEPT ![r] = [by |-> m, user |-> mailed[m].user]],
           \/ step[r] = "idle" /\ s \in {"exists", "candidate", "allowed", "guard", "findLink", "read"}
              /\ (s = "exists" => k = "register") /\ (k = "reset" => s = "findLink")
           \/ s = "read" /\ step[r] \in {"candidate", "allowed", "guard", "findLink"}
              /\ (step[r] = "findLink" => using'[r] # Nobody)
    PROVE  AccountInv'
<1> USE AccountTypes DEF Account!Goto
<1>1. /\ step' \in [Changes -> Account!Stages] /\ kind' \in [Changes -> Account!AllKinds \cup {Nobody}]
      /\ step'[r] = s /\ kind'[r] = k
    OBVIOUS
<1>2. /\ using' \in [Changes -> Account!LinkUse \cup {Nobody}]
      /\ using'[r] = using[r] \/ mailed[using'[r].by] # Nobody
      /\ \A q \in Changes \ {r} : using'[q] = using[q]
<2>1. CASE using' = using
    BY <2>1
<2>2. ASSUME NEW m \in Account!Makers, mailed[m] # Nobody,
             using' = [using EXCEPT ![r] = [by |-> m, user |-> mailed[m].user]]
      PROVE  <1>2!:
<3>1. [by |-> m, user |-> mailed[m].user] \in Account!LinkUse
    BY <2>2 DEF Account!Link, Account!LinkUse
<3> QED
    BY <2>2, <3>1
<2> QED
    BY <2>1, <2>2
<1>3. Account!TypeOK'
    BY <1>1, <1>2 DEF AccountInv, Account!TypeOK, Account!Maybe, Changeable
<1>4. OthersKeep(r) /\ RowMoves(r)
    BY <1>2 DEF OthersKeep, RowMoves
<1>5. LinksMove(r)
    BY <1>2 DEF LinksMove, Spent
<1>6. KindFits(r)' /\ RemembersRow(r)'
    BY <1>1 DEF KindFits, RemembersRow
<1>7. SpendsLinks(r)'
    BY <1>1 DEF KindFits, SpendsLinks, Reset, Spent
<1> QED
    BY <1>1, <1>3, <1>4, <1>5, <1>6, <1>7, AccountKept

\* A request comes in.
LEMMA Submits ==
    ASSUME AccountInv, NEW r \in Changes, Account!Submit(r) PROVE AccountInv'
<1> USE AccountTypes, RegistrationAssumption DEF Account!UserAccountsAssumption
<1>1. PICK k \in ChangeKinds[r] : kind' = [kind EXCEPT ![r] = k] /\ Account!Goto(r, Account!FirstStep[k])
    BY DEF Account!Submit
<1>2. k \in Account!AllKinds
    OBVIOUS
<1>3. Account!FirstStep[k] \in Account!Stages
    BY <1>2, Ways DEF Account!Stages
<1>4. /\ step[r] = "idle" /\ clock' \in Nat /\ now' \in [Changes -> Nat] /\ using' = using
      /\ UNCHANGED <<row, mailed, copy, diff, marked, answer, changed>>
    BY DEF Account!Submit, Account!At
<1> QED
    BY <1>1, <1>2, <1>3, <1>4, Ways, Goes

\* The checks before the user is read.
LEMMA Asks ==
    ASSUME AccountInv, NEW r \in Changes,
           \/ Account!Candidate(r) \/ Account!Allowed(r) \/ Account!Guard(r)
           \/ Account!FindLink(r)
    PROVE  AccountInv'
<1> USE AccountTypes DEF Account!At, Account!locals
<1>1. /\ step[r] \in {"candidate", "allowed", "guard", "findLink"} /\ kind[r] \in Account!AllKinds
      /\ kind' = [kind EXCEPT ![r] = kind[r]]
      /\ UNCHANGED <<row, mailed, clock, kind, copy, diff, marked, changed>>
      /\ now' \in [Changes -> Nat]
    BY DEF Account!Candidate, Account!Allowed, Account!Guard, Account!FindLink, KindFits
<1>2. "read" \in Account!Stages /\ "refused" \in Account!Answers
    BY DEF Account!Stages, Account!Answers
<1>3. CASE Account!End(r, "refused") /\ UNCHANGED using
    BY <1>1, <1>2, <1>3, Quits
<1>4. CASE Account!Goto(r, "read") /\ UNCHANGED <<using, answer>> /\ step[r] # "findLink"
    BY <1>1, <1>2, <1>4, Goes
<1>5. ASSUME Account!FindLink(r), NEW m \in Account!Makers, Account!Usable(m),
             using' = [using EXCEPT ![r] = [by |-> m, user |-> mailed[m].user]],
             Account!Goto(r, "read"), UNCHANGED answer
      PROVE  AccountInv'
<2>1. mailed[m] \in Account!Link /\ mailed[m] # Nobody
    BY <1>5 DEF Account!Usable
<2>2. [by |-> m, user |-> mailed[m].user] \in Account!LinkUse
    BY <2>1 DEF Account!Link, Account!LinkUse
<2>3. using'[r] # Nobody
    BY <1>5, <2>2
<2> QED
    BY <1>1, <1>2, <1>5, <2>1, <2>3, Goes
<1>6. CASE Account!Candidate(r) \/ Account!Allowed(r) \/ Account!Guard(r)
    BY <1>3, <1>4, <1>6 DEF Account!Candidate, Account!Allowed, Account!Guard
<1>7. CASE Account!FindLink(r)
    BY <1>3, <1>5, <1>7 DEF Account!FindLink
<1> QED
    BY <1>6, <1>7

\* A registration of a free address keeps a new user in memory.
LEMMA Registers ==
    ASSUME AccountInv, NEW r \in Changes, Account!Exists(r) PROVE AccountInv'
<1> USE AccountTypes DEF Account!At, Account!Goto
<1>1. /\ step[r] = "exists" /\ kind[r] = "register" /\ "refused" \in Account!Answers
      /\ now' \in [Changes -> Nat] /\ changed' = [changed EXCEPT ![r] = {}]
      /\ changed' \in [Changes -> SUBSET Changeable]
      /\ UNCHANGED <<row, mailed, clock, kind, diff, using, marked>>
    BY DEF Account!Exists, KindFits, Account!Answers
<1>2. CASE Account!End(r, "refused") /\ UNCHANGED copy
    BY <1>1, <1>2, Quits
<1>3. CASE copy' = [copy EXCEPT ![r] = Account!NewUser(r)] /\ Account!Goto(r, "load") /\ UNCHANGED answer
<2> USE <1>1, <1>3
<2>1. Account!NewUser(r) \in Account!Row
    BY DEF Account!NewUser, Account!Row, Account!Maybe
<2>2. /\ step' \in [Changes -> Account!Stages] /\ step'[r] = "load"
      /\ copy' \in [Changes -> Account!Row \cup {Nobody}] /\ copy'[r] = Account!NewUser(r)
    BY <2>1 DEF Account!Stages
<2>3. Account!TypeOK'
    BY <2>2 DEF AccountInv, Account!TypeOK, Account!Maybe, Changeable
<2>4. OthersKeep(r) /\ RowMoves(r)
    BY DEF OthersKeep, RowMoves
<2>5. LinksMove(r)
    BY DEF LinksMove, Spent
<2>6. KindFits(r)' /\ SpendsLinks(r)'
    BY <2>2 DEF KindFits, SpendsLinks, Reset, Spent
<2>7. Account!Columns \subseteq Changeable /\ Changeable \subseteq Excused(r)'
    BY OwnColumns DEF Excused, Changeable
<2>8. RemembersRow(r)'
    BY <2>1, <2>2, <2>7 DEF RemembersRow
<2> QED
    BY <2>2, <2>3, <2>4, <2>5, <2>6, <2>8, AccountKept
<1> QED
    BY <1>2, <1>3 DEF Account!Exists, Account!Hold

\* What a request does with the user: it keeps the id and, but for its own columns, the
\* rest of the row.
LEMMA OutcomesFit ==
    ASSUME AccountInv, NEW r \in Changes, row # Nobody, kind[r] \in Account!AllKinds,
           NEW o \in Account!Outcomes(r, row)
    PROVE  /\ o.user \in Account!Row /\ o.user.id = row.id /\ o.answer \in {"ok", "refused"}
           /\ \A k \in Account!Columns : row[k] = o.user[k] \/ k \in Account!Own(kind[r])
<1> USE AccountTypes
<1> DEFINE Fits == /\ o.user \in Account!Row /\ o.user.id = row.id /\ o.answer \in {"ok", "refused"}
                   /\ \A k \in Account!Columns : row[k] = o.user[k] \/ k \in Account!Own(kind[r])
<1> DEFINE Ok(user) == [user |-> user, answer |-> "ok"]
<1>1. row \in Account!Row /\ now[r] \in Nat /\ r \in Account!Makers
    OBVIOUS
<1>2. CASE kind[r] = "login"
<2>1. Account!Outcomes(r, row) =
            {[user |-> Account!RecordFailedLogin(row, now[r]), answer |-> "refused"]} \cup
            (IF row.verified /\ (row.enabled => row.secret # Nobody)
             THEN {Ok(Account!MarkLogin(row))} ELSE {})
    BY <1>2, Zenon DEF Account!Outcomes
<2>2. row.failures \in Nat /\ row.lockUntil \in Nat
    BY <1>1 DEF Account!Row
<2>3. \/ o = Ok(Account!MarkLogin(row))
      \/ o = [user |-> Account!RecordFailedLogin(row, now[r]), answer |-> "refused"]
    BY <2>1
<2>4. ASSUME NEW f \in Nat, NEW l \in Nat, NEW a \in {"ok", "refused"},
             o = [user |-> [row EXCEPT !.failures = f, !.lockUntil = l], answer |-> a]
      PROVE  Fits
    BY <1>1, <1>2, <2>4, OwnColumns DEF Account!Row, Account!Columns
<2>5. CASE o = Ok(Account!MarkLogin(row))
    BY <2>4, <2>5 DEF Account!MarkLogin
<2>6. CASE o = [user |-> Account!RecordFailedLogin(row, now[r]), answer |-> "refused"]
<3> DEFINE l == IF row.failures + 1 >= MaxAttempts THEN now[r] + LockFor ELSE row.lockUntil
<3>1. l \in Nat /\ row.failures + 1 \in Nat
    BY <1>1, <2>2
<3>2. Account!RecordFailedLogin(row, now[r]) = [row EXCEPT !.failures = row.failures + 1, !.lockUntil = l]
    BY <1>1 DEF Account!RecordFailedLogin, Account!Row
<3> HIDE DEF l
<3> QED
    BY <2>4, <2>6, <3>1, <3>2
<2> QED
    BY <2>3, <2>5, <2>6
<1>3. CASE kind[r] = "reset"
<2>1. o = Ok(Account!ChangePassword(row, r))
    BY <1>3, Zenon DEF Account!Outcomes
<2> QED
    BY <1>1, <1>3, <2>1, OwnColumns DEF Account!ChangePassword, Account!Row, Account!Columns
<1>4. CASE kind[r] = "verify"
<2>1. o = Ok([row EXCEPT !.verified = TRUE])
    BY <1>4, Zenon DEF Account!Outcomes
<2> QED
    BY <1>1, <1>4, <2>1, OwnColumns DEF Account!Row, Account!Columns
<1>5. CASE kind[r] \in {"ban", "unban"}
<2>1. o = Ok([row EXCEPT !.banned = TRUE]) \/ o = Ok([row EXCEPT !.banned = FALSE])
    BY <1>5, Zenon DEF Account!Outcomes
<2>2. CASE o = Ok([row EXCEPT !.banned = TRUE])
    BY <1>1, <1>5, <2>2, OwnColumns DEF Account!Row, Account!Columns
<2>3. CASE o = Ok([row EXCEPT !.banned = FALSE])
    BY <1>1, <1>5, <2>3, OwnColumns DEF Account!Row, Account!Columns
<2> QED
    BY <2>1, <2>2, <2>3
<1>6. CASE kind[r] = "roles"
<2>1. \E s \in RoleSets : o = Ok([row EXCEPT !.roles = s])
    BY <1>6, Zenon DEF Account!Outcomes
<2> QED
    BY <1>1, <1>6, <2>1, OwnColumns DEF Account!Row, Account!Columns
<1>7. CASE kind[r] \in {"setup", "enable", "disable"}
<2>1. \/ o = Ok(Account!BeginTwoFactorSetup(row, r))
      \/ o = Ok([row EXCEPT !.enabled = TRUE])
      \/ o = Ok(Account!DisableTwoFactor(row))
    BY <1>7, Zenon DEF Account!Outcomes
<2>2. CASE o = Ok(Account!BeginTwoFactorSetup(row, r))
    BY <1>1, <1>7, <2>2, OwnColumns
       DEF Account!Row, Account!Columns, Account!Maybe, Account!BeginTwoFactorSetup
<2>3. CASE o = Ok([row EXCEPT !.enabled = TRUE])
    BY <1>1, <1>7, <2>3, OwnColumns DEF Account!Row, Account!Columns, Account!Maybe
<2>4. CASE o = Ok(Account!DisableTwoFactor(row))
    BY <1>1, <1>7, <2>4, OwnColumns
       DEF Account!Row, Account!Columns, Account!Maybe, Account!DisableTwoFactor
<2> QED
    BY <2>1, <2>2, <2>3, <2>4
<1>8. CASE kind[r] \in {"register", "forgot", "delete", "deleteMe"}
<2>1. o = Ok(row)
    BY <1>8, Zenon DEF Account!Outcomes
<2> QED
    BY <1>1, <2>1
<1> QED
    BY <1>2, <1>3, <1>4, <1>5, <1>6, <1>7, <1>8 DEF Account!AllKinds

\* The user is read and changed in memory, or the request ends here.
LEMMA Reads ==
    ASSUME AccountInv, NEW r \in Changes, Account!Read(r) PROVE AccountInv'
<1> USE AccountTypes DEF Account!At, Account!Goto
<1>1. /\ step[r] = "read" /\ kind[r] \in Account!AllKinds
      /\ changed' = [changed EXCEPT ![r] = {}] /\ changed' \in [Changes -> SUBSET Changeable]
      /\ UNCHANGED <<row, mailed, clock, kind, now, diff, using, marked>>
    BY DEF Account!Read, KindFits
<1>2. CASE Account!End(r, "refused") /\ UNCHANGED copy
<2>1. "refused" \in Account!Answers
    BY DEF Account!Answers
<2> QED
    BY <1>1, <1>2, <2>1, Quits
<1>3. ASSUME row # Nobody, NEW o \in Account!Outcomes(r, row), Account!Hold(r, o.user),
             answer' = [answer EXCEPT ![r] = o.answer],
             Account!Goto(r, Account!AfterRead[kind[r]])
      PROVE  AccountInv'
<2> DEFINE s == Account!AfterRead[kind[r]]
<2> USE <1>1
<2>1. /\ o.user \in Account!Row /\ o.user.id = row.id /\ o.answer \in {"ok", "refused"}
      /\ \A k \in Account!Columns : row[k] = o.user[k] \/ k \in Account!Own(kind[r])
    BY <1>3, OutcomesFit
<2>2. /\ s \in {"useFirst", "mark", "delete", "load"}
      /\ s = "useFirst" => kind[r] = "verify"
      /\ s = "mark" => kind[r] = "forgot"
      /\ s = "delete" => kind[r] \in {"delete", "deleteMe"}
    BY Ways
<2> HIDE DEF s
<2>3. /\ step' \in [Changes -> Account!Stages] /\ step'[r] = s
      /\ copy' \in [Changes -> Account!Row \cup {Nobody}] /\ copy'[r] = o.user
      /\ answer' \in [Changes -> Account!Answers]
    BY <1>3, <2>1, <2>2 DEF s, Account!Stages, Account!Hold, Account!Answers
<2>4. Account!TypeOK'
    BY <2>3 DEF AccountInv, Account!TypeOK, Account!Maybe, Changeable
<2>5. OthersKeep(r) /\ RowMoves(r)
    BY <1>3 DEF OthersKeep, RowMoves, Account!Hold
<2>6. LinksMove(r)
    BY DEF LinksMove, Spent
<2>7. KindFits(r)' /\ SpendsLinks(r)'
    BY <2>2, <2>3 DEF KindFits, SpendsLinks, Reset, Spent
<2>8. RemembersRow(r)'
<3>1. Account!Loaded(r)' = row
    BY <1>3, <2>1, <2>3 DEF Account!Loaded
<3>2. Account!Own(kind[r]) \subseteq Excused(r)'
    BY DEF Excused
<3> QED
    BY <1>3, <2>1, <2>2, <2>3, <3>1, <3>2 DEF RemembersRow
<2> QED
    BY <2>2, <2>3, <2>4, <2>5, <2>6, <2>7, <2>8, AccountKept
<1> QED
    BY <1>2, <1>3 DEF Account!Read, Account!Found

\* The save reads the row again: what it will write is excused.
LEMMA Loads ==
    ASSUME AccountInv, NEW r \in Changes, Account!Load(r) PROVE AccountInv'
<1> USE AccountTypes DEF Account!Load, Account!At, Account!Goto, Account!locals, Account!Saved
<1> DEFINE loaded == Account!Loaded(r)
<1> DEFINE d == IF loaded = Nobody THEN Changeable
                ELSE {k \in Account!Columns : loaded[k] # copy[r][k]}
<1>1. /\ step[r] = "load" /\ step'[r] = "write" /\ step' \in [Changes -> Account!Stages]
      /\ diff' = [diff EXCEPT ![r] = d]
      /\ UNCHANGED <<row, mailed, clock, kind, now, copy, using, marked, answer, changed>>
    BY DEF Account!Stages, Changeable
<1>2. d \subseteq Changeable /\ d \subseteq Excused(r)
    BY <1>1 DEF RemembersRow, Account!Loaded, Changeable
<1> HIDE DEF d, loaded
<1>3. diff' \in [Changes -> SUBSET Changeable] /\ diff'[r] = d
    BY <1>1, <1>2
<1>4. Account!TypeOK'
    BY <1>1, <1>3 DEF AccountInv, Account!TypeOK, Account!Maybe, Changeable
<1>5. OthersKeep(r) /\ RowMoves(r)
    BY <1>1, <1>3 DEF OthersKeep, RowMoves
<1>6. LinksMove(r)
    BY <1>1 DEF LinksMove, Spent
<1>7. KindFits(r)' /\ SpendsLinks(r)'
    BY <1>1 DEF KindFits, SpendsLinks, Reset, Spent
<1>8. RemembersRow(r)'
    BY <1>1, <1>2, <1>3 DEF RemembersRow, Excused
<1> QED
    BY <1>1, <1>4, <1>5, <1>6, <1>7, <1>8, AccountKept

\* And writes: whoever holds a copy has the columns noted.
LEMMA Writes ==
    ASSUME AccountInv, NEW r \in Changes, Account!Update(r) \/ Account!Insert(r)
    PROVE  AccountInv'
<1> USE AccountTypes DEF Account!At, Account!Goto, Account!locals, Account!Saved
<1>1. /\ step[r] = "write" /\ kind[r] \in Account!AllKinds /\ copy[r] \in Account!Row
      /\ UNCHANGED <<mailed, clock, kind, now, copy, diff, using, marked>>
    BY DEF Account!Update, Account!Insert, KindFits, RemembersRow
<1> DEFINE s == Account!AfterSave[kind[r]]
<1>2. /\ s \in {"use", "mark", "done"} /\ (s = "mark" => kind[r] = "register")
      /\ (kind[r] = "reset" <=> s = "use")
    BY <1>1, Ways
<1> HIDE DEF s
<1>3. ASSUME row' \in Account!Row \cup {Nobody}, Account!Wrote(r, diff[r]),
             step' = [step EXCEPT ![r] = s], UNCHANGED answer, RowMoves(r)
      PROVE  AccountInv'
<2> USE <1>1, <1>3
<2>1. /\ step'[r] = s /\ step' \in [Changes -> Account!Stages]
      /\ changed' \in [Changes -> SUBSET Changeable]
    BY <1>2 DEF Account!Stages, Account!Wrote
<2>2. Account!TypeOK'
    BY <2>1 DEF AccountInv, Account!TypeOK, Account!Maybe, Changeable
<2>3. OthersKeep(r)
    BY DEF OthersKeep, Account!Wrote
<2>4. LinksMove(r)
    BY DEF LinksMove, Spent
<2>5. KindFits(r)' /\ SpendsLinks(r)'
    BY <1>2, <2>1 DEF KindFits, SpendsLinks, Reset, Spent
<2>6. RemembersRow(r)'
    BY <1>2, <2>1 DEF RemembersRow
<2> QED
    BY <2>1, <2>2, <2>3, <2>4, <2>5, <2>6, AccountKept
<1>4. CASE Account!Update(r)
<2>1. /\ Account!Wrote(r, diff[r]) /\ UNCHANGED answer /\ "id" \notin diff[r]
      /\ step' = [step EXCEPT ![r] = s]
    BY <1>4 DEF Account!Update, s
<2>2. CASE Account!Loaded(r) = Nobody
<3>1. row' = row
    BY <1>4, <2>2 DEF Account!Update
<3> QED
    BY <1>3, <2>1, <3>1 DEF RowMoves
<2>3. CASE Account!Loaded(r) # Nobody
<3>1. row \in Account!Row /\ row.id = copy[r].id
    BY <2>3 DEF Account!Loaded
<3>2. row' = [k \in DOMAIN row |-> IF k \in diff[r] THEN copy[r][k] ELSE row[k]]
    BY <1>4, <2>3 DEF Account!Update
<3>3. row' \in Account!Row /\ row'.id = row.id
    BY <1>1, <2>1, <3>1, <3>2 DEF Account!Row
<3>4. \A q \in Changes \ {r}, k \in Account!Columns : row'[k] = row[k] \/ k \in changed'[q]
    BY <2>1, <3>1, <3>2 DEF Account!Wrote, Account!Row, Account!Columns
<3> QED
    BY <1>3, <2>1, <3>1, <3>3, <3>4 DEF RowMoves
<2> QED
    BY <2>2, <2>3
<1>5. CASE Account!Insert(r)
<2>1. CASE row = Nobody
<3>1. /\ row' = copy[r] /\ Account!Wrote(r, diff[r]) /\ UNCHANGED answer
      /\ step' = [step EXCEPT ![r] = s]
    BY <1>5, <2>1 DEF Account!Insert, s
<3> QED
    BY <1>1, <1>3, <2>1, <3>1 DEF RowMoves
<2>2. CASE row # Nobody
<3>1. Account!End(r, "error") /\ UNCHANGED <<row, changed>> /\ "error" \in Account!Answers
    BY <1>5, <2>2 DEF Account!Insert, Account!Answers
<3> QED
    BY <1>1, <3>1, Quits
<2> QED
    BY <2>1, <2>2
<1> QED
    BY <1>4, <1>5

\* A link marked used is a link.
LEMMA UsedLink ==
    ASSUME NEW l \in Account!Link
    PROVE  [l EXCEPT !.used = TRUE] \in Account!Link
    BY Zenon DEF Account!Link

\* The token of the request is saved used.
LEMMA UsesLink ==
    ASSUME AccountInv, NEW r \in Changes, Account!UseLink(r) PROVE AccountInv'
<1> USE AccountTypes DEF Account!At, Account!Goto, Account!locals
<1>1. /\ step[r] \in {"use", "useFirst"}
      /\ kind[r] = IF step[r] = "use" THEN "reset" ELSE "verify"
      /\ UNCHANGED <<row, clock, kind, now, copy, diff, using, marked, changed>>
    BY DEF Account!UseLink, KindFits
<1>2. CASE mailed[using[r].by] = Nobody
<2>1. Account!End(r, "error") /\ UNCHANGED mailed /\ "error" \in Account!Answers
    BY <1>2 DEF Account!UseLink, Account!Answers
<2> QED
    BY <1>1, <2>1, Quits
<1>3. CASE mailed[using[r].by] # Nobody
<2> DEFINE u == using[r].by
<2> DEFINE s == IF kind[r] = "reset" THEN "mark" ELSE "load"
<2> USE <1>1
<2>1. /\ mailed' = [mailed EXCEPT ![u].used = TRUE] /\ step' = [step EXCEPT ![r] = s]
      /\ UNCHANGED answer
    BY <1>3 DEF Account!UseLink
<2>2. step'[r] = s /\ step' \in [Changes -> Account!Stages]
    BY <2>1 DEF Account!Stages
<2>3. /\ mailed' \in [Account!Makers -> Account!Link \cup {Nobody}]
      /\ \A m \in Account!Makers :
            /\ mailed[m] = Nobody => mailed'[m] = Nobody
            /\ Spent(m) => Spent(m)'
            /\ m = u => Spent(m)'
<3>1. ASSUME NEW m \in Account!Makers, mailed[m] # Nobody
      PROVE  [mailed[m] EXCEPT !.used = TRUE] \in Account!Link
<4>1. mailed[m] \in Account!Link
    BY <3>1
<4> QED
    BY <4>1, UsedLink
<3> HIDE DEF u
<3> QED
    BY <1>3, <2>1, <3>1 DEF u, Spent, Account!Link
<2>4. Account!TypeOK'
    BY <2>1, <2>2, <2>3 DEF AccountInv, Account!TypeOK, Account!Maybe, Changeable
<2>5. OthersKeep(r) /\ RowMoves(r)
    BY <2>1 DEF OthersKeep, RowMoves
<2>6. LinksMove(r)
    BY <2>3 DEF LinksMove
<2>7. KindFits(r)'
    BY <2>2 DEF KindFits
<2>8. SpendsLinks(r)'
<3>1. kind[r] = "reset" => using[r] # Nobody /\ u \in Account!Makers
    BY DEF SpendsLinks, Account!LinkUse
<3>2. kind[r] = "reset" => Spent(using[r].by)'
    BY <2>3, <3>1
<3> QED
    BY <2>2, <2>3, <3>1, <3>2 DEF SpendsLinks, Reset
<2>9. RemembersRow(r)'
    BY <2>1, <2>2 DEF RemembersRow, Excused, Account!Loaded
<2> QED
    BY <2>2, <2>4, <2>5, <2>6, <2>7, <2>8, <2>9, AccountKept
<1> QED
    BY <1>2, <1>3

\* Every unused link of the user is marked used, and noted as marked.
LEMMA MarksLinks ==
    ASSUME AccountInv, NEW r \in Changes, Account!MarkLinks(r) PROVE AccountInv'
<1> USE AccountTypes DEF Account!At, Account!Goto
<1> DEFINE S == Account!LinksOf(copy[r].id, Account!Purpose(r))
<1> DEFINE s == IF kind[r] = "reset" THEN "done" ELSE "issue"
<1>1. /\ step[r] = "mark" /\ step' = [step EXCEPT ![r] = s]
      /\ marked' = [marked EXCEPT ![r] = S]
      /\ mailed' = Account!UsedUp(S)
      /\ now' \in [Changes -> Nat]
      /\ UNCHANGED <<row, clock, kind, copy, diff, using, answer, changed>>
    BY DEF Account!MarkLinks
<1>2. S \subseteq Account!Makers /\ \A m \in S : mailed[m] # Nobody
    BY DEF Account!LinksOf
<1>3. mailed' = [m \in Account!Makers |->
                    IF m \in S THEN [mailed[m] EXCEPT !.used = TRUE] ELSE mailed[m]]
    BY <1>1 DEF Account!UsedUp
<1> HIDE DEF S
<1>4. /\ mailed' \in [Account!Makers -> Account!Link \cup {Nobody}]
      /\ \A m \in Account!Makers :
            /\ mailed[m] = Nobody => mailed'[m] = Nobody
            /\ Spent(m) => Spent(m)'
            /\ m \in S => Spent(m)'
<2>1. ASSUME NEW m \in Account!Makers, mailed[m] # Nobody
      PROVE  [mailed[m] EXCEPT !.used = TRUE] \in Account!Link
<3>1. mailed[m] \in Account!Link
    BY <2>1
<3> QED
    BY <3>1, UsedLink
<2>2. ASSUME NEW m \in S PROVE mailed'[m].used
<3>1. mailed[m] \in Account!Link /\ mailed'[m] = [mailed[m] EXCEPT !.used = TRUE]
    BY <1>2, <1>3, <2>2
<3> QED
    BY <3>1, Zenon DEF Account!Link
<2> QED
    BY <1>2, <1>3, <2>1, <2>2 DEF Spent
<1>5. /\ step'[r] = s /\ step' \in [Changes -> Account!Stages] /\ marked'[r] = S
      /\ marked' \in [Changes -> SUBSET Account!Makers]
    BY <1>1, <1>2 DEF Account!Stages
<1>6. Account!TypeOK'
    BY <1>1, <1>4, <1>5 DEF AccountInv, Account!TypeOK, Account!Maybe, Changeable
<1>7. OthersKeep(r) /\ RowMoves(r)
    BY <1>1 DEF OthersKeep, RowMoves
<1>8. LinksMove(r)
    BY <1>1, <1>2, <1>4, <1>5 DEF LinksMove
<1>9. KindFits(r)' /\ RemembersRow(r)'
    BY <1>1, <1>5 DEF KindFits, RemembersRow
<1>10. SpendsLinks(r)'
<2>1. \A m \in marked'[r] : Spent(m)'
    BY <1>2, <1>4, <1>5
<2>2. kind[r] = "reset" => using[r] # Nobody /\ Spent(using[r].by)
    BY <1>1 DEF SpendsLinks, Reset
<2>3. using[r] # Nobody => using[r].by \in Account!Makers
    BY DEF Account!LinkUse
<2>4. kind[r] = "reset" => Spent(using[r].by)'
<3>1. SUFFICES ASSUME kind[r] = "reset" PROVE Spent(using[r].by)'
    OBVIOUS
<3>2. PICK m \in Account!Makers : m = using[r].by
    BY <2>2, <2>3, <3>1
<3>3. Spent(m)'
    BY <1>4, <2>2, <3>1, <3>2
<3> QED
    BY <1>1, <3>2, <3>3 DEF Spent
<2> QED
    BY <1>1, <1>5, <2>1, <2>2, <2>4 DEF SpendsLinks, Reset
<1> QED
    BY <1>1, <1>5, <1>6, <1>7, <1>8, <1>9, <1>10, AccountKept

\* The new link of the user, if he is still there.
LEMMA IssuesLink ==
    ASSUME AccountInv, NEW r \in Changes, Account!IssueLink(r) PROVE AccountInv'
<1> USE AccountTypes DEF Account!At, Account!Goto, Account!locals
<1>1. /\ step[r] = "issue" /\ kind[r] \in {"forgot", "register"}
      /\ UNCHANGED <<row, clock, kind, now, copy, diff, using, marked, changed>>
    BY DEF Account!IssueLink, KindFits
<1>2. CASE ~Account!UserExists(copy[r].id)
<2>1. Account!End(r, "error") /\ UNCHANGED mailed /\ "error" \in Account!Answers
    BY <1>2 DEF Account!IssueLink, Account!Answers
<2> QED
    BY <1>1, <2>1, Quits
<1>3. CASE Account!UserExists(copy[r].id)
<2> DEFINE new == [purpose |-> Account!Purpose(r), user |-> copy[r].id,
                   expires |-> now[r] + LinkFor, used |-> FALSE]
<2> USE <1>1
<2>1. /\ mailed' = [mailed EXCEPT ![r] = new] /\ step' = [step EXCEPT ![r] = "mail"]
      /\ UNCHANGED answer
    BY <1>3 DEF Account!IssueLink
<2>2. new \in Account!Link
<3>1. copy[r].id \in Account!Makers /\ Account!Purpose(r) \in {"reset", "verify"}
    BY <1>3 DEF Account!UserExists, Account!Row, Account!Purpose
<3>2. now[r] + LinkFor \in Nat
    OBVIOUS
<3> QED
    BY <3>1, <3>2, Zenon DEF Account!Link
<2> HIDE DEF new
<2>3. /\ step'[r] = "mail" /\ step' \in [Changes -> Account!Stages]
      /\ mailed' \in [Account!Makers -> Account!Link \cup {Nobody}]
      /\ \A m \in Account!Makers : m # r => mailed'[m] = mailed[m]
    BY <2>1, <2>2 DEF Account!Stages
<2>4. Account!TypeOK'
    BY <2>1, <2>3 DEF AccountInv, Account!TypeOK, Account!Maybe, Changeable
<2>5. OthersKeep(r) /\ RowMoves(r)
    BY <2>1 DEF OthersKeep, RowMoves
<2>6. LinksMove(r)
    BY <2>3 DEF LinksMove, Spent
<2>7. KindFits(r)' /\ RemembersRow(r)'
    BY <2>3 DEF KindFits, RemembersRow
<2>8. SpendsLinks(r)'
<3>1. \A m \in marked[r] : m # r /\ Spent(m)
    BY DEF SpendsLinks, Unissued
<3> QED
    BY <2>3, <3>1 DEF SpendsLinks, Reset, Spent
<2> QED
    BY <2>3, <2>4, <2>5, <2>6, <2>7, <2>8, AccountKept
<1> QED
    BY <1>2, <1>3

\* The row goes, and its links with it.
LEMMA Deletes ==
    ASSUME AccountInv, NEW r \in Changes, Account!Delete(r) PROVE AccountInv'
<1> USE AccountTypes DEF Account!At, Account!Goto, Account!locals
<1>1. /\ step[r] = "delete" /\ kind[r] \in {"delete", "deleteMe"}
      /\ step' = [step EXCEPT ![r] = "done"]
      /\ step'[r] = "done" /\ step' \in [Changes -> Account!Stages]
      /\ UNCHANGED <<clock, kind, now, copy, diff, using, marked, answer>>
    BY DEF Account!Delete, KindFits, Account!Stages
<1>2. /\ row' \in Account!Row \cup {Nobody}
      /\ mailed' \in [Account!Makers -> Account!Link \cup {Nobody}]
      /\ changed' \in [Changes -> SUBSET Changeable]
      /\ \A q \in Changes : changed[q] \subseteq changed'[q]
      /\ \A m \in Account!Makers : mailed'[m] \in {mailed[m], Nobody}
      /\ row' = row \/ \A q \in Changes \ {r} : Changeable \subseteq changed'[q]
<2>1. CASE Account!UserExists(copy[r].id)
<3>1. /\ row' = Nobody /\ Account!Wrote(r, Changeable)
      /\ mailed' = [m \in Account!Makers |->
                IF mailed[m] # Nobody /\ mailed[m].user = copy[r].id THEN Nobody ELSE mailed[m]]
    BY <2>1 DEF Account!Delete, Changeable
<3> QED
    BY <3>1 DEF Account!Wrote
<2>2. CASE ~Account!UserExists(copy[r].id)
    BY <2>2 DEF Account!Delete
<2> QED
    BY <2>1, <2>2
<1>3. Account!TypeOK'
    BY <1>1, <1>2 DEF AccountInv, Account!TypeOK, Account!Maybe, Changeable
<1>4. OthersKeep(r) /\ RowMoves(r)
    BY <1>1, <1>2 DEF OthersKeep, RowMoves
<1>5. LinksMove(r)
    BY <1>1, <1>2 DEF LinksMove, Spent
<1>6. KindFits(r)' /\ RemembersRow(r)'
    BY <1>1 DEF KindFits, RemembersRow
<1>7. SpendsLinks(r)'
    BY <1>1, <1>2 DEF SpendsLinks, Reset, Spent
<1> QED
    BY <1>1, <1>3, <1>4, <1>5, <1>6, <1>7, AccountKept

\* Every step of the registration keeps the account and its links.
LEMMA AccountStepKeeps ==
    AccountInv /\ [RegistrationNext]_registrationVars => AccountInv'
<1> SUFFICES ASSUME AccountInv, [RegistrationNext]_registrationVars PROVE AccountInv'
    OBVIOUS
<1>1. ASSUME NEW r \in Changes, Account!Mail(r) \/ Account!Fails(r) PROVE AccountInv'
<2> USE <1>1, AccountTypes DEF Account!At, Account!locals
<2>1. step[r] \notin {"idle", "done"}
    BY DEF Account!Mail, Account!Fails
<2>2. PICK how \in {"ok", "error"} : Account!End(r, how) /\ (how = "ok" => kind[r] # "reset")
    BY DEF Account!Mail, Account!Fails, KindFits
<2>3. UNCHANGED <<row, mailed, clock, kind, now, copy, diff, using, marked, changed>>
    BY DEF Account!Mail, Account!Fails
<2>4. how \in Account!Answers
    BY DEF Account!Answers
<2> QED
    BY <2>1, <2>2, <2>3, <2>4, Quits
<1>2. CASE UNCHANGED <<row, mailed, kind, step, now, copy, diff, using, marked, answer, changed>>
           /\ clock' \in Nat
<2> USE <1>2
<2>1. Account!TypeOK'
    BY DEF AccountInv, Account!TypeOK, Account!Maybe
<2>2. \A r \in Changes : KindFits(r)' /\ RemembersRow(r)' /\ Unissued(r)' /\ SpendsLinks(r)'
    BY DEF AccountInv, KindFits, RemembersRow, Unissued, SpendsLinks, Excused, Reset, Spent,
           Account!Loaded
<2> QED
    BY <2>1, <2>2 DEF AccountInv
<1>3. clock \in Nat
    BY DEF AccountInv, Account!TypeOK
<1>4. CASE Account!Next
<2>1. CASE Account!Tick
<3>1. clock' \in Nat
    BY <1>3, <2>1 DEF Account!Tick
<3> QED
    BY <1>2, <2>1, <3>1 DEF Account!Tick, Account!locals
<2>2. ASSUME NEW r \in Changes, Account!Submit(r) \/ Account!Step(r) \/ Account!Fails(r)
      PROVE  AccountInv'
    BY <1>1, <2>2, Submits, Registers, Asks, Reads, Loads, Writes, UsesLink, MarksLinks,
       IssuesLink, Deletes
       DEF Account!Step
<2> QED
    BY <1>4, <2>1, <2>2 DEF Account!Next
<1>5. CASE UNCHANGED accountVars
    BY <1>2, <1>3, <1>5 DEF accountVars
<1> QED
    BY <1>4, <1>5 DEF RegistrationNext, registrationVars

\* The whole-row save writes back a column that its request is not about only if somebody
\* else wrote it after the request had read the user, and inserts a row again only if it
\* was deleted meanwhile (UserRepository.save), for any number of requests.
THEOREM AccountRowCorrect == RegistrationSpec => []AccountRowHolds
<1>1. AccountInv => AccountRowHolds
    BY DEF AccountInv, RemembersRow, Excused, AccountRowHolds, Account!SaveKeepsWhatItRead,
           Account!At
<1> QED
    BY <1>1, AccountInit, AccountStepKeeps, PTL DEF RegistrationSpec

\* A reset that answered success has spent its link and every other one of the user that
\* existed when it marked them, and a link that was marked never works again
\* (ResetPasswordUseCase, RequestPasswordResetUseCase), for any number of requests.
THEOREM LinksSpent == RegistrationSpec => []LinksAreSpent
<1>1. AccountInv => LinksAreSpent
<2> SUFFICES ASSUME AccountInv PROVE LinksAreSpent
    OBVIOUS
<2>1. Account!ResetSpendsLinks
    BY DEF AccountInv, SpendsLinks, Reset, Spent, Account!ResetSpendsLinks, Account!At
<2>2. Account!TwoLinksNeedOverlap
    BY DEF AccountInv, SpendsLinks, Spent, Account!TwoLinksNeedOverlap, Account!Usable
<2> QED
    BY <2>1, <2>2 DEF LinksAreSpent
<1> QED
    BY <1>1, AccountInit, AccountStepKeeps, PTL DEF RegistrationSpec
=============================================================================
