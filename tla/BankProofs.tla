----------------------------- MODULE BankProofs -----------------------------
(***************************************************************************)
(* Proofs about Transfers and Bank.  First the transfer path alone, from   *)
(* the assumptions of Transfers: its inductive invariant, the safety       *)
(* properties that follow from it and the refinement of MoneyLedger.  Then *)
(* transfers and orders on the same rows: the invariants of both survive   *)
(* each other's steps, and statements and orders explain every balance.    *)
(***************************************************************************)
EXTENDS Bank, Sums, TLAPS


\* The constants, as the provers need them.
LEMMA ConstantFacts ==
    /\ \A r \in Requests :
           /\ r \in Request
           /\ r.source \in Accounts
           /\ r.amount \in Int
           /\ r.key \in Keys \cup {NoKey}
           /\ r.toAccount \in Accounts \cup {NoAccount}
           /\ r.toIban \in Accounts \cup {NoAccount}
           /\ Destination(r) \in Accounts \cup {NoAccount}
    /\ Attempts \subseteq Lockers
    /\ Free \notin Lockers
    /\ NoRequest \notin Requests
    /\ NoKey \notin Keys
    /\ Opening \in [Accounts -> Nat]
    BY AccountsAssumption, RequestsAssumption, ProcessAssumption
       DEF Request, Destination

\* Validation establishes RequestInv: an accepted request moves a positive
\* amount between two different accounts along an allowed route.
LEMMA AcceptedFacts ==
    ASSUME NEW r \in Requests, live \subseteq Accounts, Accepted(r)
    PROVE  /\ r.amount > 0
           /\ Destination(r) \in Accounts
           /\ Port!Route(r.source, Destination(r))
    BY ConstantFacts, AccountsAssumption
       DEF Accepted, SourceFound, DestinationAllowed, Destination, IsBank,
           Port!Route, Port!IsBank

\* The two locks are the two rows of the transfer.
LEMMA LockOrderFacts ==
    ASSUME NEW r
    PROVE  /\ {LockOrder(r)[1], LockOrder(r)[2]} = {r.source, Destination(r)}
    BY DEF LockOrder

\* The opening balances, no request yet.
LEMMA InitInv == Init => IInv
<1> SUFFICES ASSUME Init PROVE IInv
    OBVIOUS
<1>1. TypeOK
    BY ConstantFacts
       DEF Init, TypeOK, Steps, Outcomes, LineSet
<1>2. RequestInv /\ LockInv /\ VersionInv
    BY DEF Init, RequestInv, LockInv, VersionInv, InTransaction
<1>3. KeyInv /\ KeyOnce
    BY DEF Init, KeyInv, KeyState, KeyOnce, Committed, HoldsKey, InTransaction
<1>4. NoOverdraft
    BY ConstantFacts DEF Init, NoOverdraft
<1> QED
    BY <1>1, <1>2, <1>3, <1>4 DEF IInv

\* A step of p that neither commits p nor touches the request or the progress
\* of anybody else keeps KeyOnce.
LEMMA KeyOnceStep ==
    ASSUME KeyOnce, NEW p \in Attempts, ~Committed(p)',
           \A q \in Attempts \ {p} :
               (Committed(q)' <=> Committed(q)) /\ req'[q] = req[q]
    PROVE  KeyOnce'
    BY DEF KeyOnce

\* What a step of p leaves alone when it only writes the entries of p.
Others(p) ==
    \A q \in Attempts \ {p} :
        /\ pc'[q] = pc[q]
        /\ req'[q] = req[q]
        /\ outcome'[q] = outcome[q]
        /\ sourceVersion'[q] = sourceVersion[q]
        /\ destVersion'[q] = destVersion[q]

\* A step of p that uses no key keeps KeyInv when it leaves p in a good state
\* and p holds no key it did not hold before.
LEMMA KeyInvStep ==
    ASSUME KeyInv, NEW p \in Attempts, Others(p), UNCHANGED keys,
           KeyState(p)',
           \A k \in Keys : HoldsKey(p, k)' =>
               \/ HoldsKey(p, k)
               \/ \A q \in Attempts \ {p} : ~HoldsKey(q, k)
    PROVE  KeyInv'
<1>1. ASSUME NEW q \in Attempts PROVE KeyState(q)'
    BY DEF KeyInv, KeyState, Others, Committed
<1>2. ASSUME NEW q \in Attempts \ {p}, NEW k PROVE HoldsKey(q, k)' <=> HoldsKey(q, k)
    BY DEF HoldsKey, Others
<1>3. ASSUME NEW q1 \in Attempts, NEW q2 \in Attempts, NEW k \in Keys,
             HoldsKey(q1, k)', HoldsKey(q2, k)'
      PROVE  q1 = q2
    BY <1>2, <1>3 DEF KeyInv
<1> QED
    BY <1>1, <1>3 DEF KeyInv

\* A new attempt of a request holds no lock and has written nothing.
LEMMA SubmitInv ==
    ASSUME IInv, NEW p \in Attempts, NEW r \in Requests, Submit(p, r)
    PROVE  IInv'
<1> USE DEF IInv
<1>1. TypeOK'
    BY ConstantFacts DEF Submit, TypeOK, Steps, Outcomes, Finish, rowVars
<1>2. RequestInv'
    BY AcceptedFacts, ConstantFacts
       DEF Submit, RequestInv, TypeOK, Finish, rowVars, InTransaction, Steps
<1>3. LockInv'
    BY ConstantFacts DEF Submit, LockInv, TypeOK, Finish, rowVars, Steps
<1>4. VersionInv'
    BY ConstantFacts DEF Submit, VersionInv, TypeOK, Finish, rowVars, Steps
<1>5. Others(p)
    BY DEF Others, Submit, Finish, TypeOK
<1>6. KeyState(p) /\ pc[p] = "idle" /\ outcome[p] = "none"
    BY DEF KeyInv, KeyState, Submit
<1>7. KeyState(p)' /\ ~Committed(p)'
    BY <1>6, ConstantFacts
       DEF KeyState, Submit, Finish, TypeOK, rowVars, Committed, InTransaction
<1>8. \A k \in Keys : ~HoldsKey(p, k)'
    BY ConstantFacts DEF HoldsKey, Submit, Finish, TypeOK, InTransaction
<1>9. KeyInv'
    BY <1>5, <1>7, <1>8, KeyInvStep DEF Submit, rowVars
<1>10. KeyOnce'
    BY <1>5, <1>7, KeyOnceStep DEF Others, Committed
<1>11. NoOverdraft'
    BY DEF Submit, NoOverdraft, rowVars
<1> QED
    BY <1>1, <1>2, <1>3, <1>4, <1>9, <1>10, <1>11

\* The unique key lets one attempt of a request insert its row.
LEMMA InsertKeyInv ==
    ASSUME IInv, NEW p \in Attempts, InsertKey(p)
    PROVE  IInv'
<1> USE DEF IInv
<1>1. TypeOK'
    BY ConstantFacts DEF InsertKey, TypeOK, Steps, Outcomes, Finish, rowVars
<1>2. RequestInv'
    BY DEF InsertKey, RequestInv, TypeOK, Finish, rowVars, InTransaction, Steps
<1>3. LockInv'
    BY DEF InsertKey, LockInv, TypeOK, Finish, rowVars, Steps
<1>4. VersionInv'
    BY DEF InsertKey, VersionInv, TypeOK, Finish, rowVars, Steps
<1>5. Others(p)
    BY DEF Others, InsertKey, Finish, TypeOK
<1>6. KeyState(p) /\ pc[p] = "key" /\ outcome[p] = "none"
    BY DEF KeyInv, KeyState, InsertKey
<1>7. KeyState(p)' /\ ~Committed(p)'
    BY <1>6 DEF KeyState, InsertKey, Finish, TypeOK, rowVars, Committed,
                InTransaction
<1>8. \A k \in Keys : HoldsKey(p, k)' =>
          \A q \in Attempts \ {p} : ~HoldsKey(q, k)
    BY DEF HoldsKey, InsertKey
<1>9. KeyInv'
    BY <1>5, <1>7, <1>8, KeyInvStep DEF InsertKey, rowVars
<1>10. KeyOnce'
    BY <1>5, <1>7, KeyOnceStep DEF Others, Committed
<1>11. NoOverdraft'
    BY DEF InsertKey, NoOverdraft, rowVars
<1> QED
    BY <1>1, <1>2, <1>3, <1>4, <1>9, <1>10, <1>11

\* The first FOR UPDATE gives the attempt the account with the smaller id.
LEMMA LockFirstInv ==
    ASSUME IInv, NEW p \in Attempts, LockFirst(p)
    PROVE  IInv'
<1> USE DEF IInv
<1>1. TypeOK'
    BY ConstantFacts DEF LockFirst, LockRow, TypeOK, Steps, rowVars
<1>2. RequestInv'
    BY DEF LockFirst, RequestInv, TypeOK, rowVars, InTransaction, Steps
<1>3. LockInv'
    BY ConstantFacts, LockOrderFacts
       DEF LockFirst, LockRow, LockInv, TypeOK, rowVars, Steps
<1>4. VersionInv'
    BY DEF LockFirst, VersionInv, TypeOK, rowVars, Steps
<1>5. Others(p)
    BY DEF Others, LockFirst, TypeOK
<1>6. KeyState(p) /\ pc[p] = "lock1" /\ outcome[p] = "none"
    BY DEF KeyInv, KeyState, LockFirst
<1>7. KeyState(p)' /\ ~Committed(p)'
    BY <1>6 DEF KeyState, LockFirst, TypeOK, rowVars, Committed, InTransaction
<1>8. \A k \in Keys : HoldsKey(p, k)' => HoldsKey(p, k)
    BY <1>6 DEF HoldsKey, LockFirst, InTransaction
<1>9. KeyInv'
    BY <1>5, <1>7, <1>8, KeyInvStep DEF LockFirst, rowVars
<1>10. KeyOnce'
    BY <1>5, <1>7, KeyOnceStep DEF Others, Committed
<1>11. NoOverdraft'
    BY DEF LockFirst, NoOverdraft, rowVars
<1> QED
    BY <1>1, <1>2, <1>3, <1>4, <1>9, <1>10, <1>11

\* The second FOR UPDATE is taken while the first is held.
LEMMA LockSecondInv ==
    ASSUME IInv, NEW p \in Attempts, LockSecond(p)
    PROVE  IInv'
<1> USE DEF IInv
<1>1. TypeOK'
    BY ConstantFacts DEF LockSecond, LockRow, TypeOK, Steps, rowVars
<1>2. RequestInv'
    BY DEF LockSecond, RequestInv, TypeOK, rowVars, InTransaction, Steps
<1>3. LockInv'
<2> DEFINE first == LockOrder(req[p])[1]
           second == LockOrder(req[p])[2]
<2>1. \A a \in live : lock[a] # Free => lock'[a] = lock[a]
    BY DEF LockSecond, LockRow, TypeOK
<2>2. \A a \in {first, second} \cap live : lock'[a] = p
    BY <2>1, ConstantFacts DEF LockSecond, LockRow, LockInv, TypeOK
<2>3. \A a \in {req[p].source, Destination(req[p])} \cap live : lock'[a] = p
    BY <2>2, LockOrderFacts
<2>4. pc'[p] = "debit" /\ req'[p] = req[p] /\ live' = live
    BY DEF LockSecond, TypeOK, rowVars
<2>5. ASSUME NEW q \in Attempts \ {p}
      PROVE  /\ pc'[q] = pc[q] /\ req'[q] = req[q]
             /\ \A a \in live : lock[a] = q => lock'[a] = q
    BY <2>1, ConstantFacts DEF LockSecond, TypeOK
<2> QED
    BY <2>3, <2>4, <2>5 DEF LockInv
<1>4. VersionInv'
    BY DEF LockSecond, VersionInv, TypeOK, rowVars, Steps
<1>5. Others(p)
    BY DEF Others, LockSecond, TypeOK
<1>6. KeyState(p) /\ pc[p] = "lock2" /\ outcome[p] = "none"
    BY DEF KeyInv, KeyState, LockSecond
<1>7. KeyState(p)' /\ ~Committed(p)'
    BY <1>6 DEF KeyState, LockSecond, TypeOK, rowVars, Committed, InTransaction
<1>8. \A k \in Keys : HoldsKey(p, k)' => HoldsKey(p, k)
    BY <1>6 DEF HoldsKey, LockSecond, InTransaction
<1>9. KeyInv'
    BY <1>5, <1>7, <1>8, KeyInvStep DEF LockSecond, rowVars
<1>10. KeyOnce'
    BY <1>5, <1>7, KeyOnceStep DEF Others, Committed
<1>11. NoOverdraft'
    BY DEF LockSecond, NoOverdraft, rowVars
<1> QED
    BY <1>1, <1>2, <1>3, <1>4, <1>9, <1>10, <1>11

\* A rollback erases everything its transaction did.
LEMMA RollbackInv ==
    ASSUME IInv, NEW p \in Attempts, NEW result \in {"insufficient", "error"},
           pc[p] \in InTransaction, Rollback(p, result)
    PROVE  IInv'
<1> USE DEF IInv, Rollback, Release, Forget, Finish, rowVars
<1>1. TypeOK'
    BY ConstantFacts DEF TypeOK, Steps, Outcomes
<1>2. RequestInv'
    BY DEF RequestInv, TypeOK, InTransaction, Steps
<1>3. LockInv'
    BY LockOrderFacts, ConstantFacts DEF LockInv, TypeOK, Steps
<1>4. VersionInv'
    BY DEF VersionInv, TypeOK, Steps
<1>5. Others(p)
    BY DEF Others, TypeOK
<1>6. KeyState(p)' /\ ~Committed(p)' /\ ~Committed(p)
    BY DEF KeyInv, KeyState, TypeOK, Committed, InTransaction
<1>7. \A k \in Keys : ~HoldsKey(p, k)'
    BY DEF HoldsKey, InTransaction, TypeOK
<1>8. KeyInv'
    BY <1>5, <1>6, <1>7, KeyInvStep
<1>9. KeyOnce'
    BY <1>5, <1>6, KeyOnceStep DEF Others, Committed
<1>10. NoOverdraft'
    BY DEF NoOverdraft
<1> QED
    BY <1>1, <1>2, <1>3, <1>4, <1>8, <1>9, <1>10

\* An attempt that aborts releases its locks and leaves no row.
LEMMA AbortInv ==
    ASSUME IInv, NEW p \in Attempts, Abort(p)
    PROVE  IInv'
    BY RollbackInv DEF Abort

\* The debit keeps the invariant: the version it writes is never negative, and
\* the row lock it holds keeps the balance it started from.
LEMMA DebitInv ==
    ASSUME IInv, NEW p \in Attempts, Debit(p)
    PROVE  IInv'
<1> USE DEF IInv
<1> DEFINE s == req[p].source
           matched == s \in live /\ SufficientFunds(req[p])
<1>1. pc[p] = "debit" /\ req[p] \in Requests /\ s \in Accounts /\ req[p].amount \in Int
    BY ConstantFacts DEF Debit, RequestInv, InTransaction
<1>2. CASE Rollback(p, "insufficient") \/ Rollback(p, "error")
    BY <1>1, <1>2, RollbackInv DEF InTransaction
<1>3. CASE /\ SeesARow(matched)
           /\ s \in live
           /\ sourceVersion' = [sourceVersion EXCEPT ![p] =
                  IF matched THEN balance[s] - req[p].amount ELSE Unwritten]
           /\ TakeLock(p, s, matched)
           /\ pc' = [pc EXCEPT ![p] = "credit"]
           /\ UNCHANGED <<rowVars, req, destVersion, outcome, notices>>
<2> USE <1>3
<2>1. lock[s] = p /\ lock' = lock
    BY <1>1 DEF LockInv, TakeLock, TypeOK
<2>2. TypeOK'
    BY <1>1, <2>1 DEF TypeOK, Steps, rowVars
<2>3. RequestInv'
    BY <1>1 DEF RequestInv, TypeOK, rowVars, InTransaction, Steps
<2>4. LockInv'
    BY <1>1, <2>1 DEF LockInv, TypeOK, rowVars, Steps
<2>5. \/ matched /\ balance[s] - req[p].amount \in Nat
      \/ ~matched /\ balance[s] < req[p].amount /\ shape = "pair"
    BY <1>1 DEF SeesARow, SufficientFunds, TypeOK
<2>6. VersionInv'
    BY <1>1, <2>5 DEF VersionInv, TypeOK, rowVars, Steps
<2>7. Others(p)
    BY DEF Others, TypeOK
<2>8. KeyState(p)' /\ ~Committed(p)'
    BY <1>1 DEF KeyInv, KeyState, TypeOK, rowVars, Committed, InTransaction
<2>9. \A k \in Keys : HoldsKey(p, k)' => HoldsKey(p, k)
    BY <1>1 DEF HoldsKey, InTransaction
<2>10. KeyInv'
    BY <2>7, <2>8, <2>9, KeyInvStep DEF rowVars
<2>11. KeyOnce'
    BY <2>7, <2>8, KeyOnceStep DEF Others, Committed
<2>12. NoOverdraft'
    BY DEF NoOverdraft, rowVars
<2> QED
    BY <2>2, <2>3, <2>4, <2>6, <2>10, <2>11, <2>12
<1> QED
    BY <1>2, <1>3 DEF Debit

\* Debit and credit of an attempt move the amount of its request.
LEMMA CreditInv ==
    ASSUME IInv, NEW p \in Attempts, Credit(p)
    PROVE  IInv'
<1> USE DEF IInv
<1> DEFINE d == Destination(req[p])
<1>1. /\ pc[p] = "credit" /\ req[p] \in Requests /\ d \in Accounts
      /\ req[p].amount \in Int
    BY ConstantFacts DEF Credit, RequestInv, InTransaction
<1>2. CASE Rollback(p, "error")
    BY <1>1, <1>2, RollbackInv DEF InTransaction
<1>3. CASE /\ d \in live
           /\ destVersion' = [destVersion EXCEPT ![p] = balance[d] + req[p].amount]
           /\ TakeLock(p, d, TRUE)
           /\ pc' = [pc EXCEPT ![p] = "commit"]
           /\ UNCHANGED <<rowVars, req, sourceVersion, outcome, notices>>
<2> USE <1>3
<2>1. lock[d] = p /\ lock' = lock
    BY <1>1 DEF LockInv, TakeLock, TypeOK
<2>2. TypeOK'
    BY <1>1, <2>1 DEF TypeOK, Steps, rowVars
<2>3. RequestInv'
    BY <1>1 DEF RequestInv, TypeOK, rowVars, InTransaction, Steps
<2>4. LockInv'
    BY <1>1, <2>1 DEF LockInv, TypeOK, rowVars, Steps
<2>5. VersionInv'
    BY <1>1 DEF VersionInv, TypeOK, rowVars, Steps
<2>6. Others(p)
    BY DEF Others, TypeOK
<2>7. KeyState(p)' /\ ~Committed(p)'
    BY <1>1 DEF KeyInv, KeyState, TypeOK, rowVars, Committed, InTransaction
<2>8. \A k \in Keys : HoldsKey(p, k)' => HoldsKey(p, k)
    BY <1>1 DEF HoldsKey, InTransaction
<2>9. KeyInv'
    BY <2>6, <2>7, <2>8, KeyInvStep DEF rowVars
<2>10. KeyOnce'
    BY <2>6, <2>7, KeyOnceStep DEF Others, Committed
<2>11. NoOverdraft'
    BY DEF NoOverdraft, rowVars
<2> QED
    BY <2>2, <2>3, <2>4, <2>5, <2>9, <2>10, <2>11
<1> QED
    BY <1>2, <1>3 DEF Credit

\* The commit: the rows it replaces are locked by p, so no other version was
\* computed from them, and p is the only holder of its key.
LEMMA CommitInv ==
    ASSUME IInv, NEW p \in Attempts, Commit(p)
    PROVE  IInv'
<1> USE DEF IInv
<1> DEFINE r == req[p]
           s == r.source
           d == Destination(r)
           held == {s, d} \cap live
<1>1. /\ pc[p] = "commit" /\ r \in Requests /\ r.amount \in Int /\ r.amount > 0
      /\ s \in live /\ d \in live /\ s \in Accounts /\ d \in Accounts /\ s # d
      /\ lock[s] = p /\ lock[d] = p
    BY ConstantFacts
       DEF Commit, RequestInv, InTransaction, VersionInv, LockInv, Port!Route
<1>2. /\ sourceVersion[p] \in Nat \/ sourceVersion[p] = Unwritten
      /\ destVersion[p] = balance[d] + r.amount
      /\ sourceVersion[p] = Unwritten => shape = "pair" /\ balance[s] < r.amount
    BY <1>1, DriverAssumption DEF VersionInv
<1>3. /\ balance[d] \in Nat /\ balance[s] \in Nat /\ destVersion[p] \in Nat
    BY <1>1, <1>2 DEF TypeOK, NoOverdraft
<1>4. /\ balance' \in [Accounts -> Int]
      /\ \A a \in Accounts : balance'[a] >= 0
      /\ \A a \in Accounts \ {s, d} : balance'[a] = balance[a]
<2> DEFINE left == IF sourceVersion[p] = Unwritten THEN balance[s]
                   ELSE sourceVersion[p]
<2>1. left \in Nat
    BY <1>2, <1>3
<2>2. balance' = [balance EXCEPT ![s] = left, ![d] = destVersion[p]]
    BY DEF Commit
<2> HIDE DEF left
<2>3. \A a \in Accounts :
          balance'[a] = IF a = d THEN destVersion[p]
                        ELSE IF a = s THEN left ELSE balance[a]
    BY <2>2, <1>1 DEF TypeOK
<2>4. balance' \in [Accounts -> Int]
    BY <2>1, <2>2, <1>1, <1>3 DEF TypeOK
<2> QED
    BY <2>1, <2>3, <2>4, <1>3 DEF NoOverdraft
<1>5. \A a \in Accounts \ {s, d} : balance'[a] = balance[a]
    BY <1>4
<1>6. ReturnedBalance(sourceVersion[p]) \in Int \cup {NotANumber}
      /\ ReturnedBalance(destVersion[p]) \in Int \cup {NotANumber}
    BY <1>2, <1>3 DEF ReturnedBalance
<1>7. /\ OutLine(p, s, r.amount, sourceVersion[p]) \in LineSet
      /\ InLine(p, d, r.amount, destVersion[p]) \in LineSet
    BY <1>1, <1>6 DEF OutLine, InLine, Line, LineSet
<1>8. ledger' \in [Accounts -> Seq(LineSet)]
<2> DEFINE out == OutLine(p, s, r.amount, sourceVersion[p])
           in == InLine(p, d, r.amount, destVersion[p])
<2>1. ledger' = [ledger EXCEPT ![s] = Append(@, out), ![d] = Append(@, in)]
    BY DEF Commit
<2>2. out \in LineSet /\ in \in LineSet
    BY <1>7
<2> HIDE DEF out, in
<2>3. Append(ledger[s], out) \in Seq(LineSet) /\ Append(ledger[d], in) \in Seq(LineSet)
    BY <2>2, <1>1 DEF TypeOK
<2> QED
    BY <2>1, <2>3, <1>1 DEF TypeOK
<1>9. keys' \subseteq Keys
    BY <1>1, ConstantFacts DEF Commit, TypeOK
<1>10. TypeOK'
<2>1. unfunded' \in [Accounts -> Nat]
<3>1. unfunded[s] + r.amount \in Nat /\ unfunded \in [Accounts -> Nat]
    BY <1>1 DEF TypeOK
<3>2. unfunded' = [unfunded EXCEPT
                      ![s] = IF sourceVersion[p] = Unwritten
                             THEN unfunded[s] + r.amount ELSE unfunded[s]]
    BY <3>1 DEF Commit
<3> HIDE DEF s, r
<3> QED
    BY <3>1, <3>2
<2>2. shape' = shape
    BY DEF Commit
<2> QED
    BY <1>4, <1>8, <1>9, <1>1, <2>1, <2>2, ConstantFacts
       DEF TypeOK, Commit, Release, Forget, Steps
<1>11. RequestInv'
    BY <1>1 DEF Commit, RequestInv, TypeOK, InTransaction, Steps
<1>12. Others(p)
    BY DEF Others, Commit, Forget, TypeOK
<1>13. pc'[p] = "answer" /\ req' = req /\ live' = live /\ outcome' = outcome
       /\ shape' = shape
       /\ sourceVersion'[p] = Unwritten /\ destVersion'[p] = Unwritten
    BY DEF Commit, Forget, TypeOK
<1>14. \A q \in Attempts \ {p} : \A a \in Accounts : lock[a] = q => lock'[a] = q
    BY DEF Commit, Release
<1>15. LockInv'
<2>1. live \subseteq Accounts
    BY DEF TypeOK
<2> QED
    BY <2>1, <1>12, <1>13, <1>14 DEF LockInv, Others
<1>16. ASSUME NEW q \in Attempts \ {p}, pc[q] \in {"credit", "commit"}
       PROVE  req[q].source \notin {s, d}
              /\ (pc[q] = "commit" => Destination(req[q]) \notin {s, d})
    BY <1>1, <1>16 DEF LockInv, VersionInv
<1>17. VersionInv'
<2>1. ASSUME NEW q \in Attempts \ {p}, pc[q] \in {"credit", "commit"}
      PROVE  balance'[req[q].source] = balance[req[q].source]
             /\ (pc[q] = "commit" =>
                    balance'[Destination(req[q])] = balance[Destination(req[q])])
    BY <1>5, <1>16, <2>1 DEF VersionInv, TypeOK
<2> QED
    BY <2>1, <1>12, <1>13 DEF VersionInv, Others
<1>18. HoldsKey(p, r.key) /\ r.key \notin keys /\ outcome[p] = "none"
    BY <1>1 DEF HoldsKey, InTransaction, KeyInv, KeyState
<1>19. r.key \in Keys \cup {NoKey}
       /\ keys' = IF r.key = NoKey THEN keys ELSE keys \cup {r.key}
    BY <1>1, ConstantFacts DEF Commit
<1>20. ASSUME NEW q \in Attempts PROVE KeyState(q)'
<2>1. CASE q = p
    BY <2>1, <1>1, <1>13, <1>18, <1>19
       DEF KeyState, Committed, InTransaction
<2>2. CASE q # p
<3>1. KeyState(q) /\ (HoldsKey(q, r.key) => r.key \notin Keys)
    BY <2>2, <1>18 DEF KeyInv
<3> QED
    BY <3>1, <2>2, <1>12, <1>19, ConstantFacts
       DEF KeyState, Committed, Others, HoldsKey, TypeOK
<2> QED
    BY <2>1, <2>2
<1>21. ASSUME NEW q1 \in Attempts, NEW q2 \in Attempts, NEW k \in Keys,
              HoldsKey(q1, k)', HoldsKey(q2, k)'
       PROVE  q1 = q2
<2>1. HoldsKey(q1, k) /\ HoldsKey(q2, k)
    BY <1>12, <1>13, <1>21 DEF HoldsKey, Others, InTransaction
<2> QED
    BY <2>1 DEF KeyInv
<1>22. KeyInv'
    BY <1>20, <1>21 DEF KeyInv
<1>23. ASSUME NEW q \in Attempts \ {p}, Committed(q)', req[q].key = r.key,
              r.key # NoKey
       PROVE  FALSE
<2>1. Committed(q) /\ KeyState(q)
    BY <1>12, <1>23 DEF Committed, Others, KeyInv
<2> QED
    BY <2>1, <1>18, <1>23 DEF KeyState
<1>24. KeyOnce'
    BY <1>12, <1>13, <1>23 DEF KeyOnce, Others, Committed
<1>25. NoOverdraft'
    BY <1>4 DEF NoOverdraft
<1> QED
    BY <1>10, <1>11, <1>15, <1>17, <1>22, <1>24, <1>25

\* The answer is what the attempt committed.
LEMMA AnswerInv ==
    ASSUME IInv, NEW p \in Attempts, Answer(p)
    PROVE  IInv'
<1> USE DEF IInv, Finish
<1>1. TypeOK'
    BY DEF Answer, TypeOK, Steps, Outcomes, rowVars
<1>2. RequestInv'
    BY DEF Answer, RequestInv, TypeOK, rowVars, InTransaction, Steps
<1>3. LockInv'
    BY DEF Answer, LockInv, TypeOK, rowVars, Steps
<1>4. VersionInv'
    BY DEF Answer, VersionInv, TypeOK, rowVars, Steps
<1>5. Others(p)
    BY DEF Others, Answer, TypeOK
<1>6. KeyState(p)'
    BY DEF KeyInv, KeyState, Answer, TypeOK, rowVars, Committed, InTransaction
<1>7. \A k \in Keys : ~HoldsKey(p, k)'
    BY DEF HoldsKey, Answer, TypeOK, InTransaction
<1>8. KeyInv'
    BY <1>5, <1>6, <1>7, KeyInvStep DEF Answer, rowVars
<1>9. \A q \in Attempts : Committed(q)' <=> Committed(q)
    BY <1>5 DEF Committed, Answer, TypeOK, Others
<1>10. KeyOnce'
    BY <1>9 DEF KeyOnce, Answer
<1>11. NoOverdraft'
    BY DEF Answer, NoOverdraft, rowVars
<1> QED
    BY <1>1, <1>2, <1>3, <1>4, <1>8, <1>10, <1>11

\* A lost answer changes no row.
LEMMA LoseAnswerInv ==
    ASSUME IInv, NEW p \in Attempts, LoseAnswer(p)
    PROVE  IInv'
<1> USE DEF IInv, Finish
<1>1. TypeOK'
    BY DEF LoseAnswer, TypeOK, Steps, Outcomes, rowVars
<1>2. RequestInv'
    BY DEF LoseAnswer, RequestInv, TypeOK, rowVars, InTransaction, Steps
<1>3. LockInv'
    BY DEF LoseAnswer, LockInv, TypeOK, rowVars, Steps
<1>4. VersionInv'
    BY DEF LoseAnswer, VersionInv, TypeOK, rowVars, Steps
<1>5. Others(p)
    BY DEF Others, LoseAnswer, TypeOK
<1>6. KeyState(p)'
    BY DEF KeyInv, KeyState, LoseAnswer, TypeOK, rowVars, Committed,
           InTransaction
<1>7. \A k \in Keys : ~HoldsKey(p, k)'
    BY DEF HoldsKey, LoseAnswer, TypeOK, InTransaction
<1>8. KeyInv'
    BY <1>5, <1>6, <1>7, KeyInvStep DEF LoseAnswer, rowVars
<1>9. \A q \in Attempts : Committed(q)' <=> Committed(q)
    BY <1>5 DEF Committed, LoseAnswer, TypeOK, Others
<1>10. KeyOnce'
    BY <1>9 DEF KeyOnce, LoseAnswer
<1>11. NoOverdraft'
    BY DEF LoseAnswer, NoOverdraft, rowVars
<1> QED
    BY <1>1, <1>2, <1>3, <1>4, <1>8, <1>10, <1>11

\* Deleting a user waits for the row locks, so no transaction past its locks
\* loses a row.
LEMMA DeleteUserInv ==
    ASSUME IInv, NEW u, DeleteUser(u)
    PROVE  IInv'
<1> USE DEF IInv
<1> DEFINE rows == {a \in live : Owner[a] = u}
<1>1. /\ live' = live \ rows
      /\ \A a \in rows : lock[a] = Free
      /\ UNCHANGED <<balance, keys, lock, pc, req, sourceVersion, destVersion,
                     outcome, notices, shape, unfunded>>
      /\ ledger' = [a \in Accounts |-> IF a \in rows THEN <<>> ELSE ledger[a]]
    BY DEF DeleteUser
<1>2. TypeOK'
    BY <1>1 DEF TypeOK
<1>3. RequestInv' /\ NoOverdraft' /\ KeyOnce' /\ KeyInv'
    BY <1>1 DEF RequestInv, NoOverdraft, KeyOnce, Committed, KeyInv, KeyState,
                HoldsKey
<1>4. LockInv'
    BY <1>1 DEF LockInv
<1>5. ASSUME NEW q \in Attempts, NEW a \in live, lock[a] = q
      PROVE  a \in live'
    BY <1>1, <1>5, ConstantFacts
<1>6. ASSUME NEW q \in Attempts, pc[q] \in {"credit", "commit"}
      PROVE  /\ req[q].source \in live'
             /\ pc[q] = "commit" => Destination(req[q]) \in live'
    BY <1>5, <1>6 DEF VersionInv, LockInv
<1>7. VersionInv'
    BY <1>1, <1>6 DEF VersionInv
<1> QED
    BY <1>2, <1>3, <1>4, <1>7

\* Every step keeps the invariant.
LEMMA NextInv == IInv /\ [Next]_vars => IInv'
<1> SUFFICES ASSUME IInv, [Next]_vars PROVE IInv'
    OBVIOUS
<1>1. ASSUME NEW p \in Attempts, NEW r \in Requests, Submit(p, r) PROVE IInv'
    BY <1>1, SubmitInv
<1>2. ASSUME NEW p \in Attempts, Proceed(p) PROVE IInv'
    BY <1>2, InsertKeyInv, LockFirstInv, LockSecondInv, DebitInv, CreditInv,
       CommitInv, AnswerInv DEF Proceed
<1>3. ASSUME NEW p \in Attempts, Abort(p) \/ LoseAnswer(p) PROVE IInv'
    BY <1>3, AbortInv, LoseAnswerInv
<1>4. ASSUME NEW a \in Accounts, DeleteUser(Owner[a]) PROVE IInv'
    BY <1>4, DeleteUserInv
<1>5. CASE UNCHANGED vars
    BY <1>5
       DEF vars, rowVars, IInv, TypeOK, RequestInv, LockInv, VersionInv, KeyInv,
           KeyState, HoldsKey, NoOverdraft, KeyOnce, Committed
<1> QED
    BY <1>1, <1>2, <1>3, <1>4, <1>5 DEF Next, TransferNext

-----------------------------------------------------------------------------
\* The inductive invariant holds of every behaviour of the transfer path, for
\* any accounts, requests and number of concurrent executions, and for both
\* result shapes of the driver.
THEOREM InductiveInvariant == Spec => []IInv
<1>1. Init => IInv
    BY InitInv
<1>2. IInv /\ [Next]_vars => IInv'
    BY NextInv
<1> QED
    BY <1>1, <1>2, PTL DEF Spec

\* Every variable of the transfer path keeps its type.
THEOREM TypeCorrectness == Spec => []TypeOK
<1>1. IInv => TypeOK
    BY DEF IInv
<1> QED
    BY <1>1, InductiveInvariant, PTL

\* No committed balance is ever negative: the row lock keeps the balance the
\* conditional debit has tested until the transaction ends.
THEOREM BalancesNeverNegative == Spec => []NoOverdraft
<1>1. IInv => NoOverdraft
    BY DEF IInv
<1> QED
    BY <1>1, InductiveInvariant, PTL

\* One idempotency key moves money at most once: a transaction that holds the
\* key keeps every other one waiting, and a committed key is refused.
THEOREM KeysUsedOnce == Spec => []KeyOnce
<1>1. IInv => KeyOnce
    BY DEF IInv
<1> QED
    BY <1>1, InductiveInvariant, PTL

-----------------------------------------------------------------------------
(* What the client learns, and what the statements say.                    *)

\* A key in the table was brought by a transfer that was committed.
KeysAreCommitted ==
    \A k \in keys : \E q \in Attempts : Committed(q) /\ req[q].key = k

AnswersHold == AnswersMatchLedger /\ KeysAreCommitted

\* A step that commits nothing, and answers "duplicate" only of a committed key.
LEMMA AnswersKept ==
    ASSUME AnswersHold, UNCHANGED <<live, ledger, keys>>,
           \A q \in Attempts :
               /\ Committed(q)' <=> Committed(q)
               /\ Committed(q) => req'[q] = req[q]
               /\ outcome'[q] = "duplicate" =>
                      \/ outcome[q] = "duplicate" /\ req'[q] = req[q]
                      \/ req'[q].key \in keys
               /\ q \in notices' => q \in notices \/ Committed(q)
    PROVE  AnswersHold'
<1> USE DEF AnswersHold
<1>1. KeysAreCommitted'
    BY DEF KeysAreCommitted
<1>2. ASSUME NEW p \in Attempts, NEW a \in live
      PROVE  (\E i \in 1..Len(ledger[a]) : ledger[a][i].by = p)
             <=> Committed(p)' /\ a \in {req'[p].source, Destination(req'[p])}
    BY DEF AnswersMatchLedger
<1>3. ASSUME NEW p \in Attempts, outcome'[p] = "duplicate"
      PROVE  \E q \in Attempts : Committed(q)' /\ req'[q].key = req'[p].key
    BY <1>3 DEF AnswersMatchLedger, KeysAreCommitted
<1>4. \A p \in Attempts : p \in notices' => Committed(p)'
    BY DEF AnswersMatchLedger
<1> QED
    BY <1>1, <1>2, <1>3, <1>4 DEF AnswersMatchLedger

\* Every step that leaves the statements alone.
LEMMA AnswersOutsideCommit ==
    ASSUME IInv, AnswersHold, NEW p \in Attempts,
           \/ \E r \in Requests : Submit(p, r)
           \/ InsertKey(p) \/ LockFirst(p) \/ LockSecond(p) \/ Debit(p) \/ Credit(p)
           \/ Answer(p) \/ LoseAnswer(p) \/ Abort(p)
    PROVE  AnswersHold'
<1>a. TypeOK /\ \A q \in Attempts : KeyState(q)
    BY DEF IInv, KeyInv
<1>b. pc \in [Attempts -> Steps] /\ req \in [Attempts -> Requests \cup {NoRequest}]
      /\ outcome \in [Attempts -> Outcomes]
    BY <1>a DEF TypeOK
<1>c. pc[p] # "done" => outcome[p] = "none"
    BY <1>a DEF KeyState
<1> USE <1>b, <1>c
<1>1. CASE \E r \in Requests : Submit(p, r)
<2>1. PICK r \in Requests : Submit(p, r)
    BY <1>1
<2>2. UNCHANGED <<live, ledger, keys, notices>> /\ ~Committed(p) /\ ~Committed(p)'
      /\ outcome'[p] # "duplicate"
    BY <2>1 DEF Submit, rowVars, Committed, Finish
<2>3. \A q \in Attempts \ {p} : pc'[q] = pc[q] /\ req'[q] = req[q] /\ outcome'[q] = outcome[q]
    BY <2>1 DEF Submit, Finish
<2> QED
    BY <2>2, <2>3, AnswersKept DEF Committed
<1>2. CASE InsertKey(p)
<2>1. UNCHANGED <<live, ledger, keys, notices, req>> /\ ~Committed(p) /\ ~Committed(p)'
      /\ (outcome'[p] = "duplicate" => req[p].key \in keys)
    BY <1>2 DEF InsertKey, rowVars, Committed, Finish
<2>2. \A q \in Attempts \ {p} : pc'[q] = pc[q] /\ outcome'[q] = outcome[q]
    BY <1>2 DEF InsertKey, Finish
<2> QED
    BY <2>1, <2>2, AnswersKept DEF Committed
<1>3. ASSUME NEW result \in {"insufficient", "error"}, Rollback(p, result),
             pc[p] \in InTransaction
      PROVE  AnswersHold'
<2>1. UNCHANGED <<live, ledger, keys, notices, req>> /\ ~Committed(p) /\ ~Committed(p)'
      /\ outcome'[p] # "duplicate"
    BY <1>3 DEF Rollback, Committed, Finish, InTransaction, rowVars
<2>2. \A q \in Attempts \ {p} : pc'[q] = pc[q] /\ outcome'[q] = outcome[q]
    BY <1>3 DEF Rollback, Finish
<2> QED
    BY <2>1, <2>2, AnswersKept DEF Committed
<1>4. ASSUME UNCHANGED <<live, ledger, keys, notices, req, outcome>>,
             NEW next \in {"lock2", "debit", "credit", "commit"},
             pc[p] # "answer", pc' = [pc EXCEPT ![p] = next]
      PROVE  AnswersHold'
<2>1. \A q \in Attempts : Committed(q)' <=> Committed(q)
    BY <1>4 DEF Committed
<2> QED
    BY <1>4, <2>1, AnswersKept
<1>5. CASE LockFirst(p) \/ LockSecond(p)
    BY <1>4, <1>5 DEF LockFirst, LockSecond, rowVars
<1>6. CASE Debit(p)
    BY <1>3, <1>4, <1>6 DEF Debit, rowVars, InTransaction
<1>7. CASE Credit(p)
    BY <1>3, <1>4, <1>7 DEF Credit, rowVars, InTransaction
<1>8. CASE Abort(p)
    BY <1>3, <1>8 DEF Abort
<1>9. CASE Answer(p) \/ LoseAnswer(p)
<2>1. UNCHANGED <<live, ledger, keys, req>> /\ Committed(p) /\ Committed(p)'
      /\ outcome'[p] # "duplicate" /\ notices' \subseteq notices \cup {p}
    BY <1>9 DEF Answer, LoseAnswer, rowVars, Committed, Finish
<2>2. \A q \in Attempts \ {p} : pc'[q] = pc[q] /\ outcome'[q] = outcome[q]
    BY <1>9 DEF Answer, LoseAnswer, Finish
<2> QED
    BY <2>1, <2>2, AnswersKept DEF Committed
<1> QED
    BY <1>1, <1>2, <1>5, <1>6, <1>7, <1>8, <1>9

\* What a commit does to the statements: one line more for each of the two accounts.
LEMMA CommitWrites ==
    ASSUME IInv, NEW p \in Attempts, Commit(p)
    PROVE  LET r == req[p]
               s == r.source
               d == Destination(r)
               out == OutLine(p, s, r.amount, sourceVersion[p])
               in == InLine(p, d, r.amount, destVersion[p])
           IN  /\ s \in live /\ d \in live /\ s # d /\ live \subseteq Accounts
               /\ out.by = p /\ in.by = p /\ out \in LineSet /\ in \in LineSet
               /\ \A a \in Accounts : ledger[a] \in Seq(LineSet)
               /\ \A a \in Accounts :
                     ledger'[a] = IF a = s THEN Append(ledger[a], out)
                                  ELSE IF a = d THEN Append(ledger[a], in) ELSE ledger[a]
<1> USE DEF IInv
<1> DEFINE r == req[p]
           s == r.source
           d == Destination(r)
           out == OutLine(p, s, r.amount, sourceVersion[p])
           in == InLine(p, d, r.amount, destVersion[p])
<1>1. /\ r \in Requests /\ r.amount \in Int
      /\ s \in live /\ d \in live /\ live \subseteq Accounts /\ s # d
    BY ConstantFacts
       DEF Commit, RequestInv, InTransaction, VersionInv, Port!Route, TypeOK
<1>2. /\ sourceVersion[p] \in Int \/ shape = "pair"
      /\ destVersion[p] \in Int
<2>1. pc[p] = "commit" /\ balance[d] \in Int
    BY <1>1 DEF Commit, TypeOK
<2>2. /\ sourceVersion[p] \in Nat \/ shape = "pair"
      /\ destVersion[p] = balance[d] + r.amount
    BY <2>1 DEF VersionInv
<2> QED
    BY <1>1, <2>1, <2>2
<1>3. /\ ReturnedBalance(sourceVersion[p]) \in Int \cup {NotANumber}
      /\ ReturnedBalance(destVersion[p]) \in Int \cup {NotANumber}
    BY <1>2 DEF ReturnedBalance
<1>4. out.by = p /\ in.by = p /\ out \in LineSet /\ in \in LineSet
    BY <1>1, <1>3 DEF OutLine, InLine, Line, LineSet
<1>5. ledger' = [ledger EXCEPT ![s] = Append(@, out), ![d] = Append(@, in)]
      /\ ledger \in [Accounts -> Seq(LineSet)]
    BY DEF Commit, TypeOK
<1> HIDE DEF r, s, d, out, in
<1>6. \A a \in Accounts :
          ledger'[a] = IF a = s THEN Append(ledger[a], out)
                       ELSE IF a = d THEN Append(ledger[a], in) ELSE ledger[a]
    BY <1>1, <1>5
<1> QED
    BY <1>1, <1>4, <1>5, <1>6 DEF r, s, d, out, in

\* A line more does not change who wrote the others.
LEMMA AppendedBy ==
    ASSUME NEW old \in Seq(LineSet), NEW line \in LineSet, NEW p
    PROVE  (\E i \in 1..Len(Append(old, line)) : Append(old, line)[i].by = p)
           <=> (\E i \in 1..Len(old) : old[i].by = p) \/ line.by = p
<1>1. /\ Len(Append(old, line)) = Len(old) + 1 /\ Len(old) \in Nat
      /\ Append(old, line)[Len(old) + 1] = line
      /\ \A i \in 1..Len(old) : Append(old, line)[i] = old[i]
    OBVIOUS
<1>2. \A i : i \in 1..(Len(old) + 1) <=> i \in 1..Len(old) \/ i = Len(old) + 1
    BY <1>1
<1> QED
    BY <1>1, <1>2

\* The commit is what makes an attempt committed, and what writes its lines.
LEMMA AnswersAtCommit ==
    ASSUME IInv, AnswersHold, NEW p \in Attempts, Commit(p)
    PROVE  AnswersHold'
<1> USE DEF AnswersHold
<1> DEFINE r == req[p]
           s == r.source
           d == Destination(r)
           out == OutLine(p, s, r.amount, sourceVersion[p])
           in == InLine(p, d, r.amount, destVersion[p])
<1>1. /\ s \in live /\ d \in live /\ s # d /\ live \subseteq Accounts
      /\ out.by = p /\ in.by = p /\ out \in LineSet /\ in \in LineSet
      /\ \A a \in Accounts : ledger[a] \in Seq(LineSet)
      /\ \A a \in Accounts :
            ledger'[a] = IF a = s THEN Append(ledger[a], out)
                         ELSE IF a = d THEN Append(ledger[a], in) ELSE ledger[a]
    BY CommitWrites
<1>2. /\ keys' = (IF r.key = NoKey THEN keys ELSE keys \cup {r.key})
      /\ UNCHANGED <<live, req, outcome, notices>>
      /\ ~Committed(p) /\ Committed(p)'
      /\ \A q \in Attempts \ {p} : Committed(q)' <=> Committed(q)
    BY DEF Commit, Committed, IInv, TypeOK, KeyInv, KeyState
<1> HIDE DEF r, s, d, out, in
<1>3. KeysAreCommitted'
    BY <1>2 DEF KeysAreCommitted, r
<1>4. ASSUME NEW q \in Attempts, NEW a \in live
      PROVE  (\E i \in 1..Len(ledger'[a]) : ledger'[a][i].by = q)
             <=> Committed(q)' /\ a \in {req[q].source, Destination(req[q])}
<2>1. (\E i \in 1..Len(ledger[a]) : ledger[a][i].by = q)
      <=> Committed(q) /\ a \in {req[q].source, Destination(req[q])}
    BY DEF AnswersMatchLedger
<2>2. (\E i \in 1..Len(ledger'[a]) : ledger'[a][i].by = q)
      <=> (\E i \in 1..Len(ledger[a]) : ledger[a][i].by = q) \/ (q = p /\ a \in {s, d})
<3>1. ledger[a] \in Seq(LineSet)
    BY <1>1
<3>2. CASE a = s
<4>1. ledger'[a] = Append(ledger[a], out) /\ out \in LineSet /\ out.by = p
    BY <1>1, <3>2
<4>2. (\E i \in 1..Len(Append(ledger[a], out)) : Append(ledger[a], out)[i].by = q)
      <=> (\E i \in 1..Len(ledger[a]) : ledger[a][i].by = q) \/ out.by = q
    BY <3>1, <4>1, AppendedBy
<4> QED
    BY <1>1, <3>2, <4>1, <4>2
<3>3. CASE a = d /\ a # s
<4>1. ledger'[a] = Append(ledger[a], in) /\ in \in LineSet /\ in.by = p
    BY <1>1, <3>3
<4>2. (\E i \in 1..Len(Append(ledger[a], in)) : Append(ledger[a], in)[i].by = q)
      <=> (\E i \in 1..Len(ledger[a]) : ledger[a][i].by = q) \/ in.by = q
    BY <3>1, <4>1, AppendedBy
<4> QED
    BY <1>1, <3>3, <4>1, <4>2
<3>4. CASE a \notin {s, d}
    BY <1>1, <3>4
<3> QED
    BY <3>2, <3>3, <3>4
<2> QED
    BY <1>2, <2>1, <2>2 DEF r, s, d
<1>5. ASSUME NEW q \in Attempts, outcome[q] = "duplicate"
      PROVE  \E t \in Attempts : Committed(t)' /\ req[t].key = req[q].key
    BY <1>2, <1>5 DEF AnswersMatchLedger
<1>6. \A q \in Attempts : q \in notices' => Committed(q)'
    BY <1>2 DEF AnswersMatchLedger
<1> QED
    BY <1>2, <1>3, <1>4, <1>5, <1>6 DEF AnswersMatchLedger

\* Every step keeps answers and statements together.
LEMMA AnswersStep ==
    ASSUME IInv, AnswersHold, [Next]_vars
    PROVE  AnswersHold'
<1>1. ASSUME NEW a \in Accounts, DeleteUser(Owner[a])
      PROVE  AnswersHold'
<2>1. /\ live' \subseteq live /\ UNCHANGED <<keys, pc, req, outcome, notices>>
      /\ \A b \in live' : ledger'[b] = ledger[b]
    BY <1>1 DEF DeleteUser, IInv, TypeOK
<2> QED
    BY <2>1 DEF AnswersHold, AnswersMatchLedger, KeysAreCommitted, Committed
<1>2. CASE UNCHANGED vars
    BY <1>2 DEF vars, rowVars, AnswersHold, AnswersMatchLedger, KeysAreCommitted, Committed
<1> QED
    BY <1>1, <1>2, AnswersOutsideCommit, AnswersAtCommit DEF Next, TransferNext, Proceed

\* What InitiateTransferUseCase answers is what the statements say: an attempt that
\* failed left no line, a committed one left one on both accounts, and "duplicate" is
\* said only of a key whose transfer was committed; for both shapes of the driver.
THEOREM AnswersAreTrue == Spec => []AnswersMatchLedger
<1>1. Init => AnswersHold
<2> SUFFICES ASSUME Init PROVE AnswersHold
    OBVIOUS
<2>1. keys = {} /\ notices = {} /\ \A p \in Attempts : ~Committed(p) /\ outcome[p] = "none"
    BY DEF Init, Committed
<2>2. \A a \in live : ledger[a] = <<>>
    BY DEF Init
<2> QED
    BY <2>1, <2>2 DEF AnswersHold, AnswersMatchLedger, KeysAreCommitted
<1>2. IInv /\ AnswersHold /\ [Next]_vars => AnswersHold'
    BY AnswersStep
<1>3. AnswersHold => AnswersMatchLedger
    BY DEF AnswersHold
<1> QED
    BY <1>1, <1>2, <1>3, InductiveInvariant, PTL DEF Spec

-----------------------------------------------------------------------------
(* What a commit moves.                                                    *)

\* The figures of a commit: the destination gets the amount, the source pays it, or pays
\* nothing when the driver hid that the conditional debit matched no row.
LEMMA CommitFigures ==
    ASSUME IInv, NEW p \in Attempts, Commit(p)
    PROVE  LET s == req[p].source
               d == Destination(req[p])
               amount == req[p].amount
           IN  /\ pc[p] = "commit" /\ s \in live /\ d \in live /\ s # d
               /\ live \subseteq Accounts
               /\ amount \in Int /\ amount > 0 /\ live' = live /\ shape' = shape
               /\ balance \in [Accounts -> Int] /\ balance' \in [Accounts -> Int]
               /\ unfunded \in [Accounts -> Nat] /\ unfunded' \in [Accounts -> Nat]
               /\ destVersion[p] = balance[d] + amount
               /\ \E paid \in {0, amount} :
                     /\ \/ /\ paid = amount /\ amount <= balance[s]
                           /\ sourceVersion[p] = balance[s] - amount
                        \/ paid = 0 /\ shape = "pair" /\ amount > balance[s]
                     /\ balance' = [balance EXCEPT ![s] = balance[s] - paid,
                                                   ![d] = balance[d] + amount]
                     /\ unfunded' = [unfunded EXCEPT ![s] = unfunded[s] + (amount - paid)]
<1> DEFINE s == req[p].source
           d == Destination(req[p])
           amount == req[p].amount
<1>1. /\ pc[p] = "commit" /\ req[p] \in Requests /\ amount \in Int /\ amount > 0
      /\ s \in live /\ d \in live /\ s # d /\ live \subseteq Accounts
      /\ balance \in [Accounts -> Int] /\ unfunded \in [Accounts -> Nat]
    BY ConstantFacts
       DEF Commit, IInv, RequestInv, InTransaction, VersionInv, Port!Route, TypeOK
<1>2. balance[s] \in Int /\ balance[d] \in Int /\ unfunded[s] \in Nat
    BY <1>1
<1>3. /\ destVersion[p] = balance[d] + amount
      /\ \/ /\ sourceVersion[p] = balance[s] - amount /\ sourceVersion[p] \in Nat
            /\ sourceVersion[p] # Unwritten
         \/ sourceVersion[p] = Unwritten /\ shape = "pair" /\ balance[s] < amount
    BY <1>1, DriverAssumption DEF IInv, VersionInv
<1>4. /\ live' = live /\ shape' = shape
      /\ balance' = [balance EXCEPT
             ![s] = IF sourceVersion[p] = Unwritten THEN balance[s] ELSE sourceVersion[p],
             ![d] = destVersion[p]]
      /\ unfunded' = [unfunded EXCEPT
             ![s] = IF sourceVersion[p] = Unwritten THEN unfunded[s] + amount ELSE unfunded[s]]
    BY <1>1 DEF Commit
<1> HIDE DEF s, d, amount
<1>5. CASE sourceVersion[p] # Unwritten
<2>1. /\ sourceVersion[p] = balance[s] - amount /\ amount <= balance[s]
      /\ unfunded[s] + (amount - amount) = unfunded[s]
    BY <1>1, <1>2, <1>3, <1>5
<2>2. /\ balance' = [balance EXCEPT ![s] = balance[s] - amount, ![d] = balance[d] + amount]
      /\ unfunded' = [unfunded EXCEPT ![s] = unfunded[s] + (amount - amount)]
    BY <1>3, <1>4, <1>5, <2>1
<2>3. balance' \in [Accounts -> Int] /\ unfunded' \in [Accounts -> Nat]
    BY <1>1, <1>2, <2>1, <2>2
<2> QED
    BY <1>1, <1>3, <1>4, <2>1, <2>2, <2>3 DEF s, d, amount
<1>6. CASE sourceVersion[p] = Unwritten
<2>1. /\ amount > balance[s] /\ shape = "pair" /\ balance[s] - 0 = balance[s]
      /\ unfunded[s] + (amount - 0) = unfunded[s] + amount
      /\ unfunded[s] + amount \in Nat
    BY <1>1, <1>2, <1>3, <1>6, DriverAssumption
<2>2. /\ balance' = [balance EXCEPT ![s] = balance[s] - 0, ![d] = balance[d] + amount]
      /\ unfunded' = [unfunded EXCEPT ![s] = unfunded[s] + (amount - 0)]
    BY <1>3, <1>4, <1>6, <2>1
<2>3. balance' \in [Accounts -> Int] /\ unfunded' \in [Accounts -> Nat]
    BY <1>1, <1>2, <2>1, <2>2
<2> QED
    BY <1>1, <1>3, <1>4, <2>1, <2>2, <2>3 DEF s, d, amount
<1> QED
    BY <1>5, <1>6

-----------------------------------------------------------------------------
(* The sum of the lines of a statement.                                    *)

\* The effect of a statement line is an integer.
LEMMA EffectInteger ==
    ASSUME NEW line \in LineSet PROVE Effect(line) \in Int
    BY DEF LineSet, Effect

\* The lines of a statement add up to an integer.
LEMMA LedgerSumInteger ==
    ASSUME NEW a, ledger[a] \in Seq(LineSet) PROVE LedgerSum(a) \in Int
<1> DEFINE effects == [i \in DOMAIN ledger[a] |-> Effect(ledger[a][i])]
           n == Len(ledger[a])
<1>1. n \in Nat /\ DOMAIN ledger[a] = 1..n /\ \A i \in 1..n : ledger[a][i] \in LineSet
    OBVIOUS
<1>2. \A i \in 1..n : effects[i] \in Int
    BY <1>1, EffectInteger
<1>3. LedgerSum(a) = SumFunctionOnSet(effects, 1..n)
    BY <1>1 DEF LedgerSum, SumFunction
<1>4. IsFiniteSet(1..n)
    BY <1>1, FS_Interval
<1> HIDE DEF effects, n
<1> QED
    BY <1>2, <1>3, <1>4, SumIsInteger

\* A line that is appended adds its effect.
LEMMA LineAdds ==
    ASSUME NEW a, ledger[a] \in Seq(LineSet), NEW line \in LineSet,
           ledger'[a] = Append(ledger[a], line)
    PROVE  LedgerSum(a)' = LedgerSum(a) + Effect(line)
<1> DEFINE old == [i \in DOMAIN ledger[a] |-> Effect(ledger[a][i])]
           new == [i \in DOMAIN ledger'[a] |-> Effect(ledger'[a][i])]
           n == Len(ledger[a])
<1>1. n \in Nat /\ DOMAIN ledger[a] = 1..n /\ \A i \in 1..n : ledger[a][i] \in LineSet
    OBVIOUS
<1>2. /\ DOMAIN ledger'[a] = (1..n) \cup {n + 1}
      /\ \A i \in 1..n : ledger'[a][i] = ledger[a][i]
      /\ ledger'[a][n + 1] = line
    BY <1>1
<1>3. /\ \A i \in 1..n : old[i] = new[i] /\ new[i] \in Int
      /\ new[n + 1] = Effect(line) /\ Effect(line) \in Int
    BY <1>1, <1>2, EffectInteger
<1>4. LedgerSum(a) = SumFunctionOnSet(old, 1..n)
    BY <1>1 DEF LedgerSum, SumFunction
<1>5. LedgerSum(a)' = SumFunctionOnSet(new, (1..n) \cup {n + 1})
<2>1. LedgerSum(a)' = SumFunction(new)
    BY DEF LedgerSum, Effect
<2>2. DOMAIN new = (1..n) \cup {n + 1}
    BY <1>2
<2> HIDE DEF new
<2> QED
    BY <2>1, <2>2 DEF SumFunction
<1>6. IsFiniteSet(1..n) /\ n + 1 \notin 1..n
<2>1. 1 \in Int /\ n \in Int
    BY <1>1
<2>2. n + 1 \notin 1..n
    BY <1>1
<2> HIDE DEF n
<2>3. IsFiniteSet(1..n)
    BY <2>1, FS_Interval
<2> QED
    BY <2>2, <2>3
<1> DEFINE lines == 1..n
           next == n + 1
<1>7. /\ \A i \in lines : old[i] = new[i] /\ new[i] \in Int
      /\ new[next] \in Int /\ IsFiniteSet(lines) /\ next \notin lines
    BY <1>3, <1>6
<1> HIDE DEF old, new, n, lines, next
<1>8. SumFunctionOnSet(new, lines \cup {next}) = SumFunctionOnSet(old, lines) + new[next]
    BY <1>7, SumOfMore
<1> QED
    BY <1>3, <1>4, <1>5, <1>8 DEF lines, next

\* A commit changes a balance by what its lines list, save for a debit that did not happen.
LEMMA StatementsAtCommit ==
    ASSUME IInv, NEW p \in Attempts, Commit(p), NEW a \in live
    PROVE  /\ LedgerSum(a) \in Int /\ LedgerSum(a)' \in Int
           /\ balance[a] \in Int /\ balance'[a] \in Int
           /\ unfunded[a] \in Int /\ unfunded'[a] \in Int
           /\ balance'[a] - LedgerSum(a)' - unfunded'[a] =
                  balance[a] - LedgerSum(a) - unfunded[a]
<1> DEFINE s == req[p].source
           d == Destination(req[p])
           amount == req[p].amount
           out == OutLine(p, s, amount, sourceVersion[p])
           in == InLine(p, d, amount, destVersion[p])
<1>1. /\ s \in live /\ d \in live /\ s # d /\ live \subseteq Accounts
      /\ amount \in Int
      /\ balance \in [Accounts -> Int] /\ unfunded \in [Accounts -> Nat]
    BY CommitFigures
<1>2. PICK paid \in {0, amount} :
          /\ balance' = [balance EXCEPT ![s] = balance[s] - paid,
                                        ![d] = balance[d] + amount]
          /\ unfunded' = [unfunded EXCEPT ![s] = unfunded[s] + (amount - paid)]
    BY CommitFigures
<1>3. /\ out \in LineSet /\ in \in LineSet
      /\ ledger[a] \in Seq(LineSet)
      /\ ledger'[a] = IF a = s THEN Append(ledger[a], out)
                      ELSE IF a = d THEN Append(ledger[a], in) ELSE ledger[a]
    BY <1>1, CommitWrites
<1>4. Effect(out) = 0 - amount /\ Effect(in) = amount
    BY <1>1 DEF OutLine, InLine, Line, Effect
<1> HIDE DEF s, d, amount, out, in
<1>5. /\ balance[a] \in Int /\ unfunded[a] \in Int /\ a \in Accounts
      /\ LedgerSum(a) \in Int
    BY <1>1, <1>3, LedgerSumInteger
<1>6. CASE a = s
<2>1. /\ LedgerSum(a)' = LedgerSum(a) + Effect(out)
      /\ balance'[a] = balance[a] - paid /\ unfunded'[a] = unfunded[a] + (amount - paid)
    BY <1>1, <1>2, <1>3, <1>5, <1>6, LineAdds
<2> QED
    BY <1>1, <1>2, <1>4, <1>5, <2>1
<1>7. CASE a = d
<2>1. /\ LedgerSum(a)' = LedgerSum(a) + Effect(in)
      /\ balance'[a] = balance[a] + amount /\ unfunded'[a] = unfunded[a]
    BY <1>1, <1>2, <1>3, <1>5, <1>7, LineAdds
<2> QED
    BY <1>1, <1>2, <1>4, <1>5, <2>1
<1>8. CASE a \notin {s, d}
<2>1. /\ LedgerSum(a)' = LedgerSum(a)
      /\ balance'[a] = balance[a] /\ unfunded'[a] = unfunded[a]
    BY <1>1, <1>2, <1>3, <1>5, <1>8 DEF LedgerSum
<2> QED
    BY <1>5, <2>1
<1> QED
    BY <1>6, <1>7, <1>8

\* No step but a commit or a deletion touches balances, statements or history.
LEMMA QuietStep ==
    ASSUME NEW p \in Attempts,
           \/ \E r \in Requests : Submit(p, r)
           \/ InsertKey(p) \/ LockFirst(p) \/ LockSecond(p) \/ Debit(p) \/ Credit(p)
           \/ Answer(p) \/ LoseAnswer(p) \/ Abort(p)
    PROVE  UNCHANGED rowVars
<1>1. CASE Debit(p) \/ Credit(p) \/ Abort(p)
    BY <1>1 DEF Debit, Credit, Abort, Rollback
<1>2. CASE ~(Debit(p) \/ Credit(p) \/ Abort(p))
    BY <1>2 DEF Submit, InsertKey, LockFirst, LockSecond, Answer, LoseAnswer
<1> QED
    BY <1>1, <1>2

\* A step of the transfer path leaves the rows alone, commits or deletes.
LEMMA RowSteps ==
    ASSUME [Next]_vars
    PROVE  \/ UNCHANGED rowVars
           \/ \E p \in Attempts : Commit(p)
           \/ \E a \in Accounts : DeleteUser(Owner[a])
    BY QuietStep DEF Next, TransferNext, Proceed, vars

\* The statement of every account adds up to its balance, whichever shape the driver has,
\* but for the debits that the gateway took for done (writeLedger, TransferGateway).
THEOREM StatementsExplainBalances == Spec => []StatementsAddUp
<1>1. Init => StatementsAddUp
<2> SUFFICES ASSUME Init, NEW a \in live
             PROVE  balance[a] = Opening[a] + LedgerSum(a) + unfunded[a]
    BY DEF StatementsAddUp
<2>1. a \in Accounts /\ ledger[a] = <<>> /\ balance[a] = Opening[a] /\ unfunded[a] = 0
    BY DEF Init
<2>2. LedgerSum(a) = 0
    BY <2>1, SumOfNone DEF LedgerSum, SumFunction
<2> QED
    BY <2>1, <2>2, AccountsAssumption
<1>2. IInv /\ StatementsAddUp /\ [Next]_vars => StatementsAddUp'
<2> SUFFICES ASSUME IInv, StatementsAddUp, [Next]_vars PROVE StatementsAddUp'
    OBVIOUS
<2>1. CASE UNCHANGED rowVars
    BY <2>1 DEF StatementsAddUp, LedgerSum, rowVars
<2>2. ASSUME NEW p \in Attempts, Commit(p) PROVE StatementsAddUp'
<3>1. live' = live /\ live \subseteq Accounts
    BY <2>2, CommitFigures
<3>2. ASSUME NEW a \in live
      PROVE  balance'[a] = Opening[a] + LedgerSum(a)' + unfunded'[a]
<4>1. /\ LedgerSum(a) \in Int /\ LedgerSum(a)' \in Int
      /\ balance[a] \in Int /\ balance'[a] \in Int
      /\ unfunded[a] \in Int /\ unfunded'[a] \in Int
      /\ balance'[a] - LedgerSum(a)' - unfunded'[a] =
             balance[a] - LedgerSum(a) - unfunded[a]
    BY <2>2, StatementsAtCommit
<4>2. balance[a] = Opening[a] + LedgerSum(a) + unfunded[a] /\ Opening[a] \in Int
    BY <3>1, AccountsAssumption DEF StatementsAddUp
<4> QED
    BY <4>1, <4>2
<3> QED
    BY <3>1, <3>2 DEF StatementsAddUp
<2>3. ASSUME NEW a \in Accounts, DeleteUser(Owner[a]) PROVE StatementsAddUp'
<3>1. /\ live' \subseteq live /\ balance' = balance /\ unfunded' = unfunded
      /\ \A b \in live' : ledger'[b] = ledger[b]
    BY <2>3 DEF DeleteUser, IInv, TypeOK
<3>2. \A b \in live' : LedgerSum(b)' = LedgerSum(b)
    BY <3>1 DEF LedgerSum
<3> QED
    BY <3>1, <3>2 DEF StatementsAddUp
<2> QED
    BY <2>1, <2>2, <2>3, RowSteps
<1> QED
    BY <1>1, <1>2, InductiveInvariant, PTL DEF Spec

-----------------------------------------------------------------------------
(* The running balance of a statement.                                     *)

Before(a, i) == IF i = 1 THEN Opening[a] ELSE ledger[a][i - 1].after

Chained(a) ==
    /\ \A i \in 1..Len(ledger[a]) :
           ledger[a][i].after = Before(a, i) + Effect(ledger[a][i])
    /\ balance[a] = Before(a, Len(ledger[a]) + 1)

\* The chain is a statement about each account.
LEMMA ChainForms == StatementChains <=> \A a \in live : Chained(a)
    BY DEF StatementChains, Chained, Before

\* A line that moves the balance from where it was lengthens the chain.
LEMMA ChainGrows ==
    ASSUME NEW a, Chained(a), ledger[a] \in Seq(LineSet), NEW line \in LineSet,
           ledger'[a] = Append(ledger[a], line),
           line.after = balance[a] + Effect(line),
           balance'[a] = line.after
    PROVE  Chained(a)'
<1>0. PICK n \in Nat : n = Len(ledger[a])
    OBVIOUS
<1>1. /\ Len(ledger'[a]) = n + 1 /\ ledger'[a][n + 1] = line
      /\ \A i \in 1..n : ledger'[a][i] = ledger[a][i]
    BY <1>0
<1>2. \A i \in 1..(n + 1) : Before(a, i)' = Before(a, i)
<2>1. ASSUME NEW i \in 1..(n + 1), i # 1 PROVE ledger'[a][i - 1] = ledger[a][i - 1]
    BY <1>1, <2>1
<2> QED
    BY <1>1, <2>1 DEF Before
<1>3. Before(a, n + 2)' = line.after
<2>1. n + 2 # 1 /\ (n + 2) - 1 = n + 1
    OBVIOUS
<2>2. Before(a, n + 2)' = ledger'[a][(n + 2) - 1].after
    BY <2>1 DEF Before
<2> QED
    BY <1>1, <2>1, <2>2
<1>4. Before(a, n + 1) = balance[a]
    BY <1>0 DEF Chained
<1>5. ASSUME NEW i \in 1..(n + 1)
      PROVE  ledger'[a][i].after = Before(a, i)' + Effect(ledger'[a][i])
<2>1. CASE i = n + 1
    BY <1>1, <1>2, <1>4, <2>1
<2>2. CASE i \in 1..n
<3>1. ledger[a][i].after = Before(a, i) + Effect(ledger[a][i])
    BY <1>0, <2>2 DEF Chained
<3> QED
    BY <1>1, <1>2, <2>2, <3>1
<2> QED
    BY <1>1, <2>1, <2>2
<1>6. (n + 1) + 1 = n + 2
    OBVIOUS
<1> QED
    BY <1>1, <1>3, <1>5, <1>6 DEF Chained

\* A commit continues both chains: the versions were computed from the balances that
\* the row locks have kept since, and the driver handed them back.
LEMMA ChainsAtCommit ==
    ASSUME IInv, StatementChains, shape = "rows", NEW p \in Attempts, Commit(p)
    PROVE  StatementChains'
<1> DEFINE r == req[p]
           s == r.source
           d == Destination(r)
           out == OutLine(p, s, r.amount, sourceVersion[p])
           in == InLine(p, d, r.amount, destVersion[p])
<1>1. /\ s \in live /\ d \in live /\ s # d /\ live \subseteq Accounts
      /\ out \in LineSet /\ in \in LineSet
      /\ \A a \in Accounts : ledger[a] \in Seq(LineSet)
      /\ \A a \in Accounts :
            ledger'[a] = IF a = s THEN Append(ledger[a], out)
                         ELSE IF a = d THEN Append(ledger[a], in) ELSE ledger[a]
    BY CommitWrites
<1>2. /\ pc[p] = "commit" /\ r.amount \in Int /\ balance \in [Accounts -> Int]
    BY ConstantFacts DEF Commit, IInv, RequestInv, InTransaction, TypeOK
<1>3. /\ sourceVersion[p] = balance[s] - r.amount /\ sourceVersion[p] # Unwritten
      /\ destVersion[p] = balance[d] + r.amount
    BY <1>2, DriverAssumption DEF IInv, VersionInv
<1>4. /\ live' = live
      /\ \A a \in Accounts :
            balance'[a] = IF a = d THEN destVersion[p]
                          ELSE IF a = s THEN sourceVersion[p] ELSE balance[a]
    BY <1>1, <1>2, <1>3 DEF Commit
<1>5. out.after = sourceVersion[p] /\ Effect(out) = 0 - r.amount
    BY <1>2 DEF OutLine, Line, ReturnedBalance, Effect
<1>6. in.after = destVersion[p] /\ Effect(in) = r.amount
    BY <1>2 DEF InLine, Line, ReturnedBalance, Effect
<1> HIDE DEF r, s, d, out, in
<1>7. ASSUME NEW a \in live PROVE Chained(a)'
<2>1. Chained(a) /\ ledger[a] \in Seq(LineSet)
    BY <1>1, ChainForms
<2>2. CASE a = s
<3>1. ledger'[a] = Append(ledger[a], out) /\ balance'[a] = out.after
    BY <1>1, <1>4, <1>5, <2>2
<3>2. balance[a] \in Int /\ out.after = balance[a] - r.amount
    BY <1>1, <1>2, <1>3, <1>5, <2>2
<3>3. out.after = balance[a] + Effect(out)
    BY <1>2, <1>5, <3>2
<3> QED
    BY <1>1, <2>1, <3>1, <3>3, ChainGrows
<2>3. CASE a = d
<3>1. ledger'[a] = Append(ledger[a], in) /\ in.after = balance[a] + Effect(in)
      /\ balance'[a] = in.after
    BY <1>1, <1>2, <1>3, <1>4, <1>6, <2>3
<3> QED
    BY <1>1, <2>1, <3>1, ChainGrows
<2>4. CASE a \notin {s, d}
    BY <1>1, <1>4, <2>1, <2>4 DEF Chained, Before
<2> QED
    BY <2>2, <2>3, <2>4
<1> QED
    BY <1>4, <1>7 DEF StatementChains, Chained, Before

\* With the shape that writeLedger takes the result for, every statement line continues
\* the balance before it, however many transfers overlap.
LEMMA LinesContinue == Spec => [](shape = "rows" => StatementChains)
<1> DEFINE Continued == shape = "rows" => StatementChains
<1>1. Init => Continued
    BY DEF Init, StatementChains
<1>2. IInv /\ Continued /\ [Next]_vars => Continued'
<2> SUFFICES ASSUME IInv, Continued, [Next]_vars, shape' = "rows" PROVE StatementChains'
    OBVIOUS
<2>1. CASE UNCHANGED rowVars
    BY <2>1 DEF StatementChains, rowVars
<2>2. ASSUME NEW p \in Attempts, Commit(p) PROVE StatementChains'
    BY <2>2, ChainsAtCommit DEF Commit
<2>3. ASSUME NEW a \in Accounts, DeleteUser(Owner[a]) PROVE StatementChains'
<3>1. /\ live' \subseteq live /\ balance' = balance /\ shape' = shape
      /\ \A b \in live' : ledger'[b] = ledger[b]
    BY <2>3 DEF DeleteUser, IInv, TypeOK
<3> QED
    BY <3>1 DEF StatementChains
<2> QED
    BY <2>1, <2>2, <2>3, RowSteps
<1> QED
    BY <1>1, <1>2, InductiveInvariant, PTL DEF Spec

-----------------------------------------------------------------------------
(* The money in all accounts.                                              *)

\* A commit adds to all accounts together what it counts as unfunded.
LEMMA MoneyAtCommit ==
    ASSUME IInv, NEW p \in Attempts, Commit(p)
    PROVE  /\ SumFunction(balance) \in Int /\ SumFunction(unfunded) \in Int
           /\ SumFunction(balance') - SumFunction(unfunded') =
                  SumFunction(balance) - SumFunction(unfunded)
           /\ SumFunction(balance') \in Int /\ SumFunction(unfunded') \in Int
<1> DEFINE s == req[p].source
           d == Destination(req[p])
           amount == req[p].amount
<1>1. /\ s \in Accounts /\ d \in Accounts /\ s # d /\ amount \in Int
      /\ balance \in [Accounts -> Int] /\ balance' \in [Accounts -> Int]
      /\ unfunded \in [Accounts -> Nat] /\ unfunded' \in [Accounts -> Nat]
    BY CommitFigures
<1>2. PICK paid \in {0, amount} :
          /\ balance' = [balance EXCEPT ![s] = balance[s] - paid,
                                        ![d] = balance[d] + amount]
          /\ unfunded' = [unfunded EXCEPT ![s] = unfunded[s] + (amount - paid)]
    BY CommitFigures
<1> HIDE DEF s, d, amount
<1> DEFINE half == [balance EXCEPT ![s] = balance[s] - paid]
<1>3. half \in [Accounts -> Int]
    BY <1>1, <1>2
<1>4. /\ half[s] = balance[s] - paid /\ half[d] = balance[d]
      /\ \A a \in Accounts : a # s => half[a] = balance[a]
    BY <1>1, <1>2
<1>5. /\ balance'[d] = half[d] + amount
      /\ \A a \in Accounts : a # d => balance'[a] = half[a]
    BY <1>1, <1>2, <1>4
<1>6. /\ unfunded'[s] = unfunded[s] + (amount - paid)
      /\ \A a \in Accounts : a # s => unfunded'[a] = unfunded[a]
    BY <1>1, <1>2
<1> HIDE DEF half
<1>7. \A f \in [Accounts -> Int] : /\ SumFunction(f) = SumFunctionOnSet(f, Accounts)
                                   /\ SumFunction(f) \in Int
    BY AccountsAssumption, SumIsInteger DEF SumFunction
<1>8. SumFunction(half) = SumFunction(balance) + (half[s] - balance[s])
<2>1. \A a \in Accounts : a # s => balance[a] = half[a]
    BY <1>4
<2> QED
    BY <1>1, <1>3, <1>7, <2>1, AccountsAssumption, SumAfterChange
<1>9. SumFunction(balance') = SumFunction(half) + (balance'[d] - half[d])
    BY <1>1, <1>3, <1>5, <1>7, AccountsAssumption, SumAfterChange
<1>10. unfunded \in [Accounts -> Int] /\ unfunded' \in [Accounts -> Int]
    BY <1>1
<1>11. SumFunction(unfunded') = SumFunction(unfunded) + (unfunded'[s] - unfunded[s])
    BY <1>1, <1>6, <1>7, <1>10, AccountsAssumption, SumAfterChange
<1>12. /\ SumFunction(balance) \in Int /\ SumFunction(balance') \in Int
       /\ SumFunction(half) \in Int
       /\ SumFunction(unfunded) \in Int /\ SumFunction(unfunded') \in Int
    BY <1>1, <1>3, <1>7, <1>10
<1>13. balance[s] \in Int /\ half[d] \in Int /\ unfunded[s] \in Int
    BY <1>1, <1>3
<1>14. paid \in Int /\ amount \in Int
    BY <1>1, <1>2
<1> QED
    BY <1>1, <1>4, <1>5, <1>6, <1>8, <1>9, <1>11, <1>12, <1>13, <1>14

MoneyInv ==
    /\ MoneyAddsUp
    /\ shape = "rows" => \A a \in Accounts : unfunded[a] = 0

\* Sums at the start.
LEMMA MoneyAtStart == Init => MoneyInv
<1> SUFFICES ASSUME Init PROVE MoneyInv
    OBVIOUS
<1>1. /\ DOMAIN unfunded = Accounts /\ \A a \in Accounts : unfunded[a] = 0
      /\ balance = Opening
    BY DEF Init
<1>2. SumFunction(unfunded) = 0
    BY <1>1, AccountsAssumption, SumOfZeros DEF SumFunction
<1>3. SumFunction(Opening) \in Int
<2>1. DOMAIN Opening = Accounts /\ \A a \in Accounts : Opening[a] \in Int
    BY AccountsAssumption
<2> QED
    BY <2>1, AccountsAssumption, SumIsInteger DEF SumFunction
<1> QED
    BY <1>1, <1>2, <1>3 DEF MoneyInv, MoneyAddsUp

\* Whatever the driver returns, transfers, however many overlap, fail, are repeated or lose
\* their answer, neither destroy money nor create any but what a source could not pay
\* (ITransferGateway, TransferGateway).
THEOREM MoneyConserved == Spec => []MoneyInv
<1>1. IInv /\ MoneyInv /\ [Next]_vars => MoneyInv'
<2> SUFFICES ASSUME IInv, MoneyInv, [Next]_vars PROVE MoneyInv'
    OBVIOUS
<2>1. ASSUME UNCHANGED <<balance, unfunded, shape>> PROVE MoneyInv'
    BY <2>1 DEF MoneyInv, MoneyAddsUp
<2>2. ASSUME NEW p \in Attempts, Commit(p) PROVE MoneyInv'
<3>1. MoneyAddsUp'
<4>1. SumFunction(balance) = SumFunction(Opening) + SumFunction(unfunded)
    BY DEF MoneyInv, MoneyAddsUp
<4>2. SumFunction(Opening) \in Int
<5>1. DOMAIN Opening = Accounts /\ \A a \in Accounts : Opening[a] \in Int
    BY AccountsAssumption
<5> QED
    BY <5>1, AccountsAssumption, SumIsInteger DEF SumFunction
<4>3. /\ SumFunction(balance) \in Int /\ SumFunction(unfunded) \in Int
      /\ SumFunction(balance') - SumFunction(unfunded') =
             SumFunction(balance) - SumFunction(unfunded)
      /\ SumFunction(balance') \in Int /\ SumFunction(unfunded') \in Int
    BY <2>2, MoneyAtCommit
<4> QED
    BY <4>1, <4>2, <4>3 DEF MoneyAddsUp
<3>2. shape' = "rows" => \A a \in Accounts : unfunded'[a] = 0
<4> SUFFICES ASSUME shape' = "rows", NEW a \in Accounts PROVE unfunded'[a] = 0
    OBVIOUS
<4> DEFINE s == req[p].source
           amount == req[p].amount
<4>1. /\ shape = "rows" /\ amount \in Int /\ unfunded \in [Accounts -> Nat]
      /\ unfunded' = [unfunded EXCEPT ![s] = unfunded[s] + (amount - amount)]
    BY <2>2, CommitFigures
<4>2. unfunded[a] = 0
    BY <4>1 DEF MoneyInv
<4> HIDE DEF s, amount
<4> QED
    BY <4>1, <4>2
<3> QED
    BY <3>1, <3>2 DEF MoneyInv
<2>3. ASSUME NEW a \in Accounts, DeleteUser(Owner[a]) PROVE MoneyInv'
    BY <2>1, <2>3 DEF DeleteUser
<2> QED
    BY <2>1, <2>2, <2>3, RowSteps DEF rowVars
<1> QED
    BY <1>1, MoneyAtStart, InductiveInvariant, PTL DEF Spec

\* The statements explain every balance and the balances the money, for any accounts, any
\* number of transfers and either shape; with the shape that the gateway expects no money
\* appears and every line continues the one before it.
THEOREM LedgerExplained == Spec => []LedgerAddsUp
<1>1. IInv /\ MoneyInv /\ StatementsAddUp /\ (shape = "rows" => StatementChains)
          => LedgerAddsUp
<2> SUFFICES ASSUME IInv, MoneyInv, StatementsAddUp, shape = "rows" => StatementChains
             PROVE  LedgerAddsUp
    OBVIOUS
<2>1. ASSUME shape = "rows" PROVE Conservation
<3>1. \A a \in Accounts : unfunded[a] = 0
    BY <2>1 DEF MoneyInv
<3>2. /\ DOMAIN unfunded = Accounts
      /\ DOMAIN balance = Accounts /\ \A a \in Accounts : balance[a] \in Int
      /\ DOMAIN Opening = Accounts /\ \A a \in Accounts : Opening[a] \in Int
    BY AccountsAssumption DEF IInv, TypeOK
<3>3. SumFunction(unfunded) = 0
    BY <3>1, <3>2, AccountsAssumption, SumOfZeros DEF SumFunction
<3>4. SumFunction(Opening) \in Int
    BY <3>2, AccountsAssumption, SumIsInteger DEF SumFunction
<3> QED
    BY <3>3, <3>4 DEF MoneyInv, MoneyAddsUp, Conservation
<2> QED
    BY <2>1 DEF LedgerAddsUp, MoneyInv
<1> QED
    BY <1>1, MoneyConserved, StatementsExplainBalances, LinesContinue, InductiveInvariant,
       PTL

-----------------------------------------------------------------------------
(* The refinement of MoneyLedger.                                          *)

\* The versions a commit installs are the old balances moved by the same amount, which the
\* source could pay, or the credit alone where the driver hid that it could not.
LEMMA CommitMoves ==
    ASSUME IInv, NEW p \in Attempts, Commit(p)
    PROVE  Port!Movement
<1> DEFINE r == req[p]
           s == r.source
           d == Destination(r)
<1>1. /\ pc[p] = "commit" /\ s \in live /\ d \in live /\ s # d /\ live \subseteq Accounts
      /\ r.amount \in Int /\ r.amount > 0 /\ live' = live /\ shape' = shape
      /\ balance \in [Accounts -> Int] /\ unfunded \in [Accounts -> Nat]
    BY CommitFigures
<1>2. PICK paid \in {0, r.amount} :
          /\ \/ paid = r.amount /\ r.amount <= balance[s]
             \/ paid = 0 /\ shape = "pair" /\ r.amount > balance[s]
          /\ balance' = [balance EXCEPT ![s] = balance[s] - paid,
                                        ![d] = balance[d] + r.amount]
          /\ unfunded' = [unfunded EXCEPT ![s] = unfunded[s] + (r.amount - paid)]
    BY CommitFigures
<1>3. r \in Requests /\ Port!Route(s, d) /\ r.key \in Keys \cup {NoKey}
      /\ r.amount \in Amounts
    BY <1>1, ConstantFacts DEF IInv, RequestInv, InTransaction, Amounts
<1>4. r.key \notin keys
    BY <1>1, ConstantFacts DEF IInv, KeyInv, KeyState, TypeOK, InTransaction
<1>5. keys' = IF r.key = NoKey THEN keys ELSE keys \cup {r.key}
    BY DEF Commit
<1>6. Port!Allowed(s, d, r.amount, r.key)
    BY <1>1, <1>3, <1>4 DEF Port!Allowed
<1> DEFINE amount == r.amount
<1> HIDE DEF r, s, d, amount
<1>7. balance[s] \in Int /\ balance[d] \in Int /\ unfunded[s] \in Nat /\ amount \in Int
    BY <1>1 DEF amount
<1>8. CASE paid = amount /\ amount <= balance[s]
<2>1. balance' = [balance EXCEPT ![s] = @ - amount, ![d] = @ + amount]
    BY <1>1, <1>2, <1>8 DEF amount
<2>2. unfunded' = unfunded
    BY <1>1, <1>2, <1>7, <1>8 DEF amount
<2>3. Port!Move(s, d, amount, r.key)
    BY <1>1, <1>5, <1>6, <1>8, <2>1, <2>2 DEF Port!Move, amount
<2> QED
    BY <1>1, <1>3, <2>3 DEF Port!Movement, amount
<1>9. CASE paid = 0 /\ shape = "pair" /\ amount > balance[s]
<2>1. /\ balance[s] - paid = balance[s] /\ amount - paid = amount
    BY <1>7, <1>9
<2>2. balance' = [balance EXCEPT ![d] = @ + amount]
    BY <1>1, <1>2, <2>1 DEF amount
<2>3. unfunded' = [unfunded EXCEPT ![s] = @ + amount]
    BY <1>1, <1>2, <2>1 DEF amount
<2>4. Port!Overcredit(s, d, amount, r.key)
    BY <1>1, <1>5, <1>6, <1>9, <2>2, <2>3 DEF Port!Overcredit, amount
<2> QED
    BY <1>1, <1>3, <2>4 DEF Port!Movement, amount
<1> QED
    BY <1>2, <1>8, <1>9 DEF amount

\* Every step is a movement of the ledger, the closing of accounts or a
\* stutter.
LEMMA StepRefines ==
    ASSUME IInv, [Next]_vars
    PROVE  [Port!Next]_(Port!vars)
<1>1. CASE \E p \in Attempts : Commit(p)
    BY <1>1, CommitMoves DEF Port!Next
<1>2. ASSUME NEW a \in Accounts, DeleteUser(Owner[a]) PROVE Port!Next
<2>1. Port!CloseAll(Owner[a])
    BY <1>2 DEF DeleteUser, Port!CloseAll
<2> QED
    BY <2>1 DEF Port!Next
<1>3. CASE UNCHANGED rowVars
    BY <1>3 DEF rowVars, Port!vars
<1> QED
    BY <1>1, <1>2, <1>3, RowSteps

\* The transfer path implements the atomic ledger whichever shape the driver has: no
\* interleaving of statements, crash or retry is visible in the balances, every movement is
\* one that the port allows, and a source that does not pay is one that could not while the
\* driver hid it (never so with the shape that the gateway was written for).
THEOREM TransfersImplementLedger == Spec => ImplementsMoneyLedger
<1>1. Init => Port!Init
    BY DEF Init, Port!Init
<1>2. IInv /\ [Next]_vars => [Port!Next]_(Port!vars)
    BY StepRefines
<1> QED
    BY <1>1, <1>2, InductiveInvariant, PTL
       DEF Spec, Port!Spec, ImplementsMoneyLedger

-----------------------------------------------------------------------------
(* Transfers and orders on the same rows.  The proofs about the desk are   *)
(* those of TradingProofs, with the balances of the accounts as its cash.  *)

DeskProofs == INSTANCE TradingProofs WITH cash <- balance

-----------------------------------------------------------------------------
(* The desk of Bank and that of the proofs about it are the same.          *)

\* The assumptions of the desk.
LEMMA DeskAssumptions ==
    DeskProofs!PortfolioAssumption /\ DeskProofs!MarketAssumption /\ DeskProofs!OrdersAssumption
    BY BankAssumption
    DEF Desk!PortfolioAssumption, DeskProofs!PortfolioAssumption, Desk!MarketAssumption,
        DeskProofs!MarketAssumption, Desk!OrdersAssumption, DeskProofs!OrdersAssumption,
        Desk!Position, DeskProofs!Position, Desk!BookRow, DeskProofs!BookRow,
        Desk!OrderRequest, DeskProofs!OrderRequest

\* The valuation of a portfolio.
LEMMA SameValuation ==
    \A m, rows, d : Desk!Valuation(m, rows, d) = DeskProofs!Valuation(m, rows, d)
<1>1. \A rows, d : /\ Desk!MarketValue(rows, d) = DeskProofs!MarketValue(rows, d)
                   /\ Desk!Cost(rows) = DeskProofs!Cost(rows)
    BY DEF Desk!MarketValue, DeskProofs!MarketValue, Desk!Cost, DeskProofs!Cost,
       Desk!MapThenSumSet, DeskProofs!MapThenSumSet, Desk!MapThenFoldSet,
       DeskProofs!MapThenFoldSet
<1> QED
    BY <1>1 DEF Desk!Valuation, DeskProofs!Valuation, Desk!RoundedRatio,
       DeskProofs!RoundedRatio

\* The initial state.
LEMMA SameInit == Desk!Init => DeskProofs!Init
    BY SameValuation DEF Desk!Init, DeskProofs!Init, Desk!NoRow, DeskProofs!NoRow

\* The steps of an order that throw or wait.
LEMMA SameRollback ==
    \A o \in Orders : \A s : Desk!Rollback(o, s) => DeskProofs!Rollback(o, s)
    BY DEF Desk!Rollback, DeskProofs!Rollback, Desk!GoTo, DeskProofs!GoTo, Desk!Release,
       DeskProofs!Release, Desk!Forget, DeskProofs!Forget, Desk!NoRow, DeskProofs!NoRow,
       Desk!deskVars, DeskProofs!deskVars

\* The statements of an order.
LEMMA SameStatements ==
    ASSUME NEW o \in Orders
    PROVE  /\ \A r \in OrderRequests : Desk!Place(o, r) => DeskProofs!Place(o, r)
           /\ Desk!Proceed(o) => DeskProofs!Proceed(o)
           /\ Desk!Abort(o) => DeskProofs!Abort(o)
<1> USE DEF Desk!GoTo, DeskProofs!GoTo, Desk!deskVars, DeskProofs!deskVars
<1>1. \A r \in OrderRequests : Desk!Place(o, r) => DeskProofs!Place(o, r)
    BY DEF Desk!Place, DeskProofs!Place
<1>2. Desk!GetQuote(o) => DeskProofs!GetQuote(o)
    BY DEF Desk!GetQuote, DeskProofs!GetQuote
<1>3. Desk!LockAccount(o) => DeskProofs!LockAccount(o)
    BY SameRollback DEF Desk!LockAccount, DeskProofs!LockAccount
<1>4. /\ \A p, u : Desk!Amount(p, u) = DeskProofs!Amount(p, u)
      /\ \A r, p, m, h : Desk!Allowed(r, p, m, h) = DeskProofs!Allowed(r, p, m, h)
      /\ \A w, u, p : Desk!Bought(w, u, p) = DeskProofs!Bought(w, u, p)
      /\ \A w, u : Desk!Sold(w, u) = DeskProofs!Sold(w, u)
    BY DEF Desk!Amount, DeskProofs!Amount, Desk!RoundedRatio, DeskProofs!RoundedRatio,
       Desk!Allowed, DeskProofs!Allowed, Desk!Bought, DeskProofs!Bought, Desk!Sold,
       DeskProofs!Sold, Desk!NoRow, DeskProofs!NoRow
<1>5. Desk!ReadPosition(o) => DeskProofs!ReadPosition(o)
    BY <1>4, SameRollback DEF Desk!ReadPosition, DeskProofs!ReadPosition
<1>6. Desk!Write(o) => DeskProofs!Write(o)
    BY <1>4 DEF Desk!Write, DeskProofs!Write
<1>7. /\ Desk!Release(o) => DeskProofs!Release(o)
      /\ Desk!Forget(o) => DeskProofs!Forget(o)
    BY DEF Desk!Release, DeskProofs!Release, Desk!Forget, DeskProofs!Forget,
       Desk!NoRow, DeskProofs!NoRow
<1>8. Desk!CommitMarket(o) => DeskProofs!CommitMarket(o)
    BY <1>7, SameValuation DEF Desk!CommitMarket, DeskProofs!CommitMarket
<1>9. Desk!CommitPending(o) => DeskProofs!CommitPending(o)
    BY <1>7 DEF Desk!CommitPending, DeskProofs!CommitPending
<1>10. Desk!Proceed(o) => DeskProofs!Proceed(o)
    BY <1>2, <1>3, <1>5, <1>6, <1>8, <1>9 DEF Desk!Proceed, DeskProofs!Proceed
<1>11. Desk!Abort(o) => DeskProofs!Abort(o)
    BY SameRollback DEF Desk!Abort, DeskProofs!Abort, Desk!InTransaction,
       DeskProofs!InTransaction
<1> QED
    BY <1>1, <1>10, <1>11

\* A step of the bank is one of the transfers, one of the desk or a deletion for both.
LEMMA BankSteps ==
    ASSUME [BankNext]_bankVars
    PROVE  \/ TransferNext /\ UNCHANGED deskOnly
           \/ DeskProofs!DeskNext /\ UNCHANGED transferOnly
           \/ \E a \in Accounts : /\ DeleteUser(Owner[a]) /\ DeskProofs!DeleteUser(Owner[a])
           \/ UNCHANGED bankVars
<1>1. Desk!DeskNext => DeskProofs!DeskNext
<2>1. \A x \in Assets : Desk!UpdateManagedAsset(x) => DeskProofs!UpdateManagedAsset(x)
    BY DEF Desk!UpdateManagedAsset, DeskProofs!UpdateManagedAsset, Desk!deskVars,
       DeskProofs!deskVars
<2> QED
    BY <2>1, SameStatements, Zenon DEF Desk!DeskNext, DeskProofs!DeskNext
<1>2. ASSUME NEW u, DeleteBankUser(u)
      PROVE  DeleteUser(u) /\ DeskProofs!DeleteUser(u)
<2>1. DeskProofs!Cascade(u)
    BY <1>2 DEF DeleteBankUser, Desk!Cascade, DeskProofs!Cascade, Desk!NoRow, DeskProofs!NoRow
<2> QED
    BY <1>2, <2>1 DEF DeleteBankUser, DeleteUser, DeskProofs!DeleteUser
<1> QED
    BY <1>1, <1>2 DEF BankNext

-----------------------------------------------------------------------------
(* Neither side disturbs the other.                                        *)

\* Who may hold a row: the two sides are different transactions.
LEMMA Holders ==
    /\ Attempts \subseteq Lockers /\ Orders \subseteq Lockers /\ Free \notin Lockers
    /\ Attempts \cap Orders = {}
    BY ProcessAssumption, DeskAssumptions, BankAssumption DEF DeskProofs!OrdersAssumption

\* A transfer changes no row that somebody else holds, and takes none from him.
LEMMA TransferKeepsHeldRows ==
    ASSUME IInv, TransferNext
    PROVE  /\ live' = live
           /\ \A a \in Accounts : lock[a] \notin Attempts \cup {Free} =>
                  lock'[a] = lock[a] /\ balance'[a] = balance[a]
<1> DEFINE Kept == \A a \in Accounts : lock[a] \notin Attempts \cup {Free} =>
                       lock'[a] = lock[a] /\ balance'[a] = balance[a]
<1>1. lock \in [Accounts -> Lockers \cup {Free}] /\ balance \in [Accounts -> Int]
      /\ live \subseteq Accounts
    BY DEF IInv, TypeOK
<1>2. ASSUME NEW p \in Attempts, NEW result, Rollback(p, result) PROVE live' = live /\ Kept
    BY <1>2 DEF Rollback, Release, rowVars
<1>3. ASSUME NEW p \in Attempts,
             (\E r \in Requests : Submit(p, r)) \/ InsertKey(p) \/ Answer(p) \/ LoseAnswer(p)
      PROVE  live' = live /\ Kept
    BY <1>3 DEF Submit, InsertKey, Answer, LoseAnswer, rowVars
<1>4. ASSUME NEW p \in Attempts, LockFirst(p) \/ LockSecond(p) PROVE live' = live /\ Kept
    BY <1>1, <1>4 DEF LockFirst, LockSecond, LockRow, rowVars
<1>5. ASSUME NEW p \in Attempts, Debit(p) PROVE live' = live /\ Kept
<2>1. CASE \E result : Rollback(p, result)
    BY <1>2, <2>1
<2>2. CASE UNCHANGED rowVars /\ lock' = lock
    BY <2>2 DEF rowVars
<2>3. CASE /\ UNCHANGED rowVars /\ req[p].source \in live
           /\ lock[req[p].source] \in {Free, p}
           /\ lock' = [lock EXCEPT ![req[p].source] = p]
    BY <1>1, <2>3 DEF rowVars
<2> QED
    BY <1>5, <2>1, <2>2, <2>3 DEF Debit, TakeLock, MayUpdate
<1>6. ASSUME NEW p \in Attempts, Credit(p) PROVE live' = live /\ Kept
<2>1. CASE \E result : Rollback(p, result)
    BY <1>2, <2>1
<2>2. CASE /\ UNCHANGED rowVars /\ Destination(req[p]) \in live
           /\ lock[Destination(req[p])] \in {Free, p}
           /\ lock' = [lock EXCEPT ![Destination(req[p])] = p]
    BY <1>1, <2>2 DEF rowVars
<2> QED
    BY <1>6, <2>1, <2>2 DEF Credit, TakeLock, MayUpdate
<1>7. ASSUME NEW p \in Attempts, Commit(p) PROVE live' = live /\ Kept
<2> DEFINE s == req[p].source
           d == Destination(req[p])
<2>1. s \in live /\ d \in live
    BY <1>7, CommitWrites
<2>2. lock[s] = p /\ lock[d] = p
    BY <1>7, <2>1 DEF Commit, IInv, LockInv
<2>3. /\ live' = live /\ lock' = [a \in Accounts |-> IF lock[a] = p THEN Free ELSE lock[a]]
      /\ \A a \in Accounts : a \notin {s, d} => balance'[a] = balance[a]
    BY <1>1, <1>7 DEF Commit, Release
<2> HIDE DEF s, d
<2> QED
    BY <1>7, <2>2, <2>3
<1>8. ASSUME NEW p \in Attempts, Abort(p) PROVE live' = live /\ Kept
    BY <1>2, <1>8 DEF Abort
<1> QED
    BY <1>3, <1>4, <1>5, <1>6, <1>7, <1>8 DEF TransferNext, Proceed

\* An order changes no row that somebody else holds, takes none from him, and moves the cash of
\* portfolios only.
LEMMA DeskKeepsHeldRows ==
    ASSUME DeskProofs!IInv, DeskProofs!DeskNext
    PROVE  /\ live' = live
           /\ \A a \in Accounts : lock[a] \notin Orders \cup {Free} =>
                  lock'[a] = lock[a] /\ balance'[a] = balance[a]
           /\ \A a \in Accounts \ Portfolios : balance'[a] = balance[a]
<1> DEFINE Kept == /\ \A a \in Accounts : lock[a] \notin Orders \cup {Free} =>
                          lock'[a] = lock[a] /\ balance'[a] = balance[a]
                   /\ \A a \in Accounts \ Portfolios : balance'[a] = balance[a]
<1>1. lock \in [Accounts -> Lockers \cup {Free}] /\ balance \in [Accounts -> Int]
      /\ live \subseteq Accounts
    BY DEF DeskProofs!IInv, DeskProofs!TypeOK
<1>2. ASSUME NEW o \in Orders, NEW result, DeskProofs!Rollback(o, result)
      PROVE  live' = live /\ Kept
    BY <1>2 DEF DeskProofs!Rollback, DeskProofs!Release
<1>3. ASSUME NEW o \in Orders,
             \/ \E r \in OrderRequests : DeskProofs!Place(o, r)
             \/ DeskProofs!GetQuote(o) \/ DeskProofs!Write(o)
      PROVE  live' = live /\ Kept
    BY <1>3 DEF DeskProofs!Place, DeskProofs!GetQuote, DeskProofs!Write
<1>4. ASSUME NEW o \in Orders, DeskProofs!LockAccount(o) PROVE live' = live /\ Kept
<2>1. CASE DeskProofs!Rollback(o, "refused")
    BY <1>2, <2>1
<2>2. CASE ~DeskProofs!Rollback(o, "refused")
    BY <1>1, <1>4, <2>2 DEF DeskProofs!LockAccount
<2> QED
    BY <2>1, <2>2
<1>5. ASSUME NEW o \in Orders, DeskProofs!ReadPosition(o) PROVE live' = live /\ Kept
<2>1. CASE DeskProofs!Rollback(o, "refused")
    BY <1>2, <2>1
<2>2. CASE ~DeskProofs!Rollback(o, "refused")
    BY <1>1, <1>5, <2>2 DEF DeskProofs!ReadPosition
<2> QED
    BY <2>1, <2>2
<1>6. ASSUME NEW o \in Orders, DeskProofs!CommitMarket(o) PROVE live' = live /\ Kept
<2> DEFINE b == order[o].account
<2>1. b \in Portfolios /\ lock[b] = o /\ balance' = [balance EXCEPT ![b] = account[o]]
    BY <1>6, DeskAssumptions, DeskProofs!CommitFacts
<2>2. live' = live /\ lock' = [a \in Accounts |-> IF lock[a] = o THEN Free ELSE lock[a]]
    BY <1>6 DEF DeskProofs!CommitMarket, DeskProofs!Release
<2> HIDE DEF b
<2> QED
    BY <1>1, <2>1, <2>2
<1>7. ASSUME NEW o \in Orders, DeskProofs!CommitPending(o) PROVE live' = live /\ Kept
    BY <1>7 DEF DeskProofs!CommitPending, DeskProofs!Release
<1>8. ASSUME NEW o \in Orders, DeskProofs!Abort(o) PROVE live' = live /\ Kept
    BY <1>2, <1>8 DEF DeskProofs!Abort
<1>9. ASSUME NEW x \in Assets, DeskProofs!UpdateManagedAsset(x) PROVE live' = live /\ Kept
    BY <1>9 DEF DeskProofs!UpdateManagedAsset
<1> QED
    BY <1>3, <1>4, <1>5, <1>6, <1>7, <1>8, <1>9 DEF DeskProofs!DeskNext, DeskProofs!Proceed

\* What the transfers under way know is as true after a step of the desk.
LEMMA TransfersSurviveOrders ==
    ASSUME IInv, DeskProofs!IInv, DeskProofs!IInv', DeskProofs!DeskNext, UNCHANGED transferOnly
    PROVE  IInv'
<1>1. /\ live' = live
      /\ \A a \in Accounts, p \in Attempts :
            lock[a] = p => lock'[a] = p /\ balance'[a] = balance[a]
      /\ \A a \in Accounts \ Portfolios : balance'[a] = balance[a]
    BY Holders, DeskKeepsHeldRows
<1>2. UNCHANGED <<ledger, keys, pc, req, sourceVersion, destVersion, outcome, notices,
                  shape, unfunded>>
    BY DEF transferOnly
<1>3. TypeOK'
    BY <1>2 DEF IInv, TypeOK, DeskProofs!IInv, DeskProofs!TypeOK
<1>4. RequestInv'
    BY <1>2 DEF IInv, RequestInv, Port!Route
<1>5. LockInv'
    BY <1>1, <1>2 DEF IInv, LockInv, TypeOK, LockOrder
<1>6. VersionInv'
<2> SUFFICES ASSUME NEW p \in Attempts
             PROVE  (/\ pc[p] \in {"credit", "commit"} =>
                            balance'[req[p].source] = balance[req[p].source]
                     /\ pc[p] = "commit" =>
                            balance'[Destination(req[p])] = balance[Destination(req[p])])
    BY <1>1, <1>2 DEF IInv, VersionInv, Destination
<2> QED
    BY <1>1 DEF IInv, VersionInv, LockInv, TypeOK
<1>7. KeyInv' /\ KeyOnce'
    BY <1>2 DEF IInv, KeyInv, KeyState, KeyOnce, HoldsKey, Committed
<1>8. NoOverdraft'
    BY <1>1 DEF IInv, NoOverdraft, DeskProofs!IInv, DeskProofs!NeverOnCreditNorShort
<1> QED
    BY <1>3, <1>4, <1>5, <1>6, <1>7, <1>8 DEF IInv

\* What the orders under way know is as true after a step of a transfer.
LEMMA OrdersSurviveTransfers ==
    ASSUME IInv, IInv', DeskProofs!IInv, TransferNext, UNCHANGED deskOnly
    PROVE  DeskProofs!IInv'
<1>1. /\ live' = live
      /\ \A a \in Accounts, o \in Orders :
            lock[a] = o => lock'[a] = o /\ balance'[a] = balance[a]
    BY Holders, TransferKeepsHeldRows
<1>2. UNCHANGED <<position, worth, book, offered, stage, order, quote, account, row>>
    BY DEF deskOnly
<1>3. DeskProofs!TypeOK'
    BY <1>2 DEF IInv, TypeOK, DeskProofs!IInv, DeskProofs!TypeOK
<1>4. ASSUME NEW o \in Orders PROVE DeskProofs!OrderState(o)'
<2>1. DeskProofs!OrderState(o) /\ live \subseteq Accounts
    BY DEF DeskProofs!IInv, IInv, TypeOK
<2>2. DeskProofs!RequestKept(o)'
    BY <1>2, <2>1 DEF DeskProofs!OrderState, DeskProofs!RequestKept
<2>3. stage[o] \in {"position", "write", "commit"} =>
          /\ lock'[order[o].account] = o
          /\ balance'[order[o].account] = balance[order[o].account]
    BY <1>1, <2>1 DEF DeskProofs!OrderState, DeskProofs!HoldsAccount
<2>4. DeskProofs!HoldsAccount(o)'
    BY <1>1, <1>2, <2>1, <2>3 DEF DeskProofs!OrderState, DeskProofs!HoldsAccount
<2>5. DeskProofs!MemoryCurrent(o)'
    BY <1>2, <2>1, <2>3 DEF DeskProofs!OrderState, DeskProofs!MemoryCurrent
<2> QED
    BY <2>2, <2>4, <2>5 DEF DeskProofs!OrderState
<1>5. DeskProofs!NeverOnCreditNorShort'
    BY <1>2, BankAssumption DEF IInv, NoOverdraft, DeskProofs!IInv,
       DeskProofs!NeverOnCreditNorShort
<1> QED
    BY <1>3, <1>4, <1>5 DEF DeskProofs!IInv

-----------------------------------------------------------------------------
(* The invariant of the bank.                                              *)

\* Both invariants at once, with finitely many rows in trading_orders.
BankInv ==
    /\ IInv
    /\ DeskProofs!IInv
    /\ DeskProofs!AnswersHold
    /\ IsFiniteSet(DeskProofs!Booked)

\* Finite is finite on either side.
LEMMA SameFinite == \A S : IsFiniteSet(S) <=> DeskProofs!IsFiniteSet(S)
    BY DEF IsFiniteSet, DeskProofs!IsFiniteSet

\* The rows of trading_orders grow by one at a commit.
LEMMA BookedGrows ==
    ASSUME DeskProofs!IInv, [DeskProofs!Next]_(DeskProofs!vars)
    PROVE  \E o : DeskProofs!Booked' \in SUBSET (DeskProofs!Booked \cup {o})
<1>1. ASSUME book' = book PROVE DeskProofs!Booked' = DeskProofs!Booked
    BY <1>1 DEF DeskProofs!Booked
<1>2. CASE DeskProofs!DeskQuiet
    BY <1>1, <1>2, DeskAssumptions, DeskProofs!QuietKeepsRows
<1>3. ASSUME NEW o \in Orders, DeskProofs!CommitMarket(o) \/ DeskProofs!CommitPending(o)
      PROVE  DeskProofs!Booked' \in SUBSET (DeskProofs!Booked \cup {o})
    BY <1>3 DEF DeskProofs!Booked, DeskProofs!CommitMarket, DeskProofs!CommitPending,
       DeskProofs!IInv, DeskProofs!TypeOK
<1>4. ASSUME NEW u, DeskProofs!DeleteUser(u)
      PROVE  DeskProofs!Booked' \in SUBSET DeskProofs!Booked
    BY <1>4 DEF DeskProofs!Booked, DeskProofs!DeleteUser, DeskProofs!Cascade
<1> QED
    BY <1>2, <1>3, <1>4, DeskAssumptions, DeskProofs!NextForms

\* Nothing is under way at the start.
LEMMA BankInitInv == BankInit => BankInv
<1> SUFFICES ASSUME BankInit PROVE BankInv
    OBVIOUS
<1>1. DeskProofs!Init
    BY SameInit DEF BankInit
<1>2. IInv /\ DeskProofs!IInv
    BY <1>1, InitInv, DeskAssumptions, DeskProofs!InitInv DEF BankInit
<1>3. DeskProofs!AnswersHold /\ DeskProofs!Booked = {}
    BY <1>1 DEF DeskProofs!Init, DeskProofs!AnswersHold, DeskProofs!AnswersMatchBook,
       DeskProofs!RowsOfOrders, DeskProofs!Booked
<1> QED
    BY <1>2, <1>3, FS_EmptySet DEF BankInv

\* A step of the desk keeps what is known of it.
LEMMA DeskNextInv ==
    ASSUME DeskProofs!IInv, DeskProofs!AnswersHold, IsFiniteSet(DeskProofs!Booked),
           [DeskProofs!Next]_(DeskProofs!vars)
    PROVE  /\ DeskProofs!IInv' /\ DeskProofs!AnswersHold'
           /\ IsFiniteSet(DeskProofs!Booked)'
<1>1. DeskProofs!IInv'
    BY DeskAssumptions, DeskProofs!NextInv
<1>2. DeskProofs!AnswersHold'
    BY DeskAssumptions, DeskProofs!NextForms, DeskProofs!AnswersBeforeCommit,
       DeskProofs!AnswersAtCommit, DeskProofs!AnswersAtDeletion
<1>3. PICK o : DeskProofs!Booked' \in SUBSET (DeskProofs!Booked \cup {o})
    BY BookedGrows
<1>4. IsFiniteSet(DeskProofs!Booked')
    BY <1>3, FS_AddElement, FS_Subset
<1> QED
    BY <1>1, <1>2, <1>4

\* Every step of the bank keeps both invariants.
LEMMA BankNextInv == BankInv /\ [BankNext]_bankVars => BankInv'
<1> SUFFICES ASSUME BankInv, [BankNext]_bankVars PROVE BankInv'
    OBVIOUS
<1>1. CASE TransferNext /\ UNCHANGED deskOnly
<2>1. IInv'
    BY <1>1, NextInv DEF BankInv, Next
<2>2. DeskProofs!IInv'
    BY <1>1, <2>1, OrdersSurviveTransfers DEF BankInv
<2>3. UNCHANGED <<live, book, stage, order>>
    BY <1>1, TransferKeepsHeldRows DEF deskOnly, BankInv
<2>4. DeskProofs!AnswersHold' /\ DeskProofs!Booked' = DeskProofs!Booked
    BY <2>3 DEF BankInv, DeskProofs!AnswersHold, DeskProofs!AnswersMatchBook,
       DeskProofs!RowsOfOrders, DeskProofs!Booked
<2> QED
    BY <2>1, <2>2, <2>4 DEF BankInv
<1>2. CASE DeskProofs!DeskNext /\ UNCHANGED transferOnly
<2>1. DeskProofs!Next
    BY <1>2 DEF DeskProofs!Next
<2>2. DeskProofs!IInv' /\ DeskProofs!AnswersHold' /\ IsFiniteSet(DeskProofs!Booked)'
    BY <2>1, DeskNextInv DEF BankInv
<2>3. IInv'
    BY <1>2, <2>2, TransfersSurviveOrders DEF BankInv
<2> QED
    BY <2>2, <2>3 DEF BankInv
<1>3. ASSUME NEW a \in Accounts, DeleteUser(Owner[a]), DeskProofs!DeleteUser(Owner[a])
      PROVE  BankInv'
<2>1. Next /\ DeskProofs!Next
    BY <1>3 DEF Next, DeskProofs!Next
<2>2. DeskProofs!IInv' /\ DeskProofs!AnswersHold' /\ IsFiniteSet(DeskProofs!Booked)'
    BY <2>1, DeskNextInv DEF BankInv
<2> QED
    BY <2>1, <2>2, NextInv DEF BankInv
<1>4. CASE UNCHANGED bankVars
<2>1. UNCHANGED vars /\ UNCHANGED DeskProofs!vars
    BY <1>4 DEF bankVars, vars, rowVars, transferOnly, deskOnly, DeskProofs!vars, DeskProofs!deskVars
<2>2. DeskProofs!IInv' /\ DeskProofs!AnswersHold' /\ IsFiniteSet(DeskProofs!Booked)'
    BY <2>1, DeskNextInv DEF BankInv
<2> QED
    BY <2>1, <2>2, NextInv DEF BankInv
<1> QED
    BY <1>1, <1>2, <1>3, <1>4, BankSteps

\* With transfers and orders on the same rows both inductive invariants hold.
THEOREM BankInvariant == BankSpec => []BankInv
    BY BankInitInv, BankNextInv, PTL DEF BankSpec

\* No mixture of transfers and orders overdraws an account, sells what is not held or commits
\* a key twice (validateMarketExecution, decrementIfSufficient).
THEOREM NothingOverdrawnTogether ==
    BankSpec => [](NoOverdraft /\ KeyOnce /\ Desk!NeverOnCreditNorShort)
<1>1. BankInv => NoOverdraft /\ KeyOnce /\ Desk!NeverOnCreditNorShort
    BY DEF BankInv, IInv, DeskProofs!IInv, Desk!NeverOnCreditNorShort,
       DeskProofs!NeverOnCreditNorShort
<1> QED
    BY <1>1, BankInvariant, PTL

-----------------------------------------------------------------------------
(* Movements and trades happen one at a time.                              *)

\* The brokerage of the desk and that of the proofs about it are the same.
LEMMA SameFloor ==
    /\ DeskProofs!Floor!Next => Desk!Floor!Next
    /\ UNCHANGED DeskProofs!Floor!vars => UNCHANGED Desk!Floor!vars
<1>1. \A a \in Portfolios : \A x \in Assets : \A n \in Units, c \in Prices :
          /\ DeskProofs!Floor!Buy(a, x, n, c) => Desk!Floor!Buy(a, x, n, c)
          /\ DeskProofs!Floor!Sell(a, x, n, c) => Desk!Floor!Sell(a, x, n, c)
    BY DEF DeskProofs!Floor!Buy, Desk!Floor!Buy, DeskProofs!Floor!Sell, Desk!Floor!Sell,
       DeskProofs!Floor!Amount, Desk!Floor!Amount
<1>2. \A u : DeskProofs!Floor!CloseAll(u) => Desk!Floor!CloseAll(u)
    BY DEF DeskProofs!Floor!CloseAll, Desk!Floor!CloseAll
<1>3. UNCHANGED DeskProofs!Floor!vars => UNCHANGED Desk!Floor!vars
    BY DEF DeskProofs!Floor!vars, Desk!Floor!vars
<1> QED
    BY <1>1, <1>2, <1>3 DEF DeskProofs!Floor!Next, Desk!Floor!Next

\* A statement of a transfer is no movement, but for its commit.
LEMMA QuietTransfer ==
    ASSUME TransferNext, ~\E p \in Attempts : Commit(p)
    PROVE  UNCHANGED rowVars
    BY QuietStep DEF TransferNext, Proceed

\* Whatever transfers and orders interleave on the same rows, what they do to balances, holdings
\* and keys is what the atomic ledger and the atomic brokerage would do one after the other.
THEOREM MovementsAndTrades == BankSpec => OneAtATime
<1> DEFINE Movement == Port!Movement /\ UNCHANGED position
           Trade == /\ [Desk!Floor!Next]_(Desk!Floor!vars)
                    /\ UNCHANGED <<keys, unfunded>>
<1>1. ASSUME BankInv, [BankNext]_bankVars PROVE Movement \/ Trade
<2>1. CASE TransferNext /\ UNCHANGED deskOnly
<3>1. CASE \E p \in Attempts : Commit(p)
    BY <1>1, <2>1, <3>1, CommitMoves DEF BankInv, deskOnly
<3>2. CASE ~\E p \in Attempts : Commit(p)
<4>1. UNCHANGED <<balance, live, keys, unfunded, position>>
    BY <2>1, <3>2, QuietTransfer DEF deskOnly, rowVars
<4> QED
    BY <4>1 DEF Desk!Floor!vars
<3> QED
    BY <3>1, <3>2
<2>2. CASE DeskProofs!DeskNext /\ UNCHANGED transferOnly
<3>1. [DeskProofs!Floor!Next]_(DeskProofs!Floor!vars)
    BY <1>1, <2>2, DeskAssumptions, DeskProofs!StepRefines DEF BankInv, DeskProofs!Next
<3> QED
    BY <2>2, <3>1, SameFloor DEF transferOnly
<2>3. ASSUME NEW a \in Accounts, DeleteUser(Owner[a]), DeskProofs!DeleteUser(Owner[a])
      PROVE  Trade
<3>1. [DeskProofs!Floor!Next]_(DeskProofs!Floor!vars)
    BY <1>1, <2>3, DeskAssumptions, DeskProofs!StepRefines DEF BankInv, DeskProofs!Next
<3> QED
    BY <2>3, <3>1, SameFloor DEF DeleteUser
<2>4. CASE UNCHANGED bankVars
    BY <2>4 DEF bankVars, deskOnly, transferOnly, Desk!Floor!vars
<2> QED
    BY <1>1, <2>1, <2>2, <2>3, <2>4, BankSteps
<1> QED
    BY <1>1, BankInvariant, PTL DEF BankSpec, OneAtATime

-----------------------------------------------------------------------------
(* Statements and orders explain the balances.                             *)

\* What the orders of an account cost is the same on either side, before and after a step.
LEMMA SameSpent ==
    /\ \A a : Desk!Spent(a) = DeskProofs!Spent(a)
    /\ \A a : Desk!Spent(a)' = DeskProofs!Spent(a)'
    BY DEF Desk!Spent, DeskProofs!Spent, Desk!Executed, DeskProofs!Executed, Desk!Signed,
       DeskProofs!Signed, Desk!Amount, DeskProofs!Amount, Desk!RoundedRatio,
       DeskProofs!RoundedRatio, Desk!SumFunction, DeskProofs!SumFunction,
       Desk!SumFunctionOnSet, DeskProofs!SumFunctionOnSet, Desk!FoldFunctionOnSet,
       DeskProofs!FoldFunctionOnSet, Desk!MapThenFoldSet, DeskProofs!MapThenFoldSet

\* What explains the balance of an account when nothing that explains it changes.
LEMMA ExplainedElsewhere ==
    ASSUME MoneyExplained, live' \subseteq live,
           \A a \in live' : /\ balance'[a] = balance[a] /\ ledger'[a] = ledger[a]
                            /\ unfunded'[a] = unfunded[a]
                            /\ DeskProofs!Spent(a)' = DeskProofs!Spent(a)
    PROVE  MoneyExplained'
<1>1. ASSUME NEW a \in live' PROVE LedgerSum(a)' = LedgerSum(a)
    BY <1>1 DEF LedgerSum
<1> QED
    BY <1>1, SameSpent DEF MoneyExplained

\* The two lines of a transfer explain what it moves.
LEMMA ExplainedAtTransfer ==
    ASSUME BankInv, MoneyExplained, UNCHANGED deskOnly, NEW p \in Attempts, Commit(p)
    PROVE  MoneyExplained'
<1>1. live' = live /\ live \subseteq Accounts
    BY CommitFigures DEF BankInv
<1>2. ASSUME NEW a \in live
      PROVE  balance'[a] = Opening[a] + LedgerSum(a)' + unfunded'[a]
                           - (IF a \in Portfolios THEN DeskProofs!Spent(a)' ELSE 0)
<2>1. DeskProofs!Spent(a)' = DeskProofs!Spent(a) /\ DeskProofs!Spent(a) \in Int
<3>1. DeskProofs!TypeOK /\ DeskProofs!IsFiniteSet(DeskProofs!Booked)
    BY SameFinite DEF BankInv, DeskProofs!IInv
<3>2. book' = book /\ DeskProofs!Executed(a)' = DeskProofs!Executed(a)
    BY DEF deskOnly, DeskProofs!Executed
<3>3. DeskProofs!Spent(a)' = DeskProofs!Spent(a)
    BY <3>2, DeskAssumptions, DeskProofs!SameRowsSameSums
<3> QED
    BY <3>1, <3>3, DeskAssumptions, DeskProofs!SpentInteger
<2>2. balance[a] = Opening[a] + LedgerSum(a) + unfunded[a]
                   - (IF a \in Portfolios THEN DeskProofs!Spent(a) ELSE 0)
    BY SameSpent DEF MoneyExplained
<2>3. Opening[a] \in Int
    BY <1>1, AccountsAssumption
<2>4. /\ LedgerSum(a) \in Int /\ LedgerSum(a)' \in Int
      /\ balance[a] \in Int /\ balance'[a] \in Int
      /\ unfunded[a] \in Int /\ unfunded'[a] \in Int
      /\ balance'[a] - LedgerSum(a)' - unfunded'[a] =
             balance[a] - LedgerSum(a) - unfunded[a]
    BY StatementsAtCommit DEF BankInv
<2> QED
    BY <2>1, <2>2, <2>3, <2>4
<1> QED
    BY <1>1, <1>2, SameSpent DEF MoneyExplained

\* The row of an executed order explains what it takes or brings.
LEMMA ExplainedAtExecution ==
    ASSUME BankInv, MoneyExplained, UNCHANGED transferOnly,
           NEW o \in Orders, DeskProofs!CommitMarket(o)
    PROVE  MoneyExplained'
<1> DEFINE r == order[o]
           b == r.account
           amount == DeskProofs!Amount(quote[o], r.units)
<1>1. /\ b \in Portfolios /\ r.asset \in Assets /\ amount \in Nat
      /\ balance' = [balance EXCEPT ![b] = account[o]]
      /\ \/ r.side = "buy" /\ account[o] = balance[b] - amount
         \/ r.side = "sell" /\ account[o] = balance[b] + amount
    BY DeskAssumptions, DeskProofs!CommitFacts DEF BankInv
<1>2. /\ balance \in [Accounts -> Int] /\ live \subseteq Accounts
      /\ ledger \in [Accounts -> Seq(LineSet)] /\ unfunded \in [Accounts -> Nat]
    BY DEF BankInv, IInv, TypeOK
<1>3. live' = live /\ ledger' = ledger /\ unfunded' = unfunded
    BY DEF DeskProofs!CommitMarket, transferOnly
<1>4. ASSUME NEW a \in live
      PROVE  balance'[a] = Opening[a] + LedgerSum(a)' + unfunded'[a]
                           - (IF a \in Portfolios THEN DeskProofs!Spent(a)' ELSE 0)
<2>1. /\ DeskProofs!Spent(a)' =
             IF a # b THEN DeskProofs!Spent(a)
             ELSE IF r.side = "buy" THEN DeskProofs!Spent(a) + amount
             ELSE DeskProofs!Spent(a) - amount
      /\ DeskProofs!Spent(a) \in Int
<3>1. DeskProofs!IInv /\ DeskProofs!AnswersHold /\ DeskProofs!IsFiniteSet(DeskProofs!Booked)
    BY SameFinite DEF BankInv
<3> QED
    BY <1>1, <3>1, DeskAssumptions, DeskProofs!SumsAtExecution
<2>2. balance[a] = Opening[a] + LedgerSum(a) + unfunded[a]
                   - (IF a \in Portfolios THEN DeskProofs!Spent(a) ELSE 0)
    BY SameSpent DEF MoneyExplained
<2>3. a \in Accounts /\ Opening[a] \in Int /\ balance[a] \in Int
      /\ unfunded[a] \in Int /\ unfunded'[a] = unfunded[a]
    BY <1>2, <1>3, AccountsAssumption
<2>4. LedgerSum(a) \in Int /\ LedgerSum(a)' = LedgerSum(a)
<3>1. ledger[a] \in Seq(LineSet)
    BY <1>2, <2>3
<3>2. LedgerSum(a)' = LedgerSum(a)
    BY <1>3 DEF LedgerSum
<3> QED
    BY <3>1, <3>2, LedgerSumInteger
<2>5. balance'[a] = IF a = b THEN account[o] ELSE balance[a]
    BY <1>1, <1>2, <2>3
<2> HIDE DEF r, b, amount
<2> DEFINE spent == IF a \in Portfolios THEN DeskProofs!Spent(a) ELSE 0
           spentNow == IF a \in Portfolios THEN DeskProofs!Spent(a)' ELSE 0
<2>6. /\ spent \in Int /\ spentNow \in Int /\ balance'[a] \in Int
      /\ balance'[a] - balance[a] = spent - spentNow
    BY <1>1, <2>1, <2>3, <2>5
<2>7. balance[a] = Opening[a] + LedgerSum(a) + unfunded[a] - spent
    BY <2>2
<2> HIDE DEF spent, spentNow
<2>8. balance'[a] = Opening[a] + LedgerSum(a)' + unfunded'[a] - spentNow
    BY <2>3, <2>4, <2>6, <2>7
<2> QED
    BY <2>8 DEF spentNow
<1> QED
    BY <1>3, <1>4, SameSpent DEF MoneyExplained

\* Every balance is what the statement lines and the executed orders of the account add up to,
\* for any number of transfers and orders on the same rows: neither writes back a balance that
\* the other has changed (TransferGateway, createOrder).
THEOREM BalancesExplained == BankSpec => []MoneyExplained
<1>1. BankInit => MoneyExplained
<2> SUFFICES ASSUME BankInit, NEW a \in live PROVE
        balance[a] = Opening[a] + LedgerSum(a) + unfunded[a]
                     - (IF a \in Portfolios THEN Desk!Spent(a) ELSE 0)
    BY DEF MoneyExplained
<2>1. DeskProofs!Executed(a) = {} /\ ledger[a] = <<>> /\ balance[a] = Opening[a]
      /\ unfunded[a] = 0 /\ a \in Accounts
    BY SameInit DEF BankInit, Init, DeskProofs!Init, DeskProofs!Executed
<2>2. DeskProofs!Spent(a) = 0
    BY <2>1, DeskAssumptions, DeskProofs!SumOfNone DEF DeskProofs!Spent, DeskProofs!SumFunction
<2>3. LedgerSum(a) = 0
    BY <2>1, SumOfNone DEF LedgerSum, SumFunction
<2>4. Opening[a] \in Int
    BY <2>1, AccountsAssumption
<2> QED
    BY <2>1, <2>2, <2>3, <2>4, SameSpent
<1>2. BankInv /\ MoneyExplained /\ [BankNext]_bankVars => MoneyExplained'
<2> SUFFICES ASSUME BankInv, MoneyExplained, [BankNext]_bankVars PROVE MoneyExplained'
    OBVIOUS
<2>1. ASSUME NEW a, book' = book PROVE DeskProofs!Spent(a)' = DeskProofs!Spent(a)
<3>1. DeskProofs!Executed(a)' = DeskProofs!Executed(a)
    BY <2>1 DEF DeskProofs!Executed
<3> QED
    BY <2>1, <3>1, DeskAssumptions, DeskProofs!SameRowsSameSums
<2>2. ASSUME UNCHANGED <<balance, live, ledger, unfunded, book>> PROVE MoneyExplained'
    BY <2>1, <2>2, ExplainedElsewhere
<2>3. CASE TransferNext /\ UNCHANGED deskOnly
<3>1. book' = book
    BY <2>3 DEF deskOnly
<3>2. UNCHANGED rowVars \/ \E p \in Attempts : Commit(p)
    BY <2>3, QuietTransfer
<3> QED
    BY <2>2, <2>3, <3>1, <3>2, ExplainedAtTransfer DEF rowVars
<2>4. CASE DeskProofs!DeskNext /\ UNCHANGED transferOnly
<3>1. ledger' = ledger /\ unfunded' = unfunded
    BY <2>4 DEF transferOnly
<3>2. CASE DeskProofs!DeskQuiet
<4>1. UNCHANGED <<balance, live, book>>
    BY <2>4, <3>2 DEF DeskProofs!DeskQuiet, DeskProofs!Place, DeskProofs!GetQuote,
       DeskProofs!LockAccount, DeskProofs!ReadPosition, DeskProofs!Write, DeskProofs!Abort,
       DeskProofs!Rollback, DeskProofs!UpdateManagedAsset, DeskProofs!vars, DeskProofs!deskVars
<4> QED
    BY <2>2, <3>1, <4>1
<3>3. ASSUME NEW o \in Orders, DeskProofs!CommitMarket(o) PROVE MoneyExplained'
    BY <2>4, <3>3, ExplainedAtExecution
<3>4. ASSUME NEW o \in Orders, DeskProofs!CommitPending(o) PROVE MoneyExplained'
<4>1. /\ book[o] = NoOrder /\ UNCHANGED <<balance, live>>
      /\ book' = [book EXCEPT ![o] = [request |-> order[o], status |-> "pending", price |-> 0]]
      /\ DOMAIN book = Orders
    BY <3>4 DEF DeskProofs!CommitPending, BankInv, DeskProofs!AnswersHold,
       DeskProofs!AnswersMatchBook, DeskProofs!IInv, DeskProofs!TypeOK, DeskProofs!BookRow
<4>2. \A a : /\ DeskProofs!Executed(a)' = DeskProofs!Executed(a)
             /\ \A q \in DeskProofs!Executed(a) : book'[q] = book[q]
    BY <4>1 DEF DeskProofs!Executed
<4>3. \A a : DeskProofs!Spent(a)' = DeskProofs!Spent(a)
    BY <4>2, DeskAssumptions, DeskProofs!SameRowsSameSums
<4> QED
    BY <3>1, <4>1, <4>3, ExplainedElsewhere
<3> QED
    BY <2>4, <3>2, <3>3, <3>4 DEF DeskProofs!DeskNext, DeskProofs!DeskQuiet,
       DeskProofs!Proceed
<2>5. ASSUME NEW a \in Accounts, DeleteUser(Owner[a]), DeskProofs!DeleteUser(Owner[a])
      PROVE  MoneyExplained'
<3> DEFINE gone == {c \in live : Owner[c] = Owner[a]}
<3>1. /\ live' = live \ gone /\ balance' = balance /\ unfunded' = unfunded
      /\ \A c \in Accounts : c \notin gone => ledger'[c] = ledger[c]
      /\ \A o \in Orders : book'[o] = IF book[o] # NoOrder /\ book[o].request.account \in gone
                                      THEN NoOrder ELSE book[o]
    BY <2>5 DEF DeleteUser, DeskProofs!DeleteUser, DeskProofs!Cascade
<3>2. live \subseteq Accounts
    BY DEF BankInv, IInv, TypeOK
<3> HIDE DEF gone
<3>3. \A c : c \notin gone => /\ DeskProofs!Executed(c)' = DeskProofs!Executed(c)
                              /\ \A q \in DeskProofs!Executed(c) : book'[q] = book[q]
    BY <3>1 DEF DeskProofs!Executed
<3>4. \A c : c \notin gone => DeskProofs!Spent(c)' = DeskProofs!Spent(c)
    BY <3>3, DeskAssumptions, DeskProofs!SameRowsSameSums
<3> QED
    BY <3>1, <3>2, <3>4, ExplainedElsewhere
<2>6. CASE UNCHANGED bankVars
    BY <2>2, <2>6 DEF bankVars, transferOnly, deskOnly
<2> QED
    BY <2>3, <2>4, <2>5, <2>6, BankSteps
<1> QED
    BY <1>1, <1>2, BankInvariant, PTL DEF BankSpec
=============================================================================
