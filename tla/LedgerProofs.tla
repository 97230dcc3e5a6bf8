---------------------------- MODULE LedgerProofs ----------------------------
(***************************************************************************)
(* Theorems about Ledger, for any provers, accounts, amounts and batches.  *)
(* That provers sign the same needs of the guest's loop only that it is a  *)
(* function of the accounts and the batch, and that the order of a hash    *)
(* map is no part of what is signed.  What it does to balances needs an    *)
(* induction over the transactions of a batch, and one over the batches.   *)
(***************************************************************************)
EXTENDS Ledger, SequenceTheorems, WellFoundedInduction, TLAPS

(***************************************************************************)
(* A transfer between two accounts.                                        *)
(***************************************************************************)

\* u64 stays u64.
LEMMA Wraps ==
  ASSUME NEW x \in 0..(W - 1), NEW y \in 0..(W - 1)
  PROVE  /\ wrapping_sub(x, y) \in 0..(W - 1)
         /\ wrapping_add(x, y) \in 0..(W - 1)
  BY LedgerAssumption DEF wrapping_sub, wrapping_add

\* An account stays an account.
LEMMA Rebalanced ==
  ASSUME NEW account \in EthAccount, NEW b \in 0..(W - 1)
  PROVE  rebalance(account, b) \in EthAccount /\ rebalance(account, b).balance = b
  <1>1. account.storage_root \in Seq(0..(W - 1))  BY DEF EthAccount
  <1>2. generate_account_storage_root([account EXCEPT !.balance = b])
          = Append(account.storage_root, b)
    BY DEF generate_account_storage_root, EthAccount
  <1>3. Append(account.storage_root, b) \in Seq(0..(W - 1))
    BY <1>1, AppendProperties
  <1>4. QED  BY <1>2, <1>3 DEF rebalance, EthAccount

\* The guest's loop moves the amount from one account to the other, up to a wrap-around
\* at either, touches no other account, and leaves nobody's balance out of u64.
THEOREM TransferConserves ==
  ASSUME NEW A, NEW accts \in [A -> EthAccount],
         NEW from \in A, NEW to \in A, from # to, NEW amount \in 0..(W - 1)
  PROVE  LET t == [from |-> from, to |-> to, amount |-> amount]
             after == transfer(accts, t)
         IN /\ after \in [A -> EthAccount]
            /\ after[from].balance + after[to].balance \in
                 {accts[from].balance + accts[to].balance + w : w \in {-W, 0, W}}
            /\ \A a \in A \ {from, to} : after[a] = accts[a]
  <1> DEFINE t == [from |-> from, to |-> to, amount |-> amount]
  <1> DEFINE mid == debit(accts, t)
  <1> DEFINE after == transfer(accts, t)
  <1> DEFINE x == accts[from].balance
  <1> DEFINE y == accts[to].balance
  <1>0. accts[from] \in EthAccount /\ accts[to] \in EthAccount  OBVIOUS
  <1>1. x \in 0..(W - 1) /\ y \in 0..(W - 1)  BY <1>0 DEF EthAccount
  <1>2. /\ wrapping_sub(x, amount) \in 0..(W - 1)
        /\ wrapping_add(y, amount) \in 0..(W - 1)
    BY <1>1, Wraps
  <1>3. mid = [accts EXCEPT ![from] = rebalance(accts[from], wrapping_sub(x, amount))]
    BY DEF debit
  <1>4. /\ mid \in [A -> EthAccount] /\ mid[from].balance = wrapping_sub(x, amount)
        /\ \A a \in A \ {from} : mid[a] = accts[a]
    <2> DEFINE new == rebalance(accts[from], wrapping_sub(x, amount))
    <2>1. new \in EthAccount /\ new.balance = wrapping_sub(x, amount)
      BY <1>0, <1>2, Rebalanced
    <2>2. mid = [accts EXCEPT ![from] = new]  BY <1>3
    <2> HIDE DEF new, mid, x
    <2>3. QED  BY <2>1, <2>2
  <1>5. after = [mid EXCEPT ![to] = rebalance(mid[to], wrapping_add(mid[to].balance, amount))]
    BY <1>4 DEF transfer, credit
  <1>6. mid[to] = accts[to]  BY <1>4
  <1> HIDE DEF mid, after
  <1>7. /\ after \in [A -> EthAccount]
        /\ after[from].balance = wrapping_sub(x, amount)
        /\ after[to].balance = wrapping_add(y, amount)
        /\ \A a \in A \ {from, to} : after[a] = accts[a]
    <2> DEFINE new == rebalance(mid[to], wrapping_add(mid[to].balance, amount))
    <2>1. new \in EthAccount /\ new.balance = wrapping_add(y, amount)
      BY <1>0, <1>2, <1>6, Rebalanced
    <2>2. after = [mid EXCEPT ![to] = new]  BY <1>5
    <2> HIDE DEF new, x, y
    <2>3. QED  BY <1>4, <2>1, <2>2
  <1>8. wrapping_sub(x, amount) + wrapping_add(y, amount) \in {x + y + w : w \in {-W, 0, W}}
    <2> HIDE DEF x, y
    <2>1. QED  BY <1>1, LedgerAssumption DEF wrapping_sub, wrapping_add
  <1>9. QED  BY <1>7, <1>8 DEF after

-----------------------------------------------------------------------------
(***************************************************************************)
(* Provers that handle the same batches in the same order sign the same.   *)
(***************************************************************************)

\* The root does not depend on the order of the hash map.
LEMMA SortedSame ==
  ASSUME NEW S, NEW o1 \in Orders(S), NEW o2 \in Orders(S)
  PROVE  sorted(o1) = sorted(o2)
  <1>1. Range(o1) = S /\ Range(o2) = S
    BY DEF Orders, Range
  <1>2. QED  BY <1>1 DEF sorted

\* The accounts after k batches.
After(p, k) == IF k = 0 THEN genesis ELSE history[p][k].accounts

\* What a prover may sign for these accounts.
Root(accts) == {generate_account_state_root_hash(accts, sorted(o)) : o \in Orders(DOMAIN accts)}

(***************************************************************************)
(* The inductive invariant: what a prover keeps of every step is the next  *)
(* accounts and their root, and provers that took the same steps have the  *)
(* same accounts after each.                                               *)
(***************************************************************************)
IsSeq(s) == \E S : s \in Seq(S)

\* p and q have handled the same batches, the first k.
Same(p, q, k) == \A i \in 1..k : history[p][i].batch = history[q][i].batch

\* The invariant.
HistoryInv ==
  /\ accounts = [p \in Provers |-> accounts[p]] /\ history = [p \in Provers |-> history[p]]
  /\ IsSeq(batches)
  /\ \A p \in Provers :
       /\ IsSeq(history[p])
       /\ accounts[p] = After(p, Len(history[p]))
       /\ \A k \in 1..Len(history[p]) :
            /\ history[p][k].batch \in DOMAIN batches
            /\ history[p][k].accounts =
                 guest(After(p, k - 1), batches[history[p][k].batch])
            /\ history[p][k].root \in Root(history[p][k].accounts)
  /\ \A p, q \in Provers : \A k \in 0..Len(history[p]) :
       k <= Len(history[q]) /\ Same(p, q, k) => After(p, k) = After(q, k)

\* What appending does to a sequence of anything.
LEMMA Appended ==
  ASSUME NEW s, IsSeq(s), NEW e
  PROVE  /\ IsSeq(Append(s, e))
         /\ Len(s) \in Nat /\ Len(Append(s, e)) = Len(s) + 1
         /\ DOMAIN s = 1..Len(s) /\ DOMAIN Append(s, e) = 1..(Len(s) + 1)
         /\ \A k \in 1..Len(s) : Append(s, e)[k] = s[k]
         /\ Append(s, e)[Len(s) + 1] = e
  <1>1. PICK S : s \in Seq(S)  BY DEF IsSeq
  <1>2. s \in Seq(S \cup {e}) /\ e \in S \cup {e}
    BY <1>1, SeqDef
  <1>3. QED  BY <1>2, AppendProperties, LenProperties DEF IsSeq

\* What prove does to the histories.
LEMMA ProveFields ==
  ASSUME HistoryInv, NEW p \in Provers, NEW b \in DOMAIN batches, prove(p, b)
  PROVE  \E e :
           /\ history' = [history EXCEPT ![p] = Append(history[p], e)]
           /\ accounts' = [accounts EXCEPT ![p] = e.accounts]
           /\ e.batch = b /\ e.accounts = guest(accounts[p], batches[b])
           /\ e.root \in Root(e.accounts)
  <1> DEFINE accts == guest(accounts[p], batches[b])
  <1>1. PICK order \in Orders(DOMAIN accts) :
          /\ accounts' = [accounts EXCEPT ![p] = accts]
          /\ history' = [history EXCEPT ![p] = Append(@,
               [batch |-> b, accounts |-> accts,
                root |-> generate_account_state_root_hash(accts, sorted(order))])]
    BY DEF prove
  <1> DEFINE e == [batch |-> b, accounts |-> accts,
                   root |-> generate_account_state_root_hash(accts, sorted(order))]
  <1>2. e.root \in Root(e.accounts)  BY <1>1 DEF Root
  <1>3. /\ history' = [history EXCEPT ![p] = Append(history[p], e)]
        /\ accounts' = [accounts EXCEPT ![p] = e.accounts]
        /\ e.batch = b /\ e.accounts = guest(accounts[p], batches[b])
    BY <1>1
  <1> HIDE DEF e
  <1>4. QED  BY <1>2, <1>3

\* A prover's step preserves the invariant: after the same steps, the same batch gives the
\* same accounts.
LEMMA ProveKeeps ==
  ASSUME HistoryInv, NEW p \in Provers, NEW b \in DOMAIN batches, prove(p, b),
         UNCHANGED <<genesis, batches>>
  PROVE  HistoryInv'
  <1>0. PICK n \in Nat : n = Len(history[p])
    <2>1. IsSeq(history[p])  BY DEF HistoryInv
    <2>2. QED  BY <2>1, Appended
  <1>1. PICK e :
          /\ history' = [history EXCEPT ![p] = Append(history[p], e)]
          /\ accounts' = [accounts EXCEPT ![p] = e.accounts]
          /\ e.batch = b /\ e.accounts = guest(accounts[p], batches[b])
          /\ e.root \in Root(e.accounts)
    BY ProveFields
  <1>2. /\ accounts' = [q \in Provers |-> accounts'[q]]
        /\ history' = [q \in Provers |-> history'[q]]
        /\ history'[p] = Append(history[p], e) /\ accounts'[p] = e.accounts
        /\ \A q \in Provers \ {p} : history'[q] = history[q] /\ accounts'[q] = accounts[q]
    <2>1. /\ accounts = [q \in Provers |-> accounts[q]]
          /\ history = [q \in Provers |-> history[q]]
      BY DEF HistoryInv
    <2>2. QED  BY <1>1, <2>1
  <1>3. /\ IsSeq(history'[p])
        /\ Len(history'[p]) = n + 1
        /\ \A k \in 1..n : history'[p][k] = history[p][k]
        /\ history'[p][n + 1] = e
    <2>1. IsSeq(history[p])  BY DEF HistoryInv
    <2> DEFINE s == history[p]
    <2> HIDE DEF s
    <2>0. IsSeq(s)  BY <2>1 DEF s
    <2>2. /\ IsSeq(Append(s, e))
          /\ Len(Append(s, e)) = Len(s) + 1
          /\ \A k \in 1..Len(s) : Append(s, e)[k] = s[k]
          /\ Append(s, e)[Len(s) + 1] = e
      BY <2>0, Appended
    <2>3. QED  BY <1>0, <1>2, <2>2 DEF s
  <1>4. /\ \A k \in 0..n : After(p, k)' = After(p, k)
        /\ After(p, n + 1)' = e.accounts
    <2>1. \A k \in 1..n : history'[p][k].accounts = history[p][k].accounts  BY <1>3
    <2>2. history'[p][n + 1].accounts = e.accounts  BY <1>3
    <2>3. \A k \in 0..n : k = 0 \/ k \in 1..n  OBVIOUS
    <2>4. n + 1 # 0  OBVIOUS
    <2>5. QED  BY <2>1, <2>2, <2>3, <2>4 DEF After
  <1>5. \A q \in Provers \ {p} : \A k : After(q, k)' = After(q, k)
    BY <1>2 DEF After
  <1>6. accounts[p] = After(p, n)  BY <1>0 DEF HistoryInv
  <1>7. Root(e.accounts)' = Root(e.accounts) /\ \A x : Root(x)' = Root(x)
    BY DEF Root
  <1>8. ASSUME NEW q \in Provers
        PROVE  /\ IsSeq(history'[q])
               /\ accounts'[q] = After(q, Len(history[q]))'
               /\ \A k \in 1..Len(history'[q]) :
                    /\ history'[q][k].batch \in DOMAIN batches
                    /\ history'[q][k].accounts =
                         guest(After(q, k - 1)', batches[history'[q][k].batch])
                    /\ history'[q][k].root \in Root(history'[q][k].accounts)
    <2>1. CASE q = p
      <3>1. accounts'[p] = After(p, Len(history[p]))'
        BY <1>2, <1>3, <1>4 DEF After
      <3>2. ASSUME NEW k \in 1..n
            PROVE  /\ history'[p][k].batch \in DOMAIN batches
                   /\ history'[p][k].accounts =
                        guest(After(p, k - 1)', batches[history'[p][k].batch])
                   /\ history'[p][k].root \in Root(history'[p][k].accounts)
        <4>1. history'[p][k] = history[p][k] /\ After(p, k - 1)' = After(p, k - 1)
          BY <1>3, <1>4
        <4>2. QED  BY <1>0, <4>1 DEF HistoryInv
      <3>3. /\ history'[p][n + 1].batch \in DOMAIN batches
            /\ history'[p][n + 1].accounts =
                 guest(After(p, n + 1 - 1)', batches[history'[p][n + 1].batch])
            /\ history'[p][n + 1].root \in Root(history'[p][n + 1].accounts)
        <4>1. After(p, n + 1 - 1)' = accounts[p]
          <5>1. n + 1 - 1 = n  BY <1>3
          <5>2. QED  BY <1>3, <1>4, <1>6, <5>1
        <4>2. QED  BY <1>1, <1>3, <4>1
      <3>4. \A k \in 1..(n + 1) : k \in 1..n \/ k = n + 1  BY <1>3
      <3>5. QED  BY <1>3, <2>1, <3>1, <3>2, <3>3, <3>4
    <2>2. CASE q # p
      <3>1. history'[q] = history[q] /\ accounts'[q] = accounts[q]
        BY <1>2, <2>2
      <3>2. \A k : After(q, k)' = After(q, k)  BY <1>5, <2>2
      <3>3. QED  BY <3>1, <3>2 DEF HistoryInv
    <2>3. QED  BY <2>1, <2>2
  <1>9. ASSUME NEW q \in Provers, q # p, NEW k \in 0..(n + 1),
               k <= Len(history[q]), Same(p, q, k)'
        PROVE  After(p, k)' = After(q, k)
    <2>0. history'[q] = history[q]  BY <1>2, <1>9
    <2>1. CASE k \in 0..n
      <3>1. Same(p, q, k)  BY <1>3, <1>9, <2>0, <2>1 DEF Same
      <3>2. After(p, k) = After(q, k)  BY <1>0, <1>9, <2>1, <3>1 DEF HistoryInv
      <3>3. QED  BY <1>4, <2>1, <3>2
    <2>2. CASE k = n + 1
      <3>1. \A i \in 1..n : history[p][i].batch = history[q][i].batch
        <4>1. \A i \in 1..n : i \in 1..k  BY <2>2
        <4>2. \A i \in 1..k : history'[p][i].batch = history'[q][i].batch
          BY <1>9 DEF Same
        <4>3. QED  BY <1>3, <2>0, <4>1, <4>2
      <3>2. history[q][n + 1].batch = b
        BY <1>1, <1>3, <1>9, <2>0, <2>2 DEF Same
      <3>3. n \in 0..Len(history[p]) /\ n <= Len(history[q]) /\ n + 1 \in 1..Len(history[q])
        <4>1. IsSeq(history[q])  BY DEF HistoryInv
        <4>2. Len(history[q]) \in Nat  BY <4>1, Appended
        <4>3. QED  BY <1>0, <1>9, <2>2, <4>2
      <3>4. After(p, n) = After(q, n)  BY <3>1, <3>3 DEF HistoryInv, Same
      <3>5. history[q][n + 1].accounts = guest(After(q, n + 1 - 1), batches[b])
        BY <3>2, <3>3 DEF HistoryInv
      <3>6. n + 1 - 1 = n /\ n + 1 # 0  BY <1>3
      <3>7. After(q, n + 1) = guest(After(q, n), batches[b])
        BY <3>5, <3>6 DEF After
      <3>8. QED  BY <1>1, <1>4, <1>6, <2>2, <3>4, <3>7
    <2>3. QED  BY <1>3, <2>1, <2>2
  <1>10. ASSUME NEW q \in Provers, NEW r \in Provers, NEW k \in 0..Len(history'[q]),
                k <= Len(history'[r]), Same(q, r, k)'
         PROVE  After(q, k)' = After(r, k)'
    <2>1. CASE q = r  BY <2>1
    <2>2. CASE q = p /\ r # p
      BY <1>2, <1>3, <1>5, <1>9, <1>10, <2>2
    <2>3. CASE q # p /\ r = p
      <3>1. Same(p, q, k)'  BY <1>10, <2>3 DEF Same
      <3>2. history'[q] = history[q]  BY <1>2, <2>3
      <3>3. Len(history[q]) \in Nat
        <4>1. IsSeq(history[q])  BY DEF HistoryInv
        <4>2. QED  BY <4>1, Appended
      <3>4. k \in 0..(n + 1) /\ k <= Len(history[q])
        BY <1>3, <1>10, <2>3, <3>2, <3>3
      <3>5. After(p, k)' = After(q, k)  BY <1>9, <2>3, <3>1, <3>4
      <3>6. QED  BY <1>5, <2>3, <3>5
    <2>4. CASE q # p /\ r # p
      <3>1. history'[q] = history[q] /\ history'[r] = history[r]  BY <1>2, <2>4
      <3>2. Same(q, r, k)  BY <1>10, <3>1 DEF Same
      <3>3. After(q, k) = After(r, k)  BY <1>10, <3>1, <3>2 DEF HistoryInv
      <3>4. QED  BY <1>5, <2>4, <3>3
    <2>5. QED  BY <2>1, <2>2, <2>3, <2>4
  <1>11. IsSeq(batches)  BY DEF HistoryInv
  <1>12. QED  BY <1>2, <1>7, <1>8, <1>10, <1>11 DEF HistoryInv


\* A batch more changes nothing of what was handled.
LEMMA BatchKeeps ==
  ASSUME HistoryInv, NEW batch, process_txn(batch)
  PROVE  HistoryInv'
  <1>1. /\ IsSeq(batches')
        /\ \A b \in DOMAIN batches : b \in DOMAIN batches' /\ batches'[b] = batches[b]
    <2>1. batches' = Append(batches, batch) /\ IsSeq(batches)
      BY DEF process_txn, HistoryInv
    <2> DEFINE s == batches
    <2> HIDE DEF s
    <2>0. IsSeq(s)  BY <2>1 DEF s
    <2>2. /\ IsSeq(Append(s, batch)) /\ Len(s) \in Nat
          /\ DOMAIN s = 1..Len(s) /\ DOMAIN Append(s, batch) = 1..(Len(s) + 1)
          /\ \A k \in 1..Len(s) : Append(s, batch)[k] = s[k]
      BY <2>0, Appended
    <2>3. QED  BY <2>1, <2>2 DEF s
  <1>2. genesis' = genesis /\ accounts' = accounts /\ history' = history
    BY DEF process_txn
  <1>3. /\ \A p, k : After(p, k)' = After(p, k)
        /\ \A p, q, k : Same(p, q, k)' = Same(p, q, k)
        /\ \A x : Root(x)' = Root(x)
    BY <1>2 DEF After, Same, Root
  <1>4. QED  BY <1>1, <1>2, <1>3 DEF HistoryInv

\* Every step of the system.
LEMMA HistoryNext == HistoryInv /\ [Next]_vars => HistoryInv'
  <1> SUFFICES ASSUME HistoryInv, [Next]_vars PROVE HistoryInv'  OBVIOUS
  <1>1. CASE send_transaction  BY <1>1, BatchKeeps DEF send_transaction
  <1>2. CASE client  BY <1>2, BatchKeeps DEF client
  <1>3. ASSUME NEW p \in Provers, receive(p)  PROVE HistoryInv'
    BY <1>3, ProveKeeps DEF receive
  <1>4. ASSUME NEW p \in Provers, receive_again(p)  PROVE HistoryInv'
    BY <1>4, ProveKeeps DEF receive_again
  <1>5. CASE UNCHANGED vars
    <2>1. /\ genesis' = genesis /\ accounts' = accounts /\ history' = history
          /\ batches' = batches
      BY <1>5 DEF vars
    <2>2. /\ \A p, k : After(p, k)' = After(p, k)
          /\ \A p, q, k : Same(p, q, k)' = Same(p, q, k)
          /\ \A x : Root(x)' = Root(x)
      BY <2>1 DEF After, Same, Root
    <2>3. QED  BY <2>1, <2>2 DEF HistoryInv
  <1>6. QED  BY <1>1, <1>2, <1>3, <1>4, <1>5 DEF Next

\* Nobody has handled anything at first.
LEMMA HistoryInit == Init => HistoryInv
  <1> SUFFICES ASSUME Init PROVE HistoryInv  OBVIOUS
  <1>1. batches \in Seq({}) /\ \A p \in Provers : history[p] = <<>> /\ history[p] \in Seq({})
    BY EmptySeq DEF Init
  <1>2. \A p \in Provers : Len(history[p]) = 0  BY <1>1, EmptySeq
  <1>3. \A p \in Provers : accounts[p] = genesis  BY DEF Init
  <1>4. \A p \in Provers : After(p, 0) = genesis  BY DEF After
  <1>5. /\ accounts = [p \in Provers |-> accounts[p]]
        /\ history = [p \in Provers |-> history[p]]
    BY DEF Init
  <1>6. \A p, q \in Provers : \A k \in 0..Len(history[p]) : After(p, k) = After(q, k)
    BY <1>2, <1>4
  <1>7. \A p \in Provers : /\ IsSeq(history[p])
                          /\ accounts[p] = After(p, Len(history[p]))
                          /\ 1..Len(history[p]) = {}
    BY <1>1, <1>2, <1>3, <1>4 DEF IsSeq
  <1>8. QED  BY <1>1, <1>5, <1>6, <1>7 DEF HistoryInv, IsSeq

\* The invariant holds in every reachable state.
THEOREM HistoryCorrect == Spec => []HistoryInv
  BY HistoryInit, HistoryNext, PTL DEF Spec

\* Provers that have handled the same batches in the same order sign the same root, for
\* any number of provers, accounts and batches, sent or delivered as often as it may be.
THEOREM SameOrderSameRootCorrect == Spec => []SameOrderSameRoot
  <1>1. HistoryInv => SameOrderSameRoot
    <2> SUFFICES ASSUME HistoryInv,
                        NEW p \in Provers, NEW q \in Provers, NEW k \in 1..Len(history[p]),
                        SameOrder(p, q, k)
                 PROVE  history[p][k].root = history[q][k].root
      BY DEF SameOrderSameRoot
    <2>1. k \in 0..Len(history[p]) /\ k <= Len(history[q]) /\ k \in 1..Len(history[q])
      <3>1. /\ IsSeq(history[p])
            /\ IsSeq(history[q])
        BY DEF HistoryInv
      <3>2. DOMAIN history[q] = 1..Len(history[q]) /\ Len(history[q]) \in Nat
        BY <3>1, Appended
      <3>3. QED  BY <3>2 DEF SameOrder
    <2>2. Same(p, q, k)  BY DEF Same, SameOrder
    <2>3. After(p, k) = After(q, k)  BY <2>1, <2>2 DEF HistoryInv
    <2>4. history[p][k].accounts = history[q][k].accounts  BY <2>1, <2>3 DEF After
    <2>5. /\ history[p][k].root \in Root(history[p][k].accounts)
          /\ history[q][k].root \in Root(history[q][k].accounts)
      BY <2>1 DEF HistoryInv
    <2>6. QED  BY <2>4, <2>5, SortedSame DEF Root
  <1>2. QED  BY <1>1, HistoryCorrect, PTL

-----------------------------------------------------------------------------
(***************************************************************************)
(* Induction and folds.  FoldLeft is recursive, over sets of indices.      *)
(* Induction is here a fact about a set: if it did not hold all numbers,   *)
(* the least that it misses (WFMin) would contradict the induction step.   *)
(***************************************************************************)
\* Every nonempty set of natural numbers has a least element: < is well-founded on them.
LEMMA Least == ASSUME NEW S, S \subseteq Nat, S # {} PROVE \E m \in S : \A k \in S : m <= k
  <1>1. ASSUME NEW R, \A x, y \in Nat : x < y => <<x, y>> \in R
        PROVE  \A x, y \in S : <<y, x>> \in R \/ x <= y
    BY <1>1
  <1>2. \A x, y \in Nat : x < y => <<x, y>> \in OpToRel(<, Nat)  BY DEF OpToRel
  <1>3. PICK x \in S : \A y \in S : <<y, x>> \notin OpToRel(<, Nat)
    BY NatLessThanWellFounded, WFMin
  <1>4. \A u, v \in S : <<v, u>> \in OpToRel(<, Nat) \/ u <= v  BY <1>1, <1>2
  <1>5. QED  BY <1>3, <1>4, Zenon

\* Induction over the natural numbers, as a fact about a set of them.
LEMMA NatInduct ==
  ASSUME NEW S, S \subseteq Nat, 0 \in S, \A n \in S : n + 1 \in S
  PROVE  S = Nat
  <1>1. SUFFICES ASSUME Nat \ S # {} PROVE FALSE
    OBVIOUS
  <1>2. PICK m \in Nat \ S : \A k \in Nat \ S : m <= k
    BY <1>1, Least
  <1>3. m # 0 /\ m - 1 \in Nat /\ m - 1 \in S
    BY <1>2
  <1>4. QED  BY <1>2, <1>3

\* The greatest of some indices is one of them.
LEMMA MaxIn ==
  ASSUME NEW n \in Nat, NEW s \in SUBSET (1..n), s # {}
  PROVE  Max(s) \in s /\ Max(s) \in 1..n
  <1> DEFINE T == {k \in 0..n : n - k \in s}
  <1>1. T \subseteq Nat  OBVIOUS
  <1>2. PICK x \in s : TRUE  OBVIOUS
  <1>3. n - x \in T
    <2>1. x \in 1..n  OBVIOUS
    <2>2. n - x \in 0..n /\ n - (n - x) = x  BY <2>1
    <2>3. QED  BY <1>2, <2>2
  <1>4. PICK m \in T : \A k \in T : m <= k
    <2> HIDE DEF T
    <2>1. QED  BY <1>1, <1>3, Least
  <1>5. ASSUME NEW y \in s PROVE n - m >= y
    <2>1. y \in 1..n /\ m \in 0..n  BY <1>4
    <2>2. n - y \in 0..n /\ n - (n - y) = y  BY <2>1
    <2>3. n - y \in T  BY <1>5, <2>2
    <2>4. m <= n - y  BY <1>4, <2>3
    <2>5. QED  BY <2>1, <2>4
  <1>6. n - m \in s  BY <1>4
  <1>7. \E z \in s : \A y \in s : z >= y  BY <1>5, <1>6
  <1>8. Max(s) \in s  BY <1>7 DEF Max
  <1>9. QED  BY <1>8

\* It is the last, if that is one of them.
LEMMA MaxLast ==
  ASSUME NEW n \in Nat, NEW s \in SUBSET (1..(n + 1)), n + 1 \in s
  PROVE  Max(s) = n + 1
  <1>1. \A y \in s : n + 1 >= y  OBVIOUS
  <1>2. \A z \in s : (\A y \in s : z >= y) => z = n + 1  OBVIOUS
  <1>3. QED  BY <1>1, <1>2 DEF Max

\* it is what FoldLeft computes, of the sets in DD of indices: g is its step.
Folding(it, g, base, DD) ==
  it = [s \in DD |-> IF s = {} THEN base ELSE g[<<it[s \ {Max(s)}], Max(s)>>]]

\* Its values are those.
Folded(it, g, base, DD) ==
  \A s \in DD : it[s] = IF s = {} THEN base ELSE g[<<it[s \ {Max(s)}], Max(s)>>]

\* They are.
LEMMA FoldingAt ==
  ASSUME NEW it, NEW g, NEW base, NEW DD, Folding(it, g, base, DD)
  PROVE  Folded(it, g, base, DD)
  <1> DEFINE h == [s \in DD |-> IF s = {} THEN base ELSE g[<<it[s \ {Max(s)}], Max(s)>>]]
  <1>1. it = h  BY DEF Folding
  <1>2. \A s \in DD : h[s] = IF s = {} THEN base ELSE g[<<it[s \ {Max(s)}], Max(s)>>]
    OBVIOUS
  <1> HIDE DEF h
  <1>3. QED  BY <1>1, <1>2 DEF Folded

\* There is one for k indices.
Foldable(g, base, A, k) ==
  \E it \in [SUBSET (1..k) -> A] : Folding(it, g, base, SUBSET (1..k))

\* If there is one for k indices, it can be continued.
LEMMA FoldingStep ==
  ASSUME NEW n \in Nat, NEW A, NEW base \in A, NEW g \in [A \X (1..n) -> A],
         NEW k \in Nat, k + 1 <= n, Foldable(g, base, A, k)
  PROVE  Foldable(g, base, A, k + 1)
  <1> DEFINE X == SUBSET (1..k)
             Y == SUBSET (1..(k + 1))
  <1>1. PICK it \in [X -> A] : Folding(it, g, base, X)  BY DEF Foldable
  <1> DEFINE new(s) == IF s = {} THEN base ELSE g[<<it[s \ {Max(s)}], Max(s)>>]
             h == [s \in Y |-> new(s)]
  <1>2. \A s \in X : it[s] = new(s)
    <2> HIDE DEF X
    <2>1. Folded(it, g, base, X)  BY <1>1, FoldingAt
    <2>2. QED  BY <2>1 DEF Folded
  <1>3. ASSUME NEW s \in Y, s # {}
        PROVE  s \ {Max(s)} \in X /\ Max(s) \in 1..n
    <2>1. Max(s) \in 1..(k + 1)  BY <1>3, MaxIn
    <2>2. CASE k + 1 \in s
      <3>1. Max(s) = k + 1  BY <2>2, MaxLast
      <3>2. QED  BY <3>1
    <2>3. CASE k + 1 \notin s
      <3>1. s \in X  BY <2>3
      <3>2. Max(s) \in 1..n  BY <2>1
      <3>3. QED  BY <3>1, <3>2
    <2>4. QED  BY <2>2, <2>3
  <1>4. \A s \in Y : new(s) \in A
    <2> TAKE s \in Y
    <2>1. CASE s = {}  BY <2>1
    <2>2. CASE s # {}
      <3>1. it[s \ {Max(s)}] \in A /\ Max(s) \in 1..n  BY <1>1, <1>3, <2>2
      <3>2. g[<<it[s \ {Max(s)}], Max(s)>>] \in A  BY <3>1
      <3>3. QED  BY <2>2, <3>2
    <2>3. QED  BY <2>1, <2>2
  <1>5. X \subseteq Y  OBVIOUS
  <1>6. h \in [Y -> A] /\ (\A s \in Y : h[s] = new(s)) /\ h = [s \in Y |-> h[s]]  BY <1>4
  <1> HIDE DEF h, X, Y
  <1>7. \A s \in X : h[s] = it[s]  BY <1>2, <1>5, <1>6
  <1>8. \A s \in Y : h[s] = IF s = {} THEN base ELSE g[<<h[s \ {Max(s)}], Max(s)>>]
    BY <1>3, <1>6, <1>7
  <1> HIDE DEF new
  <1>9. Folding(h, g, base, Y)  BY <1>6, <1>8 DEF Folding
  <1>10. QED  BY <1>6, <1>9 DEF Foldable, Y

\* There is one, whatever the step.
LEMMA FoldingExists ==
  ASSUME NEW n \in Nat, NEW A, NEW base \in A, NEW g \in [A \X (1..n) -> A]
  PROVE  Foldable(g, base, A, n)
  <1> DEFINE P == {k \in Nat : k <= n => Foldable(g, base, A, k)}
  <1>1. 0 \in P
    <2> DEFINE X == SUBSET (1..0)
               it == [s \in X |-> base]
    <2>1. \A s \in X : s = {}  OBVIOUS
    <2>2. Folding(it, g, base, X) /\ it \in [X -> A]  BY <2>1 DEF Folding
    <2> HIDE DEF it
    <2>3. QED  BY <2>2 DEF Foldable
  <1>2. ASSUME NEW k \in P PROVE k + 1 \in P
    <2>1. k \in Nat /\ (k <= n => Foldable(g, base, A, k))  OBVIOUS
    <2>2. k + 1 <= n => Foldable(g, base, A, k + 1)  BY <2>1, FoldingStep
    <2>3. QED  BY <2>1, <2>2
  <1>3. P = Nat
    <2>1. P \subseteq Nat  OBVIOUS
    <2> HIDE DEF P
    <2>2. QED  BY <1>1, <1>2, <2>1, NatInduct
  <1>4. n \in P  BY <1>3
  <1>5. QED  BY <1>4

\* The first k indices.
LEMMA FirstIndices ==
  ASSUME NEW n \in Nat, NEW k \in 1..n
  PROVE  /\ 1..k \in SUBSET (1..n) /\ 1..k # {}
         /\ Max(1..k) = k /\ (1..k) \ {k} = 1..(k - 1)
  <1> DEFINE s == 1..k
  <1>1. s \in SUBSET (1..n) /\ s # {}  OBVIOUS
  <1>2. k - 1 \in Nat /\ (k - 1) + 1 = k /\ k \in s  OBVIOUS
  <1>3. Max(s) = k
    <2>1. PICK j \in Nat : j = k - 1  BY <1>2
    <2>2. j + 1 \in s /\ s \in SUBSET (1..(j + 1)) /\ j + 1 = k  BY <1>2, <2>1
    <2> HIDE DEF s
    <2>3. QED  BY <2>2, MaxLast
  <1>4. s \ {k} = 1..(k - 1)  OBVIOUS
  <1>5. QED  BY <1>1, <1>3, <1>4

-----------------------------------------------------------------------------
(***************************************************************************)
(* What one transaction does to the balance of an account.                 *)
(***************************************************************************)
\* What a balance may be.
Word == 0..(W - 1)

\* The remainder of a number.
LEMMA ModW ==
  ASSUME NEW x \in Int
  PROVE  x % W \in Word /\ (x \div W) \in Int /\ x = W * (x \div W) + (x % W)
  BY LedgerAssumption DEF Word

\* There is one only.
LEMMA ModWUnique ==
  ASSUME NEW x \in Int, NEW k \in Int, NEW r \in Word, x = W * k + r
  PROVE  x % W = r
  BY LedgerAssumption DEF Word

\* What is added may be reduced before.
LEMMA ModWPlus ==
  ASSUME NEW x \in Int, NEW y \in Int
  PROVE  ((x % W) + y) % W = (x + y) % W
  <1> DEFINE q == x \div W
             r == x % W
             p == (r + y) \div W
             z == (r + y) % W
  <1>1. q \in Int /\ r \in Int /\ r \in Word /\ x = W * q + r  BY ModW DEF Word
  <1> HIDE DEF q, r
  <1>2. p \in Int /\ z \in Int /\ z \in Word /\ r + y = W * p + z  BY <1>1, ModW DEF Word
  <1> HIDE DEF p, z
  <1>3. x + y = W * (q + p) + z  BY <1>1, <1>2, LedgerAssumption
  <1>4. (x + y) % W = z  BY <1>1, <1>2, <1>3, ModWUnique
  <1>5. QED  BY <1>4 DEF z, r

\* u64 arithmetic is arithmetic modulo W.
LEMMA WrappingIs ==
  ASSUME NEW x \in Word, NEW y \in Word
  PROVE  /\ wrapping_sub(x, y) = (x - y) % W /\ wrapping_add(x, y) = (x + y) % W
         /\ wrapping_sub(x, y) \in Word /\ wrapping_add(x, y) \in Word /\ x % W = x
  <1>1. W \in Nat \ {0} /\ x \in Int /\ y \in Int  BY LedgerAssumption DEF Word
  <1>2. x % W = x
    <2>1. x = W * 0 + x  BY <1>1
    <2>2. QED  BY <1>1, <2>1, ModWUnique
  <1>3. wrapping_sub(x, y) = (x - y) % W /\ wrapping_sub(x, y) \in Word
    <2> DEFINE r == wrapping_sub(x, y)
               z == x - y
    <2>1. \E k \in Int : r \in Word /\ z = W * k + r
      <3>1. CASE x >= y
        <4>1. r = z /\ r \in Word  BY <1>1, <3>1 DEF wrapping_sub, Word
        <4>2. z = W * 0 + r  BY <1>1, <4>1
        <4>3. QED  BY <4>1, <4>2
      <3>2. CASE ~(x >= y)
        <4>1. r = z + W /\ r \in Word  BY <1>1, <3>2 DEF wrapping_sub, Word
        <4>2. z = W * (-1) + r  BY <1>1, <4>1
        <4>3. QED  BY <4>1, <4>2
      <3>3. QED  BY <3>1, <3>2
    <2>2. z \in Int  BY <1>1
    <2> HIDE DEF r, z
    <2>3. z % W = r /\ r \in Word  BY <2>1, <2>2, ModWUnique
    <2>4. QED  BY <2>3 DEF r, z
  <1>4. wrapping_add(x, y) = (x + y) % W /\ wrapping_add(x, y) \in Word
    <2> DEFINE r == wrapping_add(x, y)
               z == x + y
    <2>1. \E k \in Int : r \in Word /\ z = W * k + r
      <3>1. CASE x + y < W
        <4>1. r = z /\ r \in Word  BY <1>1, <3>1 DEF wrapping_add, Word
        <4>2. z = W * 0 + r  BY <1>1, <4>1
        <4>3. QED  BY <4>1, <4>2
      <3>2. CASE ~(x + y < W)
        <4>1. r = z - W /\ r \in Word  BY <1>1, <3>2 DEF wrapping_add, Word
        <4>2. z = W * 1 + r  BY <1>1, <4>1
        <4>3. QED  BY <4>1, <4>2
      <3>3. QED  BY <3>1, <3>2
    <2>2. z \in Int  BY <1>1
    <2> HIDE DEF r, z
    <2>3. z % W = r /\ r \in Word  BY <2>1, <2>2, ModWUnique
    <2>4. QED  BY <2>3 DEF r, z
  <1>5. QED  BY <1>2, <1>3, <1>4

\* What a transaction adds to what a has.
Gain(t, a) == (IF t.to = a THEN t.amount ELSE 0) - (IF t.from = a THEN t.amount ELSE 0)

\* Account y is account x with k more.
Gained(x, y, k) == y \in EthAccount /\ y.balance = (x.balance + k) % W

\* An account from which an amount is taken, or to which one is added.
LEMMA RebalancedBy ==
  ASSUME NEW x \in EthAccount, NEW m \in Word
  PROVE  /\ Gained(x, rebalance(x, wrapping_sub(x.balance, m)), -m)
         /\ Gained(x, rebalance(x, wrapping_add(x.balance, m)), m)
         /\ Gained(x, x, 0)
  <1>1. x.balance \in Word /\ x.balance \in Int /\ m \in Int  BY DEF EthAccount, Word
  <1>2. /\ wrapping_sub(x.balance, m) = (x.balance - m) % W
        /\ wrapping_add(x.balance, m) = (x.balance + m) % W
        /\ wrapping_sub(x.balance, m) \in Word /\ wrapping_add(x.balance, m) \in Word
        /\ x.balance % W = x.balance
    BY <1>1, WrappingIs
  <1>3. x.balance - m = x.balance + (-m) /\ x.balance + 0 = x.balance  BY <1>1
  <1>4. \A b \in Word : rebalance(x, b) \in EthAccount /\ rebalance(x, b).balance = b
    BY Rebalanced DEF Word
  <1>5. QED  BY <1>2, <1>3, <1>4 DEF Gained

\* Of what is gained twice.
LEMMA GainedTwice ==
  ASSUME NEW x \in EthAccount, NEW y, NEW z, NEW j \in Int, NEW k \in Int,
         Gained(x, y, j), Gained(y, z, k)
  PROVE  Gained(x, z, j + k)
  <1> DEFINE b == x.balance + j
  <1>1. x.balance \in Int  BY DEF EthAccount
  <1>2. b \in Int /\ b + k = x.balance + (j + k)  BY <1>1
  <1> HIDE DEF b
  <1>3. y.balance = b % W  BY DEF Gained, b
  <1>4. ((b % W) + k) % W = (b + k) % W  BY <1>2, ModWPlus
  <1>5. QED  BY <1>2, <1>3, <1>4 DEF Gained

\* A transaction adds to every account what it gains by it.
LEMMA TransferGains ==
  ASSUME NEW N, NEW accts \in [N -> EthAccount], NEW t, t.amount \in Word
  PROVE  /\ transfer(accts, t) \in [N -> EthAccount]
         /\ \A a \in N : Gained(accts[a], transfer(accts, t)[a], Gain(t, a))
  <1> DEFINE mid == debit(accts, t)
             m == t.amount
             end == credit(mid, t)
  <1>1. /\ mid \in [N -> EthAccount]
        /\ \A a \in N : Gained(accts[a], mid[a], IF t.from = a THEN -m ELSE 0)
    <2>1. CASE t.from \in N
      <3> DEFINE new == rebalance(accts[t.from], wrapping_sub(accts[t.from].balance, m))
      <3>1. mid = [accts EXCEPT ![t.from] = new]  BY <2>1 DEF debit
      <3>2. Gained(accts[t.from], new, -m)  BY <2>1, RebalancedBy
      <3>3. \A a \in N : Gained(accts[a], accts[a], 0)  BY RebalancedBy
      <3> HIDE DEF new, mid, m
      <3>4. new \in EthAccount  BY <3>2 DEF Gained
      <3>5. mid \in [N -> EthAccount] /\ mid[t.from] = new
            /\ \A a \in N : a # t.from => mid[a] = accts[a]
        BY <2>1, <3>1, <3>4
      <3>6. QED  BY <3>2, <3>3, <3>5
    <2>2. CASE t.from \notin N
      <3>1. mid = accts  BY <2>2 DEF debit
      <3>2. \A a \in N : Gained(accts[a], accts[a], 0) /\ t.from # a  BY <2>2, RebalancedBy
      <3> HIDE DEF mid
      <3>3. QED  BY <3>1, <3>2
    <2>3. QED  BY <2>1, <2>2
  <1>2. transfer(accts, t) = end  BY DEF transfer
  <1> HIDE DEF mid
  <1>3. /\ end \in [N -> EthAccount]
        /\ \A a \in N : Gained(mid[a], end[a], IF t.to = a THEN m ELSE 0)
    <2>1. CASE t.to \in N
      <3> DEFINE new == rebalance(mid[t.to], wrapping_add(mid[t.to].balance, m))
      <3>1. end = [mid EXCEPT ![t.to] = new]  BY <1>1, <2>1 DEF credit
      <3>2. Gained(mid[t.to], new, m)  BY <1>1, <2>1, RebalancedBy
      <3>3. \A a \in N : Gained(mid[a], mid[a], 0)  BY <1>1, RebalancedBy
      <3> HIDE DEF new, end, m
      <3>4. new \in EthAccount  BY <3>2 DEF Gained
      <3>5. end \in [N -> EthAccount] /\ end[t.to] = new
            /\ \A a \in N : a # t.to => end[a] = mid[a]
        BY <1>1, <2>1, <3>1, <3>4
      <3>6. QED  BY <3>2, <3>3, <3>5
    <2>2. CASE t.to \notin N
      <3>1. end = mid  BY <1>1, <2>2 DEF credit
      <3>2. \A a \in N : Gained(mid[a], mid[a], 0) /\ t.to # a  BY <1>1, <2>2, RebalancedBy
      <3> HIDE DEF end
      <3>3. QED  BY <1>1, <3>1, <3>2
    <2>3. QED  BY <2>1, <2>2
  <1> HIDE DEF end
  <1>4. ASSUME NEW a \in N PROVE Gained(accts[a], end[a], Gain(t, a))
    <2> DEFINE j == IF t.from = a THEN -m ELSE 0
               k == IF t.to = a THEN m ELSE 0
    <2>1. m \in Int  BY DEF Word
    <2>2. j \in Int /\ k \in Int /\ j + k = Gain(t, a)  BY <2>1 DEF Gain
    <2>3. Gained(accts[a], mid[a], j) /\ Gained(mid[a], end[a], k)  BY <1>1, <1>3
    <2> HIDE DEF j, k
    <2>4. accts[a] \in EthAccount  OBVIOUS
    <2>5. Gained(accts[a], end[a], j + k)  BY <2>2, <2>3, <2>4, GainedTwice
    <2>6. QED  BY <2>2, <2>5
  <1>5. QED  BY <1>2, <1>3, <1>4

-----------------------------------------------------------------------------
(***************************************************************************)
(* What a batch does to the balance of an account, and what many do.       *)
(***************************************************************************)
\* What may come from anybody.
AnyTransaction == Transaction(Known \cup Unknown)

\* v is what the guest's loop has come to after every transaction.
GuestStages(v, accts, batch) ==
  /\ v[0] = accts
  /\ \A k \in 1..Len(batch) : v[k] = transfer(v[k - 1], batch[k])
  /\ v[Len(batch)] = guest(accts, batch)

\* v is what is moved to a by every transaction and those before.
MovedStages(v, batch, a) ==
  /\ v[0] = 0
  /\ \A k \in 1..Len(batch) : v[k] = v[k - 1] + (IF batch[k].to = a THEN batch[k].amount ELSE 0)
                                    - (IF batch[k].from = a THEN batch[k].amount ELSE 0)
  /\ v[Len(batch)] = Moved(batch, a)

\* Of a sequence of transactions.
LEMMA BatchIs ==
  ASSUME NEW batch \in Seq(AnyTransaction)
  PROVE  /\ Len(batch) \in Nat /\ DOMAIN batch = 1..Len(batch)
         /\ \A k \in 1..Len(batch) : batch[k].amount \in Word
  <1>1. Len(batch) \in Nat /\ DOMAIN batch = 1..Len(batch)  OBVIOUS
  <1>2. \A k \in 1..Len(batch) : batch[k] \in AnyTransaction  OBVIOUS
  <1>3. QED  BY <1>1, <1>2, LedgerAssumption DEF AnyTransaction, Transaction, Word

\* The guest's loop.
LEMMA GuestSteps ==
  ASSUME NEW N, NEW accts \in [N -> EthAccount], NEW batch \in Seq(AnyTransaction)
  PROVE  \E v : GuestStages(v, accts, batch)
  <1> DEFINE n == Len(batch)
             A == [N -> EthAccount]
             F(it) == it = [s \in SUBSET DOMAIN batch |-> IF s = {} THEN accts
                           ELSE LET x == Max(s) IN transfer(it[s \ {x}], batch[x])]
             g == [p \in A \X (1..n) |-> transfer(p[1], batch[p[2]])]
  <1>1. n \in Nat /\ DOMAIN batch = 1..n  BY BatchIs
  <1>2. \A acc \in A, k \in 1..n : transfer(acc, batch[k]) \in A
    BY BatchIs, TransferGains
  <1>3. g \in [A \X (1..n) -> A]
        /\ \A acc \in A, k \in 1..n : g[<<acc, k>>] = transfer(acc, batch[k])
    <2> HIDE DEF A, n
    <2>1. \A p \in A \X (1..n) : p[1] \in A /\ p[2] \in 1..n  OBVIOUS
    <2>2. \A acc \in A, k \in 1..n : <<acc, k>> \in A \X (1..n)  OBVIOUS
    <2>3. QED  BY <1>2, <2>1, <2>2
  <1>4. PICK jt \in [SUBSET (1..n) -> A] : Folding(jt, g, accts, SUBSET (1..n))
    <2> HIDE DEF A, n, g
    <2>1. accts \in A  BY DEF A
    <2>2. QED  BY <1>1, <1>3, <2>1, FoldingExists DEF Foldable
  <1>5. F(jt)
    <2> HIDE DEF A, n, g
    <2>1. Folded(jt, g, accts, SUBSET (1..n))  BY <1>4, FoldingAt
    <2>2. ASSUME NEW s \in SUBSET (1..n), s # {}
          PROVE  g[<<jt[s \ {Max(s)}], Max(s)>>] = transfer(jt[s \ {Max(s)}], batch[Max(s)])
      <3>1. Max(s) \in 1..n  BY <1>1, <2>2, MaxIn
      <3>2. jt[s \ {Max(s)}] \in A  BY <1>4
      <3>3. QED  BY <1>3, <3>1, <3>2
    <2>3. \A s \in SUBSET (1..n) : jt[s] =
            IF s = {} THEN accts ELSE transfer(jt[s \ {Max(s)}], batch[Max(s)])
      BY <2>1, <2>2 DEF Folded
    <2>4. jt = [s \in SUBSET (1..n) |-> jt[s]]  BY <1>4
    <2>5. QED  BY <1>1, <2>3, <2>4
  <1> DEFINE it == CHOOSE it : F(it)
  <1>6. guest(accts, batch) = it[DOMAIN batch]
    BY DEF guest, FoldLeft, MapThenFoldSet
  <1>7. F(it)
    <2> HIDE DEF F
    <2>1. QED  BY <1>5
  <1> HIDE DEF it
  <1>8. \A s \in SUBSET (1..n) :
          it[s] = IF s = {} THEN accts ELSE transfer(it[s \ {Max(s)}], batch[Max(s)])
    <2> DEFINE f == [s \in SUBSET (1..n) |-> IF s = {} THEN accts
                      ELSE transfer(it[s \ {Max(s)}], batch[Max(s)])]
    <2>1. it = f  BY <1>1, <1>7
    <2>2. \A s \in SUBSET (1..n) : f[s] = IF s = {} THEN accts
                      ELSE transfer(it[s \ {Max(s)}], batch[Max(s)])
      OBVIOUS
    <2> HIDE DEF f
    <2>3. QED  BY <2>1, <2>2
  <1> HIDE DEF F, g, A
  <1> DEFINE v == [k \in 0..n |-> it[1..k]]
  <1>9. v[0] = accts
    <2>1. 1..0 = {} /\ 0 \in 0..n  BY <1>1
    <2>2. QED  BY <1>8, <2>1
  <1>10. ASSUME NEW k \in 1..n PROVE v[k] = transfer(v[k - 1], batch[k])
    <2> HIDE DEF n
    <2>1. /\ 1..k \in SUBSET (1..n) /\ 1..k # {}
          /\ Max(1..k) = k /\ (1..k) \ {k} = 1..(k - 1)
      BY <1>1, FirstIndices
    <2>2. it[1..k] = transfer(it[1..(k - 1)], batch[k])  BY <1>8, <2>1
    <2>3. k \in 0..n /\ k - 1 \in 0..n  BY <1>1
    <2>4. QED  BY <2>2, <2>3
  <1>11. v[n] = guest(accts, batch)
    <2>1. n \in 0..n  BY <1>1
    <2>2. QED  BY <1>1, <1>6, <2>1
  <1> HIDE DEF v
  <1>12. QED  BY <1>9, <1>10, <1>11 DEF GuestStages

\* What is moved to an address.
LEMMA MovedSteps ==
  ASSUME NEW batch \in Seq(AnyTransaction), NEW a
  PROVE  \E v : MovedStages(v, batch, a)
  <1> DEFINE n == Len(batch)
             plus(sum, t) == sum + (IF t.to = a THEN t.amount ELSE 0)
                               - (IF t.from = a THEN t.amount ELSE 0)
             F(it) == it = [s \in SUBSET DOMAIN batch |-> IF s = {} THEN 0
                           ELSE LET x == Max(s) IN plus(it[s \ {x}], batch[x])]
             g == [p \in Int \X (1..n) |-> plus(p[1], batch[p[2]])]
  <1>1. n \in Nat /\ DOMAIN batch = 1..n  BY BatchIs
  <1>2. \A acc \in Int, k \in 1..n : plus(acc, batch[k]) \in Int
    <2> HIDE DEF n
    <2>1. ASSUME NEW acc \in Int, NEW k \in 1..n PROVE plus(acc, batch[k]) \in Int
      <3>1. batch[k].amount \in Int  BY BatchIs DEF Word, n
      <3>2. QED  BY <3>1
    <2>2. QED  BY <2>1
  <1>3. g \in [Int \X (1..n) -> Int]
        /\ \A acc \in Int, k \in 1..n : g[<<acc, k>>] = plus(acc, batch[k])
    <2> HIDE DEF n, plus
    <2>1. \A p \in Int \X (1..n) : p[1] \in Int /\ p[2] \in 1..n  OBVIOUS
    <2>2. \A acc \in Int, k \in 1..n : <<acc, k>> \in Int \X (1..n)  OBVIOUS
    <2>3. QED  BY <1>2, <2>1, <2>2
  <1>4. PICK jt \in [SUBSET (1..n) -> Int] : Folding(jt, g, 0, SUBSET (1..n))
    <2> HIDE DEF n, g, plus
    <2>1. 0 \in Int  OBVIOUS
    <2>2. QED  BY <1>1, <1>3, <2>1, FoldingExists DEF Foldable
  <1>5. F(jt)
    <2> HIDE DEF n, g, plus
    <2>1. Folded(jt, g, 0, SUBSET (1..n))  BY <1>4, FoldingAt
    <2>2. ASSUME NEW s \in SUBSET (1..n), s # {}
          PROVE  g[<<jt[s \ {Max(s)}], Max(s)>>] = plus(jt[s \ {Max(s)}], batch[Max(s)])
      <3>1. Max(s) \in 1..n  BY <1>1, <2>2, MaxIn
      <3>2. jt[s \ {Max(s)}] \in Int  BY <1>4
      <3>3. QED  BY <1>3, <3>1, <3>2
    <2>3. \A s \in SUBSET (1..n) : jt[s] =
            IF s = {} THEN 0 ELSE plus(jt[s \ {Max(s)}], batch[Max(s)])
      BY <2>1, <2>2 DEF Folded
    <2>4. jt = [s \in SUBSET (1..n) |-> jt[s]]  BY <1>4
    <2>5. QED  BY <1>1, <2>3, <2>4
  <1> DEFINE it == CHOOSE it : F(it)
  <1>6. Moved(batch, a) = it[DOMAIN batch]
    BY DEF Moved, FoldLeft, MapThenFoldSet
  <1>7. F(it)
    <2> HIDE DEF F
    <2>1. QED  BY <1>5
  <1> HIDE DEF it
  <1>8. \A s \in SUBSET (1..n) :
          it[s] = IF s = {} THEN 0 ELSE plus(it[s \ {Max(s)}], batch[Max(s)])
    <2> DEFINE f == [s \in SUBSET (1..n) |-> IF s = {} THEN 0
                      ELSE plus(it[s \ {Max(s)}], batch[Max(s)])]
    <2>1. it = f  BY <1>1, <1>7
    <2>2. \A s \in SUBSET (1..n) : f[s] = IF s = {} THEN 0
                      ELSE plus(it[s \ {Max(s)}], batch[Max(s)])
      OBVIOUS
    <2> HIDE DEF f, plus
    <2>3. QED  BY <2>1, <2>2
  <1> HIDE DEF F, g, plus
  <1> DEFINE v == [k \in 0..n |-> it[1..k]]
  <1>9. v[0] = 0
    <2>1. 1..0 = {} /\ 0 \in 0..n  BY <1>1
    <2>2. QED  BY <1>8, <2>1
  <1>10. ASSUME NEW k \in 1..n PROVE v[k] = plus(v[k - 1], batch[k])
    <2> HIDE DEF n
    <2>1. /\ 1..k \in SUBSET (1..n) /\ 1..k # {}
          /\ Max(1..k) = k /\ (1..k) \ {k} = 1..(k - 1)
      BY <1>1, FirstIndices
    <2>2. it[1..k] = plus(it[1..(k - 1)], batch[k])  BY <1>8, <2>1
    <2>3. k \in 0..n /\ k - 1 \in 0..n  BY <1>1
    <2>4. QED  BY <2>2, <2>3
  <1>11. v[n] = Moved(batch, a)
    <2>1. n \in 0..n  BY <1>1
    <2>2. QED  BY <1>1, <1>6, <2>1
  <1> HIDE DEF v
  <1>12. QED  BY <1>9, <1>10, <1>11 DEF MovedStages, plus

\* What an account should have, before it wraps around.
Net(h, b, a) == FoldLeft(LAMBDA sum, x : sum + Moved(batches[x.batch], a), b, h)

\* v is what it should have had after every batch.
NetStages(v, h, b, a) ==
  /\ v[0] = b
  /\ \A k \in 1..Len(h) : v[k] = v[k - 1] + Moved(batches[h[k].batch], a)
  /\ v[Len(h)] = Net(h, b, a)

\* What an account started with and what the batches of a history moved to it.
LEMMA NetSteps ==
  ASSUME NEW h, IsSeq(h), NEW a, NEW b \in Int,
         \A k \in 1..Len(h) : Moved(batches[h[k].batch], a) \in Int
  PROVE  \E v : NetStages(v, h, b, a)
  <1> DEFINE n == Len(h)
             plus(sum, x) == sum + Moved(batches[x.batch], a)
             F(it) == it = [s \in SUBSET DOMAIN h |-> IF s = {} THEN b
                           ELSE LET x == Max(s) IN plus(it[s \ {x}], h[x])]
             g == [p \in Int \X (1..n) |-> plus(p[1], h[p[2]])]
  <1>1. n \in Nat /\ DOMAIN h = 1..n  BY Appended
  <1>2. \A acc \in Int, k \in 1..n : plus(acc, h[k]) \in Int
    <2> HIDE DEF n
    <2>1. ASSUME NEW acc \in Int, NEW k \in 1..n PROVE plus(acc, h[k]) \in Int
      <3>1. Moved(batches[h[k].batch], a) \in Int  BY DEF n
      <3>2. QED  BY <3>1
    <2>2. QED  BY <2>1
  <1>3. g \in [Int \X (1..n) -> Int]
        /\ \A acc \in Int, k \in 1..n : g[<<acc, k>>] = plus(acc, h[k])
    <2> HIDE DEF n, plus
    <2>1. \A p \in Int \X (1..n) : p[1] \in Int /\ p[2] \in 1..n  OBVIOUS
    <2>2. \A acc \in Int, k \in 1..n : <<acc, k>> \in Int \X (1..n)  OBVIOUS
    <2>3. QED  BY <1>2, <2>1, <2>2
  <1>4. PICK jt \in [SUBSET (1..n) -> Int] : Folding(jt, g, b, SUBSET (1..n))
    <2> HIDE DEF n, g, plus
    <2>1. b \in Int  OBVIOUS
    <2>2. QED  BY <1>1, <1>3, <2>1, FoldingExists DEF Foldable
  <1>5. F(jt)
    <2> HIDE DEF n, g, plus
    <2>1. Folded(jt, g, b, SUBSET (1..n))  BY <1>4, FoldingAt
    <2>2. ASSUME NEW s \in SUBSET (1..n), s # {}
          PROVE  g[<<jt[s \ {Max(s)}], Max(s)>>] = plus(jt[s \ {Max(s)}], h[Max(s)])
      <3>1. Max(s) \in 1..n  BY <1>1, <2>2, MaxIn
      <3>2. jt[s \ {Max(s)}] \in Int  BY <1>4
      <3>3. QED  BY <1>3, <3>1, <3>2
    <2>3. \A s \in SUBSET (1..n) : jt[s] =
            IF s = {} THEN b ELSE plus(jt[s \ {Max(s)}], h[Max(s)])
      BY <2>1, <2>2 DEF Folded
    <2>4. jt = [s \in SUBSET (1..n) |-> jt[s]]  BY <1>4
    <2>5. QED  BY <1>1, <2>3, <2>4
  <1> DEFINE it == CHOOSE it : F(it)
  <1>6. Net(h, b, a) = it[DOMAIN h]
    BY DEF Net, FoldLeft, MapThenFoldSet
  <1>7. F(it)
    <2> HIDE DEF F
    <2>1. QED  BY <1>5
  <1> HIDE DEF it
  <1>8. \A s \in SUBSET (1..n) :
          it[s] = IF s = {} THEN b ELSE plus(it[s \ {Max(s)}], h[Max(s)])
    <2> DEFINE f == [s \in SUBSET (1..n) |-> IF s = {} THEN b
                      ELSE plus(it[s \ {Max(s)}], h[Max(s)])]
    <2>1. it = f  BY <1>1, <1>7
    <2>2. \A s \in SUBSET (1..n) : f[s] = IF s = {} THEN b
                      ELSE plus(it[s \ {Max(s)}], h[Max(s)])
      OBVIOUS
    <2> HIDE DEF f, plus
    <2>3. QED  BY <2>1, <2>2
  <1> HIDE DEF F, g, plus
  <1> DEFINE v == [k \in 0..n |-> it[1..k]]
  <1>9. v[0] = b
    <2>1. 1..0 = {} /\ 0 \in 0..n  BY <1>1
    <2>2. QED  BY <1>8, <2>1
  <1>10. ASSUME NEW k \in 1..n PROVE v[k] = plus(v[k - 1], h[k])
    <2> HIDE DEF n
    <2>1. /\ 1..k \in SUBSET (1..n) /\ 1..k # {}
          /\ Max(1..k) = k /\ (1..k) \ {k} = 1..(k - 1)
      BY <1>1, FirstIndices
    <2>2. it[1..k] = plus(it[1..(k - 1)], h[k])  BY <1>8, <2>1
    <2>3. k \in 0..n /\ k - 1 \in 0..n  BY <1>1
    <2>4. QED  BY <2>2, <2>3
  <1>11. v[n] = Net(h, b, a)
    <2>1. n \in 0..n  BY <1>1
    <2>2. QED  BY <1>1, <1>6, <2>1
  <1> HIDE DEF v
  <1>12. QED  BY <1>9, <1>10, <1>11 DEF NetStages, plus

\* The guest adds to every account what the batch moves to it.
THEOREM GuestGains ==
  ASSUME NEW N, NEW accts \in [N -> EthAccount], NEW batch \in Seq(AnyTransaction)
  PROVE  /\ guest(accts, batch) \in [N -> EthAccount]
         /\ \A a \in N : /\ Moved(batch, a) \in Int
                         /\ Gained(accts[a], guest(accts, batch)[a], Moved(batch, a))
  <1> DEFINE n == Len(batch)
  <1>1. n \in Nat /\ \A k \in 1..n : batch[k].amount \in Word  BY BatchIs
  <1>2. PICK v : GuestStages(v, accts, batch)  BY GuestSteps
  <1> DEFINE P == {k \in Nat : k <= n => v[k] \in [N -> EthAccount]}
  <1>3. P = Nat
    <2>1. 0 \in P  BY <1>2 DEF GuestStages
    <2>2. ASSUME NEW k \in P PROVE k + 1 \in P
      <3>1. k \in Nat /\ (k <= n => v[k] \in [N -> EthAccount])  OBVIOUS
      <3>2. ASSUME k + 1 <= n PROVE v[k + 1] \in [N -> EthAccount]
        <4>1. k + 1 \in 1..n /\ (k + 1) - 1 = k /\ v[k] \in [N -> EthAccount]
          BY <1>1, <3>1, <3>2
        <4>2. v[k + 1] = transfer(v[k], batch[k + 1])  BY <1>2, <4>1 DEF GuestStages
        <4>3. batch[k + 1].amount \in Word  BY <1>1, <4>1
        <4>4. QED  BY <4>1, <4>2, <4>3, TransferGains
      <3>3. QED  BY <3>1, <3>2
    <2>3. P \subseteq Nat  OBVIOUS
    <2> HIDE DEF P
    <2>4. QED  BY <2>1, <2>2, <2>3, NatInduct
  <1>4. \A k \in 0..n : v[k] \in [N -> EthAccount]
    <2> TAKE k \in 0..n
    <2>1. k \in P /\ k <= n  BY <1>1, <1>3
    <2>2. QED  BY <2>1
  <1> HIDE DEF P
  <1>5. guest(accts, batch) = v[n] /\ v[0] = accts  BY <1>2 DEF GuestStages
  <1>6. ASSUME NEW a \in N
        PROVE  /\ Moved(batch, a) \in Int
               /\ Gained(accts[a], guest(accts, batch)[a], Moved(batch, a))
    <2>1. PICK w : MovedStages(w, batch, a)  BY MovedSteps
    <2> DEFINE R == {k \in Nat : k <= n => w[k] \in Int /\ Gained(accts[a], v[k][a], w[k])}
    <2>2. 0 \in R
      <3>1. w[0] = 0  BY <2>1 DEF MovedStages
      <3>2. Gained(accts[a], accts[a], 0)
        <4>1. 0 \in Word  BY LedgerAssumption DEF Word
        <4>2. QED  BY <4>1, RebalancedBy
      <3>3. QED  BY <1>5, <3>1, <3>2
    <2>3. ASSUME NEW k \in R PROVE k + 1 \in R
      <3>1. k \in Nat /\ (k <= n => w[k] \in Int /\ Gained(accts[a], v[k][a], w[k]))  OBVIOUS
      <3> HIDE DEF R
      <3>2. ASSUME k + 1 <= n
            PROVE  w[k + 1] \in Int /\ Gained(accts[a], v[k + 1][a], w[k + 1])
        <4> DEFINE t == batch[k + 1]
        <4>1. k + 1 \in 1..n /\ (k + 1) - 1 = k /\ k \in 0..n
              /\ w[k] \in Int /\ Gained(accts[a], v[k][a], w[k])
          BY <1>1, <3>1, <3>2
        <4>2. v[k + 1] = transfer(v[k], t)  BY <1>2, <4>1 DEF GuestStages
        <4>3. t.amount \in Word /\ t.amount \in Int  BY <1>1, <4>1 DEF Word
        <4>4. w[k + 1] = w[k] + (IF t.to = a THEN t.amount ELSE 0)
                              - (IF t.from = a THEN t.amount ELSE 0)
          BY <2>1, <4>1 DEF MovedStages
        <4> HIDE DEF t
        <4>5. Gain(t, a) \in Int /\ w[k + 1] = w[k] + Gain(t, a)
          BY <4>1, <4>3, <4>4 DEF Gain
        <4>6. Gained(v[k][a], v[k + 1][a], Gain(t, a))
          BY <1>4, <4>1, <4>2, <4>3, TransferGains
        <4>7. accts[a] \in EthAccount  OBVIOUS
        <4>8. Gained(accts[a], v[k + 1][a], w[k] + Gain(t, a))
          BY <4>1, <4>5, <4>6, <4>7, GainedTwice
        <4>9. QED  BY <4>1, <4>5, <4>8
      <3>3. k + 1 \in Nat  BY <3>1
      <3>4. QED  BY <3>2, <3>3 DEF R
    <2>4. R = Nat
      <3>1. R \subseteq Nat  OBVIOUS
      <3> HIDE DEF R
      <3>2. QED  BY <2>2, <2>3, <3>1, NatInduct
    <2>5. n \in R /\ n <= n  BY <1>1, <2>4
    <2>6. w[n] \in Int /\ Gained(accts[a], v[n][a], w[n])  BY <2>5
    <2>7. w[n] = Moved(batch, a)  BY <2>1 DEF MovedStages
    <2>8. QED  BY <1>5, <2>6, <2>7
  <1>7. v[n] \in [N -> EthAccount]  BY <1>1, <1>4
  <1>8. QED  BY <1>5, <1>6, <1>7

-----------------------------------------------------------------------------
(***************************************************************************)
(* What may be sent, and the accounts that provers start with.             *)
(***************************************************************************)
\* Who starts with accounts, and what is sent, is as it should be.
SentInv ==
  /\ genesis \in [Addresses -> EthAccount]
  /\ txns \in Seq(Transaction(Known))
  /\ batches \in Seq(Seq(AnyTransaction))

\* A new account is one.
LEMMA NewAccount == ASSUME NEW b \in Word PROVE new_account(b) \in EthAccount
  <1>1. <<>> \in Seq(0..(W - 1)) /\ b \in 0..(W - 1)  BY EmptySeq DEF Word
  <1>2. Append(<<>>, b) \in Seq(0..(W - 1))  BY <1>1, AppendProperties
  <1>3. generate_account_storage_root([balance |-> b, storage_root |-> <<>>]) = Append(<<>>, b)
    BY DEF generate_account_storage_root
  <1>4. QED  BY <1>1, <1>2, <1>3 DEF new_account, EthAccount

\* At first, nothing is sent.
LEMMA SentInit == Init => SentInv
  <1> SUFFICES ASSUME Init PROVE SentInv  OBVIOUS
  <1>1. txns \in Seq(Transaction(Known)) /\ batches \in Seq(Seq(AnyTransaction))
    BY EmptySeq DEF Init
  <1>2. CASE genesis = NoAccounts
    <2>1. genesis \in [{} -> EthAccount]  BY <1>2 DEF NoAccounts
    <2>2. Addresses = {}  BY <1>2 DEF Addresses, NoAccounts
    <2>3. QED  BY <1>1, <2>1, <2>2 DEF SentInv
  <1>3. CASE genesis \in simulate_eth_accounts
    <2>1. PICK b \in [Known -> Balances] : genesis = [a \in Known |-> new_account(b[a])]
      BY <1>3 DEF simulate_eth_accounts
    <2>2. \A a \in Known : b[a] \in Word  BY LedgerAssumption DEF Word
    <2>3. \A a \in Known : new_account(b[a]) \in EthAccount  BY <2>2, NewAccount
    <2>4. genesis \in [Known -> EthAccount]  BY <2>1, <2>3
    <2>5. Addresses = Known  BY <2>4 DEF Addresses
    <2>6. QED  BY <1>1, <2>4, <2>5 DEF SentInv
  <1>4. QED  BY <1>2, <1>3 DEF Init

\* Whatever is sent later.
LEMMA SentNext == SentInv /\ [Next]_vars => SentInv'
  <1> SUFFICES ASSUME SentInv, [Next]_vars PROVE SentInv'  OBVIOUS
  <1>1. /\ genesis \in [Addresses -> EthAccount] /\ txns \in Seq(Transaction(Known))
        /\ batches \in Seq(Seq(AnyTransaction))
    BY DEF SentInv
  <1>2. Seq(Transaction(Known)) \subseteq Seq(AnyTransaction)
    <2>1. Transaction(Known) \subseteq AnyTransaction  BY DEF AnyTransaction, Transaction
    <2>2. QED  BY <2>1, SeqDef
  <1>3. ASSUME UNCHANGED genesis, txns' \in Seq(Transaction(Known)),
               batches' \in Seq(Seq(AnyTransaction))
        PROVE  SentInv'
    <2>1. Addresses' = Addresses  BY <1>3 DEF Addresses
    <2>2. QED  BY <1>1, <1>3, <2>1 DEF SentInv
  <1>4. CASE send_transaction
    <2>1. PICK new \in added : txns' = txns \o new /\ process_txn(txns')
      BY <1>4 DEF send_transaction
    <2>2. new \in Seq(Transaction(Known))
      <3>1. PICK m \in 0..(MaxTxn - Len(txns)) : new \in [1..m -> Transaction(Known)]
        BY <2>1 DEF added
      <3>2. m \in Nat  OBVIOUS
      <3>3. QED  BY <3>1, <3>2
    <2>3. txns' \in Seq(Transaction(Known))
      BY <1>1, <2>1, <2>2, ConcatProperties
    <2>4. txns' \in Seq(AnyTransaction)  BY <1>2, <2>3
    <2>5. batches' = Append(batches, txns') /\ genesis' = genesis  BY <2>1 DEF process_txn
    <2>6. batches' \in Seq(Seq(AnyTransaction))  BY <1>1, <2>4, <2>5, AppendProperties
    <2>7. QED  BY <1>3, <2>3, <2>5, <2>6
  <1>5. CASE client
    <2>1. PICK t \in Transaction(Known \cup Unknown) : process_txn(<<t>>)
      BY <1>5 DEF client
    <2>2. <<t>> \in Seq(AnyTransaction)  BY DEF AnyTransaction
    <2>3. batches' = Append(batches, <<t>>) /\ genesis' = genesis /\ txns' = txns
      BY <1>5, <2>1 DEF process_txn, client
    <2>4. batches' \in Seq(Seq(AnyTransaction))  BY <1>1, <2>2, <2>3, AppendProperties
    <2>5. QED  BY <1>1, <1>3, <2>3, <2>4
  <1>6. ASSUME UNCHANGED <<genesis, txns, batches>> PROVE SentInv'
    BY <1>1, <1>3, <1>6
  <1>7. QED  BY <1>4, <1>5, <1>6 DEF Next, receive, receive_again, vars

\* A balance after all batches that a prover has handled.
LEMMA NetBalance ==
  ASSUME HistoryInv, SentInv, NEW p \in Provers, NEW a \in Addresses
  PROVE  accounts[p][a].balance = Net(history[p], genesis[a].balance, a) % W
  <1> DEFINE h == history[p]
             n == Len(h)
             b == genesis[a].balance
             T == [Addresses -> EthAccount]
  <1>1. IsSeq(h) /\ accounts[p] = After(p, n) /\ n \in Nat
        /\ \A k \in 1..n : /\ h[k].batch \in DOMAIN batches
                           /\ h[k].accounts = guest(After(p, k - 1), batches[h[k].batch])
    <2>1. IsSeq(h)  BY DEF HistoryInv
    <2>2. n \in Nat  BY <2>1, Appended
    <2>3. QED  BY <2>1, <2>2 DEF HistoryInv
  <1>2. genesis \in T /\ a \in Addresses /\ batches \in Seq(Seq(AnyTransaction))  BY DEF SentInv
  <1>3. b \in Word /\ b \in Int  BY <1>2 DEF EthAccount, Word
  <1> HIDE DEF h, b
  <1>4. \A k \in 1..n : batches[h[k].batch] \in Seq(AnyTransaction)  BY <1>1, <1>2
  <1> HIDE DEF n
  <1>5. ASSUME NEW k \in Nat, k + 1 <= n
        PROVE  After(p, k + 1) = guest(After(p, k), batches[h[k + 1].batch])
    <2>1. k + 1 \in 1..n /\ (k + 1) - 1 = k /\ k + 1 # 0  BY <1>1, <1>5
    <2>2. h[k + 1].accounts = guest(After(p, k), batches[h[k + 1].batch])  BY <1>1, <2>1
    <2>3. QED  BY <2>1, <2>2 DEF After, h
  <1>6. After(p, 0) = genesis  BY DEF After
  <1> DEFINE P == {k \in Nat : k <= n => After(p, k) \in T}
  <1>7. P = Nat
    <2>1. 0 \in P  BY <1>2, <1>6
    <2>2. ASSUME NEW k \in P PROVE k + 1 \in P
      <3>1. k \in Nat /\ (k <= n => After(p, k) \in T)  OBVIOUS
      <3>2. ASSUME k + 1 <= n PROVE After(p, k + 1) \in T
        <4>1. After(p, k) \in T /\ k + 1 \in 1..n  BY <1>1, <3>1, <3>2
        <4>2. guest(After(p, k), batches[h[k + 1].batch]) \in T
          BY <1>4, <4>1, GuestGains
        <4>3. QED  BY <1>5, <3>1, <3>2, <4>2
      <3>3. QED  BY <3>1, <3>2
    <2>3. P \subseteq Nat  OBVIOUS
    <2> HIDE DEF P
    <2>4. QED  BY <2>1, <2>2, <2>3, NatInduct
  <1>8. \A k \in 0..n : After(p, k) \in T
    <2> TAKE k \in 0..n
    <2>1. k \in P /\ k <= n  BY <1>1, <1>7
    <2>2. QED  BY <2>1
  <1> HIDE DEF P
  <1>9. ASSUME NEW k \in Nat, k + 1 <= n
        PROVE  LET m == Moved(batches[h[k + 1].batch], a) IN
               m \in Int /\ Gained(After(p, k)[a], After(p, k + 1)[a], m)
    <2>1. k + 1 \in 1..n /\ k \in 0..n  BY <1>1, <1>9
    <2>2. After(p, k) \in T /\ batches[h[k + 1].batch] \in Seq(AnyTransaction)
      BY <1>4, <1>8, <2>1
    <2>3. QED  BY <1>2, <1>5, <1>9, <2>2, GuestGains
  <1>10. \A k \in 1..n : Moved(batches[h[k].batch], a) \in Int
    <2> TAKE k \in 1..n
    <2>1. k - 1 \in Nat /\ (k - 1) + 1 = k /\ k <= n  BY <1>1
    <2>2. PICK j \in Nat : j = k - 1  BY <2>1
    <2>3. QED  BY <1>9, <2>1, <2>2
  <1>11. PICK w : NetStages(w, h, b, a)
    BY <1>1, <1>3, <1>10, NetSteps DEF n
  <1>12. /\ w[0] = b /\ w[n] = Net(h, b, a)
         /\ \A k \in 1..n : w[k] = w[k - 1] + Moved(batches[h[k].batch], a)
    BY <1>11 DEF NetStages, n
  <1> DEFINE R == {k \in Nat : k <= n => w[k] \in Int /\ After(p, k)[a].balance = w[k] % W}
  <1>13. 0 \in R
    <2>1. b % W = b  BY <1>3, WrappingIs
    <2>2. QED  BY <1>3, <1>6, <1>12, <2>1 DEF b
  <1>14. ASSUME NEW k \in R PROVE k + 1 \in R
    <2>1. k \in Nat /\ (k <= n => w[k] \in Int /\ After(p, k)[a].balance = w[k] % W)  OBVIOUS
    <2> HIDE DEF R
    <2>2. ASSUME k + 1 <= n
          PROVE  w[k + 1] \in Int /\ After(p, k + 1)[a].balance = w[k + 1] % W
      <3> DEFINE m == Moved(batches[h[k + 1].batch], a)
      <3>1. k + 1 \in 1..n /\ (k + 1) - 1 = k /\ w[k] \in Int
            /\ After(p, k)[a].balance = w[k] % W
        BY <1>1, <2>1, <2>2
      <3>2. w[k + 1] = w[k] + m  BY <1>12, <3>1
      <3>3. m \in Int /\ After(p, k + 1)[a].balance = (After(p, k)[a].balance + m) % W
        BY <1>9, <2>1, <2>2 DEF Gained
      <3> HIDE DEF m
      <3>4. ((w[k] % W) + m) % W = (w[k] + m) % W  BY <3>1, <3>3, ModWPlus
      <3>5. QED  BY <3>1, <3>2, <3>3, <3>4
    <2>3. k + 1 \in Nat  BY <2>1
    <2>4. QED  BY <2>2, <2>3 DEF R
  <1>15. R = Nat
    <2>1. R \subseteq Nat  OBVIOUS
    <2> HIDE DEF R
    <2>2. QED  BY <1>13, <1>14, <2>1, NatInduct
  <1>16. n \in R /\ n <= n  BY <1>1, <1>15
  <1>17. After(p, n)[a].balance = w[n] % W  BY <1>16
  <1>18. QED  BY <1>1, <1>12, <1>17 DEF h, b

\* Every balance is what the account started with and what the batches of the prover moved, up
\* to a wrap-around, for any batches and however often they come.
THEOREM BalanceIsNetCorrect == Spec => []BalanceIsNet
  <1>1. HistoryInv /\ SentInv => BalanceIsNet
    BY NetBalance DEF BalanceIsNet, Net
  <1>2. Spec => []SentInv  BY SentInit, SentNext, PTL DEF Spec
  <1>3. QED  BY <1>1, <1>2, HistoryCorrect, PTL
=============================================================================
