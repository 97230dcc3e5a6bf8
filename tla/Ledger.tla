------------------------------- MODULE Ledger -------------------------------
(***************************************************************************)
(* Transactions, from the user's list (host/src/user_tui.rs) over the RPC  *)
(* (rpc/src/lib.rs) and the network to the accounts of every prover, which *)
(* the guest program changes (methods/guest/src/main.rs), and the root of  *)
(* them that the prover signs (prove of actors/src/app_state_actor.rs).    *)
(*                                                                         *)
(* The provers have keys by the time: what may happen to a batch before    *)
(* that is in AppState.  `u64' has W values.  A hash is what it is made    *)
(* of: a storage root the balances the account has had, one by one, and a  *)
(* state root the accounts in the order in which they were hashed.         *)
(*                                                                         *)
(* As the code stands a prover starts with no accounts, and keeps none;    *)
(* those that it simulates, with their addresses known to the user         *)
(* interface, are dropped.  The guest is the same for any accounts, and is *)
(* checked for these, too.                                                 *)
(***************************************************************************)
EXTENDS Integers, Sequences, FiniteSets, SequencesExt

CONSTANTS
  Provers,        \* the elected provers
  Known,          \* the addresses of simulated accounts, numbers as they are sorted
  Unknown,        \* addresses that have none
  Amounts,        \* what is transferred
  Balances,       \* what accounts start with
  W,              \* the modulus of balances
  MaxTxn,         \* bound: transactions that the user adds
  MaxSend,        \* bound: batches sent
  MaxRedelivery   \* bound: batches handed to a prover once more

ASSUME LedgerAssumption ==
  /\ W \in Nat \ {0}
  /\ Known \subseteq Nat /\ Unknown \subseteq Nat
  /\ Amounts \subseteq 0..(W - 1) /\ Balances \subseteq 0..(W - 1)
  /\ MaxTxn \in Nat /\ MaxSend \in Nat /\ MaxRedelivery \in Nat

VARIABLES
  fifo,         \* whether the network keeps the order of batches
  genesis,      \* the accounts that every prover started with
  txns,         \* the user's list
  batches,      \* the batches gossiped so far
  accounts,     \* accounts[p]: the accounts of prover p
  history,      \* history[p]: the batches p has handled and what it has signed (history)
  redelivered   \* how many batches were handed over once more

vars == <<fifo, genesis, txns, batches, accounts, history, redelivered>>

Transaction(S) == [from : S, to : S, amount : Amounts]

EthAccount == [balance : 0..(W - 1), storage_root : Seq(0..(W - 1))]

-----------------------------------------------------------------------------
generate_account_storage_root(account) == Append(account.storage_root, account.balance)

\* The balances of simulated accounts are random.
new_account(balance) ==
  [balance |-> balance,
   storage_root |-> generate_account_storage_root([balance |-> balance, storage_root |-> <<>>])]

simulate_eth_accounts == {[a \in Known |-> new_account(b[a])] : b \in [Known -> Balances]}

NoAccounts == [a \in {} |-> 0]

Init ==
  /\ fifo \in BOOLEAN
  /\ genesis \in {NoAccounts} \cup simulate_eth_accounts
  /\ txns = <<>>
  /\ batches = <<>>
  /\ accounts = [p \in Provers |-> genesis]
  /\ history = [p \in Provers |-> <<>>]
  /\ redelivered = 0

-----------------------------------------------------------------------------
\* What "Add" may have added to the list: transactions between addresses it knows.  It
\* does not look at balances.
added == UNION {[1..n -> Transaction(Known)] : n \in 0..(MaxTxn - Len(txns))}

\* The RPC gossips what it is given.
process_txn(batch) ==
  /\ Len(batches) < MaxSend
  /\ batches' = Append(batches, batch)
  /\ UNCHANGED <<fifo, genesis, accounts, history, redelivered>>

\* "Send" sends the list, which nobody has seen since the last "Send", and keeps it: the
\* next "Send" sends all of it again.
send_transaction ==
  \E new \in added :
    /\ txns' = txns \o new
    /\ process_txn(txns')

\* Somebody else calls the RPC, which checks nothing.
client ==
  /\ \E t \in Transaction(Known \cup Unknown) : process_txn(<<t>>)
  /\ UNCHANGED txns

-----------------------------------------------------------------------------
\* u64 arithmetic without overflow checks.
wrapping_sub(x, y) == IF x >= y THEN x - y ELSE x - y + W
wrapping_add(x, y) == IF x + y < W THEN x + y ELSE x + y - W

rebalance(account, balance) ==
  [balance |-> balance,
   storage_root |-> generate_account_storage_root([account EXCEPT !.balance = balance])]

debit(accts, t) ==
  IF t.from \in DOMAIN accts
  THEN [accts EXCEPT ![t.from] = rebalance(@, wrapping_sub(@.balance, t.amount))]
  ELSE accts

\* Mutant of credit: nothing comes from an address that is not known.
credit_known(accts, t) ==
  IF t.from \in DOMAIN accts /\ t.to \in DOMAIN accts
  THEN [accts EXCEPT ![t.to] = rebalance(@, wrapping_add(@.balance, t.amount))]
  ELSE accts

credit(accts, t) ==
  IF t.to \in DOMAIN accts
  THEN [accts EXCEPT ![t.to] = rebalance(@, wrapping_add(@.balance, t.amount))]
  ELSE accts

\* One round of the guest's loop.
transfer(accts, t) == credit(debit(accts, t), t)

\* The guest's loop over the transactions of a batch.
guest(accts, batch) == FoldLeft(transfer, accts, batch)

\* A hash map is iterated in any order of its keys.
Orders(S) == {s \in [1..Cardinality(S) -> S] : \A x \in S : \E k \in DOMAIN s : s[k] = x}

\* Mutant of sorted: the hash map's own order.
sorted_as_is(order) == order

\* The accounts are collected into a map that is sorted by address.
sorted(order) ==
  CHOOSE s \in Orders(Range(order)) : \A i, j \in DOMAIN s : i < j => s[i] < s[j]

\* The Merkle root of the accounts, hashed in this order.
generate_account_state_root_hash(accts, order) ==
  [k \in DOMAIN order |-> <<order[k], accts[order[k]]>>]

handled(p, b) == \E k \in DOMAIN history[p] : history[p][k].batch = b

\* Prover p proves batch b, keeps the changed accounts, and signs their root.
prove(p, b) ==
  LET changed_accounts == guest(accounts[p], batches[b]) IN
  \E order \in Orders(DOMAIN changed_accounts) :
    /\ accounts' = [accounts EXCEPT ![p] = changed_accounts]
    /\ history' = [history EXCEPT ![p] = Append(@,
         [batch |-> b, accounts |-> changed_accounts,
          root |-> generate_account_state_root_hash(changed_accounts, sorted(order))])]

receive(p) ==
  /\ \E b \in DOMAIN batches :
       /\ ~handled(p, b)
       /\ fifo => \A c \in 1..(b - 1) : handled(p, c)
       /\ prove(p, b)
  /\ UNCHANGED <<fifo, genesis, txns, batches, redelivered>>

\* The network has forgotten that it has delivered b.
receive_again(p) ==
  /\ redelivered < MaxRedelivery
  /\ redelivered' = redelivered + 1
  /\ \E b \in DOMAIN batches : handled(p, b) /\ prove(p, b)
  /\ UNCHANGED <<fifo, genesis, txns, batches>>

Next ==
  \/ send_transaction \/ client
  \/ \E p \in Provers : receive(p) \/ receive_again(p)

Spec == Init /\ [][Next]_vars

\* What is gossiped reaches every prover.
FairSpec == Spec /\ \A p \in Provers : WF_vars(receive(p))

-----------------------------------------------------------------------------
(***************************************************************************)
(* Properties.                                                             *)
(***************************************************************************)
Addresses == DOMAIN genesis

\* What a batch moves to an address and away from it, whoever is at the other end.
Moved(batch, a) ==
  FoldLeft(LAMBDA sum, t : sum + (IF t.to = a THEN t.amount ELSE 0)
                               - (IF t.from = a THEN t.amount ELSE 0), 0, batch)

\* Every balance is what the account started with and what the batches handled by the
\* prover have moved, up to a wrap-around, in whatever order they came, and however
\* often; nothing is lost in a transfer to oneself, or between an account and none.
BalanceIsNet ==
  \A p \in Provers : \A a \in Addresses :
    accounts[p][a].balance =
      FoldLeft(LAMBDA sum, h : sum + Moved(batches[h.batch], a),
               genesis[a].balance, history[p]) % W

SameOrder(p, q, k) ==
  k \in DOMAIN history[p] /\ k \in DOMAIN history[q] /\
  \A i \in 1..k : history[p][i].batch = history[q][i].batch

\* Provers that have handled the same batches in the same order sign the same root
\* (the guest sorts the accounts, whose order in a hash map is each prover's own).
SameOrderSameRoot ==
  \A p, q \in Provers : \A k \in 1..Len(history[p]) :
    SameOrder(p, q, k) => history[p][k].root = history[q][k].root

\* If batches come in order and once, all provers sign one root for each, which gives the
\* verifier as many signatures of it as there are provers.
OneRoot ==
  \A k \in 1..MaxSend :
    (fifo /\ Len(batches) >= k) ~>
      \/ redelivered > 0
      \/ \A p, q \in Provers :
           /\ k \in DOMAIN history[p] /\ k \in DOMAIN history[q]
           /\ history[p][k].batch = k /\ history[p][k].root = history[q][k].root
=============================================================================
