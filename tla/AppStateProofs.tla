--------------------------- MODULE AppStateProofs ---------------------------
(***************************************************************************)
(* Theorems about AppState for any number of provers, sessions and         *)
(* batches.                                                                *)
(***************************************************************************)
EXTENDS AppState, FiniteSetTheorems, TLAPS

\* What a handler does to the network: the message is known, and nothing else comes.
LEMMA DeliverType ==
  ASSUME TypeOK, NEW v \in Nodes, NEW m \in sent, Deliver(v, m)
  PROVE  got' \in [Nodes -> SUBSET sent] /\ redelivered' \in 0..MaxRedelivery
  BY SigningBounds DEF Deliver, TypeOK

\* add_verification_shares keeps the types of a prover and of the verifier.
LEMMA AddSharesType ==
  ASSUME NEW q \in Provers, NEW g \in Session
  PROVE  /\ \A s \in ProverState : add_verification_shares(s, q, g) \in ProverState
         /\ \A s \in VerifierState : add_verification_shares(s, q, g) \in VerifierState
  <1>1. \A f \in Shares : [f EXCEPT ![q] = g] \in Shares
    BY NAssumption DEF Shares, Provers
  <1>2. ASSUME NEW s \in ProverState PROVE add_verification_shares(s, q, g) \in ProverState
    BY <1>1 DEF add_verification_shares, ProverState
  <1>3. ASSUME NEW s \in VerifierState PROVE add_verification_shares(s, q, g) \in VerifierState
    BY <1>1 DEF add_verification_shares, VerifierState
  <1>4. QED  BY <1>2, <1>3

\* store_group_key_and_shares files the share under an index that the map has.
LEMMA StoreKeysType ==
  ASSUME NEW s \in ProverState, NEW g \in Session
  PROVE  store_group_key_and_shares(s, g) \in ProverState
  <1>1. [s.shares EXCEPT ![s.my_node_idx] = g] \in Shares
    BY DEF ProverState, Shares
  <1>2. store_group_key_and_shares(s, g) =
          [s EXCEPT !.group_key = g, !.signing_key = g,
                    !.shares = [s.shares EXCEPT ![s.my_node_idx] = g]]
    BY DEF store_group_key_and_shares, ProverState
  <1>3. QED  BY <1>1, <1>2 DEF ProverState

\* Every step preserves the type invariant: no handler files a share or a signature
\* under an index that the maps of NodeState do not have.
THEOREM TypeCorrect == Spec => []TypeOK
  <1>1. Init => TypeOK
    <2>1. NoShares \in Shares /\ 0 \in Session
      BY SigningBounds DEF NoShares, Shares, Session
    <2>2. NoSig \in PartialSig  BY <2>1 DEF NoSig, PartialSig
    <2>3. QED
      BY <2>1, <2>2, NAssumption, SigningBounds
      DEF Init, TypeOK, ProverState, VerifierState, Session
  <1>2. TypeOK /\ [Next]_vars => TypeOK'
    <2> SUFFICES ASSUME TypeOK, [Next]_vars PROVE TypeOK'
      OBVIOUS
    <2>1. ASSUME NEW p \in Provers, elected(p) PROVE TypeOK'
      <3>1. [prover[p] EXCEPT !.n = N, !.my_node_idx = p] \in ProverState
        <4>1. N \in {0, N} /\ p \in 0..N  BY NAssumption DEF Provers
        <4>2. prover[p] \in ProverState  BY DEF TypeOK
        <4>3. QED  BY <4>1, <4>2 DEF ProverState
      <3>2. prover' = [prover EXCEPT ![p] = [prover[p] EXCEPT !.n = N, !.my_node_idx = p]]
        BY <2>1 DEF elected, TypeOK
      <3>3. prover' \in [Provers -> ProverState]  BY <3>1, <3>2 DEF TypeOK
      <3>4. QED  BY <2>1, <3>3 DEF elected, TypeOK
    <2>2. ASSUME NEW p \in Provers, dkg_finish(p) PROVE TypeOK'
      <3> DEFINE g == keyed[p] + 1
      <3>1. g \in Session /\ keyed' \in [Provers -> Session] /\ keyed'[p] = g
        BY <2>2, SigningBounds DEF dkg_finish, TypeOK, Session
      <3>2. store_group_key_and_shares(prover[p], g) \in ProverState
        BY <3>1, StoreKeysType DEF TypeOK
      <3>3. prover' = prover
            \/ prover' = [prover EXCEPT ![p] = store_group_key_and_shares(prover[p], g)]
        BY <2>2, <3>1 DEF dkg_finish, TypeOK
      <3>6. prover' \in [Provers -> ProverState]  BY <3>2, <3>3 DEF TypeOK
      <3> HIDE DEF g
      <3>7. [type |-> "GossipVerificationShares", from |-> p, gen |-> g] \in Message
        BY <3>1 DEF Message
      <3>8. sent' = sent \cup {[type |-> "GossipVerificationShares", from |-> p, gen |-> g]}
        BY <2>2, <3>1 DEF dkg_finish
      <3>9. QED  BY <2>2, <3>1, <3>6, <3>7, <3>8 DEF dkg_finish, TypeOK
    <2>3. ASSUME process_txn PROVE TypeOK'
      <3>1. PICK b \in 1..MaxBatch : sent' = sent \cup {Batch(b)}
        BY <2>3 DEF process_txn
      <3>2. Batch(b) \in Message  BY DEF Batch, Message
      <3>3. readiness' \in 0..2  BY <2>3 DEF process_txn, TypeOK
      <3>4. QED  BY <2>3, <3>1, <3>2, <3>3 DEF process_txn, TypeOK
    <2>4. ASSUME NEW v \in Nodes, NEW m \in sent, store_verification_shares(v, m)
          PROVE  TypeOK'
      <3>1. m.from \in Provers /\ m.gen \in Session
        BY <2>4 DEF store_verification_shares, TypeOK, Message
      <3>2. prover' \in [Provers -> ProverState]
        BY <2>4, <3>1, AddSharesType DEF store_verification_shares, TypeOK, Nodes
      <3>3. verifier' \in VerifierState
        BY <2>4, <3>1, AddSharesType DEF store_verification_shares, TypeOK
      <3>4. QED  BY <2>4, <3>2, <3>3, DeliverType DEF store_verification_shares, TypeOK
    <2>5. ASSUME NEW v \in Nodes, NEW m \in sent, prove(v, m)
          PROVE  TypeOK'
      <3>1. v \in Provers  BY <2>5 DEF prove, Nodes
      <3>2. m.batch \in 1..MaxBatch  BY <2>5 DEF prove, TypeOK, Message
      <3>3. sign(v) \in PartialSig
        BY <3>1 DEF sign, PartialSig, TypeOK, ProverState
      <3>4. [type |-> "BroadcastPartialSig", from |-> v, batch |-> m.batch,
             sig |-> sign(v)] \in Message
        BY <3>1, <3>2, <3>3 DEF Message
      <3>5. panic(prover[v]) \in ProverState
        BY <3>1 DEF panic, TypeOK, ProverState
      <3>6. prover' \in [Provers -> ProverState]  BY <2>5, <3>5 DEF prove, TypeOK
      <3>7. QED  BY <2>5, <3>4, <3>6, DeliverType DEF prove, TypeOK
    <2>6. ASSUME NEW m \in sent, process_partial_signature(m) PROVE TypeOK'
      <3> DEFINE v == push_signature(verifier, m)
      <3>1. m.from \in Provers /\ m.sig \in PartialSig
        BY <2>6 DEF process_partial_signature, TypeOK, Message
      <3>2. v \in VerifierState
        <4>1. [verifier.data EXCEPT ![m.from] = m.sig] \in [Provers -> PartialSig]
          BY <3>1 DEF TypeOK, VerifierState
        <4>2. verifier.count + 1 \in Nat  BY DEF TypeOK, VerifierState
        <4>3. v = [verifier EXCEPT !.count = verifier.count + 1,
                                   !.data = [verifier.data EXCEPT ![m.from] = m.sig]]
          BY DEF push_signature, TypeOK, VerifierState
        <4>4. QED  BY <4>1, <4>2, <4>3 DEF TypeOK, VerifierState
      <3>3. panic(verifier) \in VerifierState  BY DEF panic, TypeOK, VerifierState
      <3> HIDE DEF v
      <3>4. verifier' \in VerifierState
        <4>1. verifier' = v \/ verifier' = panic(verifier) \/ verifier' = verifier
          BY <2>6, Zenon DEF process_partial_signature, v
        <4>2. QED  BY <3>2, <3>3, <4>1 DEF TypeOK
      <3>5. verified' \subseteq SUBSET Provers
        <4>1. \/ verified' = verified
              \/ aggregates(v) /\ verified' = verified \cup {signers(v.shares)}
          BY <2>6, Zenon DEF process_partial_signature, v
        <4>2. aggregates(v) => signers(v.shares) \subseteq Provers
          BY NAssumption DEF aggregates, include_signers, signers, Provers
        <4>3. QED  BY <4>1, <4>2 DEF TypeOK
      <3>6. Verifier \in Nodes  BY DEF Nodes
      <3>7. QED
        BY <2>6, <3>4, <3>5, <3>6, DeliverType DEF process_partial_signature, TypeOK
    <2>7. CASE UNCHANGED vars  BY <2>7 DEF vars, TypeOK
    <2>8. QED
      BY <2>1, <2>2, <2>3, <2>4, <2>5, <2>6, <2>7 DEF Next, handle
  <1>3. QED  BY <1>1, <1>2, PTL DEF Spec

-----------------------------------------------------------------------------
(***************************************************************************)
(* What a prover signs with.                                               *)
(***************************************************************************)

\* OwnKeys strengthened to be inductive: the keys are those of the sessions that p's
\* engine has ended, which it does only once p has its index.
KeysInv(p) ==
  Up(p) =>
    /\ prover[p].n # 0 => prover[p].my_node_idx = p
    /\ prover[p].signing_key = keyed[p]
    /\ prover[p].shares[0] = 0
    /\ keyed[p] # 0 =>
         /\ prover[p].n # 0
         /\ prover[p].group_key = keyed[p]
         /\ prover[p].shares[p] = keyed[p]

OwnKeysInv == \A p \in Provers : KeysInv(p)

\* What the shares of another prover leave of a prover's state.
LEMMA AddFields ==
  ASSUME NEW s \in ProverState, NEW q \in Provers, NEW g \in Session,
         NEW a, a = add_verification_shares(s, q, g)
  PROVE  /\ a.status = s.status /\ a.n = s.n /\ a.my_node_idx = s.my_node_idx
         /\ a.signing_key = s.signing_key
         /\ s.group_key # 0 => a.group_key = s.group_key
         /\ \A i \in 0..N : i # q => a.shares[i] = s.shares[i]
  <1>1. DOMAIN s.shares = 0..N
    BY DEF ProverState, Shares
  <1>2. QED  BY <1>1 DEF add_verification_shares, ProverState

\* What a new key pair makes of a prover's state.
LEMMA StoreFields ==
  ASSUME NEW s \in ProverState, NEW g \in Session,
         NEW k, k = store_group_key_and_shares(s, g)
  PROVE  /\ k.status = s.status /\ k.n = s.n /\ k.my_node_idx = s.my_node_idx
         /\ k.signing_key = g /\ k.group_key = g
         /\ k.shares[s.my_node_idx] = g
         /\ \A i \in 0..N : i # s.my_node_idx => k.shares[i] = s.shares[i]
  <1>1. DOMAIN s.shares = 0..N /\ s.my_node_idx \in 0..N
    BY DEF ProverState, Shares
  <1>2. QED  BY <1>1 DEF store_group_key_and_shares, ProverState

\* What a panic leaves of it.
LEMMA PanicFields ==
  ASSUME NEW s \in ProverState
  PROVE  panic(s).status = "dead" /\ panic(s).signing_key = s.signing_key
  BY DEF panic, ProverState

\* A prover is elected: its n is set for the first time, and its index with it.
LEMMA ElectedFields ==
  ASSUME TypeOK, NEW p \in Provers, elected(p)
  PROVE  /\ prover[p].n = 0 /\ UNCHANGED <<keyed, sent, readiness>>
         /\ prover'[p].status = prover[p].status
         /\ prover'[p].n = N /\ prover'[p].my_node_idx = p
         /\ prover'[p].signing_key = prover[p].signing_key
         /\ prover'[p].group_key = prover[p].group_key
         /\ prover'[p].shares = prover[p].shares
         /\ \A q \in Provers \ {p} : prover'[q] = prover[q]
  BY DEF elected, TypeOK, ProverState

\* A prover's engine ends a session.
LEMMA FinishFields ==
  ASSUME TypeOK, NEW p \in Provers, dkg_finish(p)
  PROVE  /\ keyed[p] + 1 \in Session
         /\ keyed' = [keyed EXCEPT ![p] = keyed[p] + 1]
         /\ UNCHANGED readiness
         /\ \A b : Batch(b) \in sent' => Batch(b) \in sent
         /\ \A q \in Provers \ {p} : prover'[q] = prover[q]
         /\ Up(p) => prover[p].n # 0
         /\ IF Up(p) THEN prover'[p] = store_group_key_and_shares(prover[p], keyed[p] + 1)
                     ELSE prover'[p] = prover[p]
  <1>1. keyed[p] + 1 \in Session /\ keyed' = [keyed EXCEPT ![p] = keyed[p] + 1]
        /\ keyed'[p] = keyed[p] + 1
    BY SigningBounds DEF dkg_finish, TypeOK, Session
  <1>2. \A b : Batch(b) \in sent' => Batch(b) \in sent
    BY DEF dkg_finish, Batch
  <1>3. IF Up(p) THEN prover' = [prover EXCEPT ![p] =
                                   store_group_key_and_shares(prover[p], keyed[p] + 1)]
                 ELSE prover' = prover
    BY <1>1 DEF dkg_finish, Up
  <1>4. QED  BY <1>1, <1>2, <1>3 DEF dkg_finish, Up, TypeOK

\* Another prover's shares reach a node.
LEMMA SharesFields ==
  ASSUME TypeOK, NEW v \in Nodes, NEW m \in sent, store_verification_shares(v, m)
  PROVE  /\ UNCHANGED <<keyed, sent, readiness>>
         /\ \A q \in Provers \ {v} : prover'[q] = prover[q]
         /\ m.from \in Provers /\ m.gen \in Session /\ m.from # v
         /\ v \in Provers => prover'[v] \in
              {prover[v], add_verification_shares(prover[v], m.from, m.gen)}
  <1>1. m.from \in Provers /\ m.gen \in Session /\ m.from # v
    BY DEF store_verification_shares, TypeOK, Message, Deliver
  <1>2. \/ prover' = prover
        \/ /\ v # Verifier
           /\ prover' = [prover EXCEPT ![v] =
                            add_verification_shares(prover[v], m.from, m.gen)]
    BY DEF store_verification_shares
  <1>3. UNCHANGED <<keyed, sent, readiness>>
    BY DEF store_verification_shares
  <1>4. QED  BY <1>1, <1>2, <1>3 DEF TypeOK

\* A batch reaches a prover.
LEMMA ProveFields ==
  ASSUME TypeOK, NEW v \in Nodes, NEW m \in sent, prove(v, m)
  PROVE  /\ v \in Provers /\ UNCHANGED <<keyed, readiness>>
         /\ \A b : Batch(b) \in sent' => Batch(b) \in sent
         /\ \A q \in Provers \ {v} : prover'[q] = prover[q]
         /\ \/ prover'[v] = prover[v]
            \/ (~can_sign(v) /\ prover'[v] = panic(prover[v]))
         /\ \E b : m = Batch(b)
  <1>1. v \in Provers /\ UNCHANGED <<keyed, readiness>>  BY DEF prove, Nodes
  <1>2. \A b : Batch(b) \in sent' => Batch(b) \in sent  BY DEF prove, Batch
  <1>3. \/ prover' = prover
        \/ (~can_sign(v) /\ prover' = [prover EXCEPT ![v] = panic(prover[v])])
    BY Zenon DEF prove
  <1>4. \E b : m = Batch(b)  BY DEF prove, TypeOK, Message, Batch
  <1>5. QED  BY <1>1, <1>2, <1>3, <1>4 DEF TypeOK

\* Every step preserves the strengthened invariant.
LEMMA KeysStep == TypeOK /\ OwnKeysInv /\ [Next]_vars => OwnKeysInv'
  <1> SUFFICES ASSUME TypeOK, OwnKeysInv, [Next]_vars, NEW q \in Provers
               PROVE  KeysInv(q)'
    BY DEF OwnKeysInv
  <1>0. /\ KeysInv(q) /\ prover[q] \in ProverState /\ keyed[q] \in Session
        /\ q \in 0..N /\ 0 \in 0..N /\ q # 0 /\ N # 0
    BY NAssumption DEF OwnKeysInv, TypeOK, Provers
  <1>1. ASSUME NEW p \in Provers, elected(p) PROVE KeysInv(q)'
    BY <1>0, <1>1, ElectedFields DEF KeysInv, Up
  <1>2. ASSUME NEW p \in Provers, dkg_finish(p) PROVE KeysInv(q)'
    <2>1. CASE q # p  BY <1>0, <1>2, <2>1, FinishFields DEF KeysInv, Up, TypeOK
    <2>2. CASE q = p /\ ~Up(q)  BY <1>0, <1>2, <2>2, FinishFields DEF KeysInv, Up
    <2>3. CASE q = p /\ Up(q)
      <3> DEFINE g == keyed[q] + 1
      <3>1. /\ prover[q].my_node_idx = q /\ prover[q].n # 0 /\ prover[q].shares[0] = 0
            /\ prover'[q] = store_group_key_and_shares(prover[q], g)
            /\ g \in Session /\ keyed'[q] = g
        BY <1>0, <1>2, <2>3, FinishFields DEF KeysInv, TypeOK
      <3> HIDE DEF g
      <3>2. /\ prover'[q].n = prover[q].n /\ prover'[q].my_node_idx = q
            /\ prover'[q].signing_key = g /\ prover'[q].group_key = g
            /\ prover'[q].shares[q] = g /\ prover'[q].shares[0] = prover[q].shares[0]
        BY <1>0, <3>1, StoreFields
      <3>3. QED  BY <3>1, <3>2 DEF KeysInv
    <2>4. QED  BY <2>1, <2>2, <2>3
  <1>3. ASSUME NEW v \in Nodes, NEW m \in sent, store_verification_shares(v, m)
        PROVE  KeysInv(q)'
    <2>1. CASE prover'[q] = prover[q]
      BY <1>0, <1>3, <2>1, SharesFields DEF KeysInv, Up
    <2>2. CASE q = v /\ prover'[q] = add_verification_shares(prover[q], m.from, m.gen)
      <3>1. /\ m.from \in Provers /\ m.gen \in Session /\ m.from # q /\ m.from # 0
            /\ keyed' = keyed
        BY <1>3, <2>2, SharesFields DEF Provers
      <3> DEFINE s == prover[q]
      <3> DEFINE a == prover'[q]
      <3>2. s \in ProverState /\ a = add_verification_shares(s, m.from, m.gen)
        BY <1>0, <2>2
      <3>3. /\ a.status = s.status /\ a.n = s.n /\ a.my_node_idx = s.my_node_idx
            /\ a.signing_key = s.signing_key
            /\ s.group_key # 0 => a.group_key = s.group_key
            /\ \A i \in 0..N : i # m.from => a.shares[i] = s.shares[i]
        <4> HIDE DEF s, a
        <4>1. QED  BY <3>1, <3>2, AddFields
      <3>4. a.shares[q] = s.shares[q] /\ a.shares[0] = s.shares[0]
        <4> HIDE DEF s, a
        <4>1. QED  BY <1>0, <3>1, <3>3
      <3>5. QED  BY <1>0, <3>1, <3>3, <3>4 DEF KeysInv, Up
    <2>3. QED  BY <1>3, <2>1, <2>2, SharesFields
  <1>4. ASSUME NEW v \in Nodes, NEW m \in sent, prove(v, m) PROVE KeysInv(q)'
    <2>1. CASE prover'[q] = prover[q]
      BY <1>0, <1>4, <2>1, ProveFields DEF KeysInv, Up
    <2>2. CASE prover'[q] = panic(prover[q])
      BY <1>0, <2>2, PanicFields DEF KeysInv, Up
    <2>3. QED  BY <1>4, <2>1, <2>2, ProveFields
  <1>5. ASSUME NEW m \in sent, process_partial_signature(m) PROVE KeysInv(q)'
    BY <1>0, <1>5 DEF process_partial_signature, KeysInv, Up
  <1>6. CASE process_txn  BY <1>0, <1>6 DEF process_txn, KeysInv, Up
  <1>7. CASE UNCHANGED vars  BY <1>0, <1>7 DEF vars, KeysInv, Up
  <1>8. QED
    BY <1>1, <1>2, <1>3, <1>4, <1>5, <1>6, <1>7 DEF Next, handle

\* What a prover signs with is of one session, its own last, whatever shares of others
\* come, and however late.
THEOREM OwnKeysCorrect == Spec => []OwnKeys
  <1>1. Init => OwnKeysInv
    BY NAssumption DEF Init, OwnKeysInv, KeysInv, NoShares
  <1>2. OwnKeysInv => OwnKeys
    BY DEF OwnKeysInv, KeysInv, OwnKeys
  <1>3. QED  BY <1>1, <1>2, KeysStep, TypeCorrect, PTL DEF Spec

-----------------------------------------------------------------------------
(***************************************************************************)
(* The batches that provers survive.                                       *)
(***************************************************************************)

\* While no batch was sent before all had keys, all provers live, and all have keys as
\* soon as there is a batch.
SurviveInv ==
  readiness # 0 =>
    /\ \A p \in Provers : Up(p)
    /\ (\E b : Batch(b) \in sent) => Keyed

\* A prover with keys has all that prove unwraps.
LEMMA KeysCanSign ==
  ASSUME TypeOK, OwnKeysInv, NEW p \in Provers, Up(p), prover[p].signing_key # 0
  PROVE  can_sign(p)
  <1>1. /\ prover[p].group_key # 0 /\ prover[p].n # 0 /\ prover[p].shares[0] = 0
        /\ prover[p].shares[p] # 0
    BY DEF OwnKeysInv, KeysInv
  <1>2. prover[p].n = N  BY <1>1 DEF TypeOK, ProverState
  <1>3. signers(prover[p].shares) \subseteq 1..N
    BY <1>1, NAssumption DEF signers
  <1>4. Cardinality(signers(prover[p].shares)) <= N
    <2>1. IsFiniteSet(1..N) /\ Cardinality(1..N) = N
      BY NAssumption, FS_Interval
    <2>2. QED  BY <1>3, <2>1, FS_Subset
  <1>5. QED  BY <1>1, <1>2, <1>4 DEF can_sign, include_signers

\* Every step preserves SurviveInv.
LEMMA SurviveStep == TypeOK /\ OwnKeysInv /\ SurviveInv /\ [Next]_vars => SurviveInv'
  <1> SUFFICES ASSUME TypeOK, OwnKeysInv, SurviveInv, [Next]_vars, readiness' # 0
               PROVE  /\ \A q \in Provers : Up(q)'
                      /\ (\E b : Batch(b) \in sent') => Keyed'
    BY DEF SurviveInv
  <1>0. \A q \in Provers : prover[q] \in ProverState /\ keyed[q] \in Session
    BY DEF TypeOK
  <1> DEFINE Kept ==
        /\ readiness # 0
        /\ \A b : Batch(b) \in sent' => Batch(b) \in sent
        /\ \A q \in Provers : Up(q) => Up(q)' /\ (prover[q].signing_key # 0 =>
                                                 prover'[q].signing_key # 0)
  <1>1. CASE Kept  BY <1>1 DEF SurviveInv, Keyed
  <1>2. ASSUME NEW p \in Provers, elected(p) PROVE Kept
    BY <1>2, ElectedFields DEF Up
  <1>3. ASSUME NEW p \in Provers, dkg_finish(p) PROVE Kept
    <2>1. keyed[p] + 1 # 0  BY <1>0, SigningBounds DEF Session
    <2>2. ASSUME Up(p) PROVE prover'[p].status = "up" /\ prover'[p].signing_key # 0
      BY <1>0, <1>3, <2>1, <2>2, FinishFields, StoreFields DEF Up
    <2>3. QED  BY <1>3, <2>2, FinishFields DEF Up
  <1>4. ASSUME NEW v \in Nodes, NEW m \in sent, store_verification_shares(v, m)
        PROVE  Kept
    <2>1. ASSUME NEW q \in Provers
          PROVE  prover'[q].status = prover[q].status
                 /\ prover'[q].signing_key = prover[q].signing_key
      BY <1>0, <1>4, SharesFields, AddFields
    <2>2. QED  BY <1>4, <2>1, SharesFields DEF Up
  <1>5. ASSUME NEW v \in Nodes, NEW m \in sent, prove(v, m) PROVE Kept
    <2>1. v \in Provers /\ readiness # 0 /\ Up(v) /\ Keyed
      BY <1>5, ProveFields DEF SurviveInv
    <2>2. can_sign(v)  BY <2>1, KeysCanSign DEF Keyed
    <2>3. \A q \in Provers : prover'[q] = prover[q]
      BY <1>5, <2>2, ProveFields
    <2>4. QED  BY <1>5, <2>1, <2>3, ProveFields DEF Up
  <1>6. ASSUME NEW m \in sent, process_partial_signature(m) PROVE Kept
    BY <1>6 DEF process_partial_signature, Up
  <1>7. CASE process_txn
    <2>1. Keyed /\ readiness # 0  BY <1>7 DEF process_txn
    <2>2. prover' = prover  BY <1>7 DEF process_txn
    <2>3. QED  BY <2>1, <2>2 DEF SurviveInv, Keyed, Up
  <1>8. CASE UNCHANGED vars
    <2>1. Kept  BY <1>8 DEF vars, Up
    <2>2. QED  BY <1>1, <2>1
  <1> HIDE DEF Kept
  <1>9. QED
    BY <1>1, <1>2, <1>3, <1>4, <1>5, <1>6, <1>7, <1>8 DEF Next, handle

\* No prover dies of a batch that was sent when all had keys: prove finds all that it
\* unwraps, however many of the other provers' shares it has.
THEOREM ProversSurviveCorrect == Spec => []ProversSurvive
  <1>1. Init => OwnKeysInv /\ SurviveInv
    BY NAssumption DEF Init, OwnKeysInv, KeysInv, NoShares, SurviveInv, Up
  <1>2. SurviveInv => ProversSurvive
    BY DEF SurviveInv, ProversSurvive
  <1>3. QED  BY <1>1, <1>2, KeysStep, SurviveStep, TypeCorrect, PTL DEF Spec

-----------------------------------------------------------------------------
(***************************************************************************)
(* The batch that the verifier survives.                                   *)
(***************************************************************************)

\* What VerifierSurvives is about: one session, one batch, sent when all had all shares.
Calm ==
  /\ N = 3 /\ readiness = 2 /\ redelivered = 0
  /\ Cardinality(batches) <= 1 /\ \A p \in Provers : keyed[p] <= 1

\* All shares of the one session, and what is signed with all of them.
AllShares == [i \in 0..N |-> IF i = 0 THEN 0 ELSE 1]
FullSig == [gen |-> 1, group |-> 1, signers |-> AllShares]

\* The messages of the one session and of the one batch.
SentInv ==
  /\ \A m \in sent : m.type = "GossipVerificationShares" => m.gen = 1
  /\ \A m \in sent : m.type = "BroadcastPartialSig" =>
       m.sig = FullSig /\ Batch(m.batch) \in sent

\* What shares are filed are of the one session; once there is a batch, they all are.
ProverShares(p) ==
  \A q \in Provers :
    \/ prover[p].shares[q] = 1
    \/ prover[p].shares[q] = 0 /\ batches = {}
VerifierShares ==
  /\ verifier.shares[0] = 0 /\ verifier.group_key \in {0, 1}
  /\ \A q \in Provers :
       \/ verifier.shares[q] = 1 /\ verifier.group_key = 1
       \/ verifier.shares[q] = 0 /\ batches = {}
SharesInv ==
  /\ \A p \in Provers : ProverShares(p) /\ (batches # {} => keyed[p] = 1)
  /\ VerifierShares

\* The count is that of the provers whose signature has come, each of which is full.
Signed == {p \in Provers : \E m \in got[Verifier] : m.type = "BroadcastPartialSig" /\ m.from = p}
CountInv ==
  /\ VerifierUp
  /\ verifier.count = Cardinality(Signed)
  /\ \A p \in Signed : verifier.data[p] = FullSig

CalmInv == Calm => SentInv /\ SharesInv /\ CountInv

\* The batches are finitely many, and a new one is one more.
LEMMA BatchCount ==
  ASSUME TypeOK
  PROVE  /\ IsFiniteSet(batches) /\ Cardinality(batches) \in Nat
         /\ Cardinality(batches) <= 1 => \A m, n \in batches : m = n
         /\ \A m \in batches : \E b \in 1..MaxBatch : m = Batch(b)
  <1> DEFINE B == {Batch(b) : b \in 1..MaxBatch}
  <1>1. \A m \in batches : \E b \in 1..MaxBatch : m = Batch(b)
    BY DEF batches, TypeOK, Message, Batch
  <1>2. IsFiniteSet(B)
    <2>1. IsFiniteSet(1..MaxBatch)  BY SigningBounds, FS_Interval
    <2> DEFINE f == [b \in 1..MaxBatch |-> Batch(b)]
    <2>2. f \in Surjection(1..MaxBatch, B)  BY DEF Surjection
    <2>3. QED  BY <2>1, <2>2, FS_Surjection
  <1>3. IsFiniteSet(batches)
    <2>1. batches \subseteq B  BY <1>1
    <2>2. QED  BY <1>2, <2>1, FS_Subset
  <1>4. ASSUME Cardinality(batches) <= 1, NEW m \in batches, NEW n \in batches, m # n
        PROVE  FALSE
    <2>1. Cardinality({m, n}) = 2
      <3>1. IsFiniteSet({m}) /\ Cardinality({m}) = 1  BY FS_Singleton
      <3>2. Cardinality({m} \cup {n}) = 2  BY <1>4, <3>1, FS_AddElement
      <3>3. {m} \cup {n} = {m, n}  OBVIOUS
      <3>4. QED  BY <3>2, <3>3
    <2>2. Cardinality({m, n}) <= Cardinality(batches)
      <3>1. {m, n} \subseteq batches  OBVIOUS
      <3>2. QED  BY <1>3, <3>1, FS_Subset
    <2>3. QED  BY <1>3, <1>4, <2>1, <2>2, FS_CardinalityType
  <1>5. QED  BY <1>1, <1>3, <1>4, FS_CardinalityType

\* The same of the next state.
LEMMA BatchCountNext ==
  (TypeOK => IsFiniteSet(batches) /\ Cardinality(batches) \in Nat)'
  <1>1. TypeOK => IsFiniteSet(batches) /\ Cardinality(batches) \in Nat
    BY BatchCount
  <1>2. QED  BY <1>1, PTL

\* What is calm was calm before: nothing of it ever comes back.
LEMMA CalmBefore ==
  ASSUME TypeOK, TypeOK', [Next]_vars, Calm'
  PROVE  Calm /\ redelivered' = redelivered
  <1> DEFINE Kept ==
        /\ readiness = 2
        /\ redelivered = 0
        /\ batches \subseteq batches'
        /\ \A p \in Provers : keyed[p] <= keyed'[p]
  <1>0. /\ readiness' = 2 /\ redelivered' = 0 /\ N = 3 /\ redelivered \in Nat
        /\ \A p \in Provers : keyed[p] \in Nat /\ keyed'[p] \in Nat
    BY DEF Calm, TypeOK, Session
  <1>1. ASSUME NEW p \in Provers, elected(p) PROVE Kept
    BY <1>0, <1>1 DEF elected, batches
  <1>2. ASSUME NEW p \in Provers, dkg_finish(p) PROVE Kept
    BY <1>0, <1>2 DEF dkg_finish, batches, TypeOK
  <1>3. ASSUME process_txn PROVE Kept
    <2>1. readiness = 2  BY <1>0, <1>3 DEF process_txn, TypeOK
    <2>2. sent \subseteq sent' /\ UNCHANGED <<redelivered, keyed>>
      BY <1>3 DEF process_txn
    <2>3. QED  BY <1>0, <2>1, <2>2 DEF batches
  <1>4. ASSUME NEW v \in Nodes, NEW m \in sent, handle(v, m) PROVE Kept
    <2>1. sent \subseteq sent' /\ UNCHANGED <<readiness, keyed>>
      BY <1>4 DEF handle, store_verification_shares, prove, process_partial_signature
    <2>2. redelivered' = redelivered \/ redelivered' = redelivered + 1
      BY <1>4 DEF handle, store_verification_shares, prove, process_partial_signature, Deliver
    <2>3. QED  BY <1>0, <2>1, <2>2 DEF batches
  <1>5. ASSUME UNCHANGED vars PROVE Kept  BY <1>0, <1>5 DEF vars, batches
  <1>6. Kept
    <2> HIDE DEF Kept
    <2>1. QED  BY <1>1, <1>2, <1>3, <1>4, <1>5 DEF Next
  <1>7. /\ IsFiniteSet(batches') /\ Cardinality(batches') \in Nat
        /\ IsFiniteSet(batches) /\ Cardinality(batches) \in Nat
    BY BatchCount, BatchCountNext
  <1>8. Cardinality(batches) <= Cardinality(batches')  BY <1>6, <1>7, FS_Subset
  <1>9. QED
    <2>1. Cardinality(batches') <= 1 /\ \A p \in Provers : keyed'[p] <= 1  BY DEF Calm
    <2>2. \A p \in Provers : keyed[p] <= 1  BY <1>0, <1>6, <2>1
    <2>3. Cardinality(batches) <= 1  BY <1>7, <1>8, <2>1
    <2>4. QED  BY <1>0, <1>6, <2>2, <2>3 DEF Calm

\* There are N provers.
LEMMA ProversCount == IsFiniteSet(Provers) /\ Cardinality(Provers) = N
  BY NAssumption, FS_Interval DEF Provers

\* The signatures that have come are at most one of each prover.
LEMMA SignedCount ==
  ASSUME N = 3
  PROVE  /\ IsFiniteSet(Signed) /\ Signed \subseteq Provers
         /\ Cardinality(Signed) >= 3 => Signed = Provers
  <1>1. IsFiniteSet(Provers) /\ Cardinality(Provers) = 3
    BY ProversCount
  <1>2. Signed \subseteq Provers  BY DEF Signed
  <1>3. IsFiniteSet(Signed) /\ Cardinality(Signed) <= 3 /\ Cardinality(Signed) \in Nat
    BY <1>1, <1>2, FS_Subset, FS_CardinalityType
  <1>4. Cardinality(Signed) = 3 => Signed = Provers
    BY <1>1, <1>2, FS_Subset
  <1>5. QED  BY <1>2, <1>3, <1>4

\* With full signatures of all, and all shares, the verifier's aggregation succeeds.
LEMMA AllAggregate ==
  ASSUME TypeOK, N = 3, NEW v \in VerifierState,
         v.group_key = 1, v.shares[0] = 0,
         \A q \in Provers : v.shares[q] = 1 /\ v.data[q] = FullSig
  PROVE  aggregates(v)
  <1>1. v.shares = AllShares
    <2>1. v.shares \in [0..N -> Session]  BY DEF VerifierState, Shares
    <2>2. AllShares = [i \in 0..N |-> v.shares[i]]  BY DEF AllShares, Provers
    <2>3. QED  BY <2>1, <2>2
  <1>2. signers(v.shares) = Provers  BY DEF signers, Provers
  <1>3. Cardinality(Provers) = 3  BY ProversCount
  <1>4. include_signers(v.shares, 3)  BY <1>2, <1>3 DEF include_signers
  <1>5. Cardinality(signers(v.shares)) >= calculate_threshold(N)
    BY <1>2, <1>3 DEF calculate_threshold
  <1>6. \A i \in signers(v.shares) :
          /\ v.data[i] = [gen |-> v.shares[i], group |-> v.group_key, signers |-> v.shares]
          /\ v.shares[i] = v.group_key
    BY <1>1, <1>2 DEF FullSig
  <1>7. QED  BY <1>4, <1>5, <1>6 DEF aggregates

\* A signature that comes is another prover's than those that have come.
LEMMA NewSignature ==
  ASSUME TypeOK, Calm, SentInv, NEW m \in sent, m.type = "BroadcastPartialSig",
         m \notin got[Verifier]
  PROVE  m.from \in Provers /\ m.from \notin Signed /\ m.sig = FullSig
  <1>1. /\ m.from \in Provers /\ m.sig = FullSig /\ Batch(m.batch) \in batches
        /\ m = [type |-> "BroadcastPartialSig", from |-> m.from, batch |-> m.batch,
                sig |-> m.sig]
    BY DEF TypeOK, Message, SentInv, Batch, batches
  <1>2. ASSUME NEW n \in got[Verifier], n.type = "BroadcastPartialSig", n.from = m.from
        PROVE  FALSE
    <2>1. n \in sent  BY DEF TypeOK, Nodes
    <2>2. /\ n.sig = FullSig /\ Batch(n.batch) \in batches
          /\ n = [type |-> "BroadcastPartialSig", from |-> n.from, batch |-> n.batch,
                  sig |-> n.sig]
      BY <1>2, <2>1 DEF TypeOK, Message, SentInv, Batch, batches
    <2>3. Batch(n.batch) = Batch(m.batch)  BY <1>1, <2>2, BatchCount DEF Calm
    <2>4. n.batch = m.batch  BY <2>3 DEF Batch
    <2>5. QED  BY <1>1, <1>2, <2>2, <2>4
  <1>3. QED  BY <1>1, <1>2 DEF Signed

\* The parts of the invariant are of these variables, and keep if these do.
LEMMA CountKept ==
  ASSUME CountInv, verifier'.status = verifier.status, verifier'.count = verifier.count,
         verifier'.data = verifier.data, Signed' = Signed
  PROVE  CountInv'
  BY DEF CountInv, VerifierUp

\* Only a partial signature that comes to the verifier changes whose have come.
LEMMA SignedKept ==
  ASSUME TypeOK, NEW v \in Nodes, NEW m \in sent, Deliver(v, m),
         v = Verifier => m.type # "BroadcastPartialSig"
  PROVE  Signed' = Signed
  <1>1. \/ got' = got
        \/ got' = [got EXCEPT ![v] = got[v] \cup {m}]
    BY DEF Deliver
  <1>2. DOMAIN got = Nodes /\ Verifier \in Nodes  BY DEF TypeOK, Nodes
  <1>3. got'[Verifier] \in {got[Verifier], got[Verifier] \cup {m}}
        /\ (v # Verifier => got'[Verifier] = got[Verifier])
    BY <1>1, <1>2
  <1>4. QED  BY <1>3 DEF Signed

\* dkg_finish ends the one session, before there is a batch.
LEMMA CalmFinish ==
  ASSUME TypeOK, OwnKeysInv, Calm, Calm', SentInv, SharesInv, CountInv,
         NEW p \in Provers, dkg_finish(p)
  PROVE  SentInv' /\ SharesInv' /\ CountInv'
  <1>1. /\ keyed' = [keyed EXCEPT ![p] = keyed[p] + 1] /\ keyed[p] \in Nat
        /\ keyed[p] + 1 <= 1
    <2>1. keyed' = [keyed EXCEPT ![p] = keyed[p] + 1] /\ keyed[p] \in Nat
      BY FinishFields DEF TypeOK, Session
    <2>2. keyed'[p] <= 1  BY DEF Calm
    <2>3. QED  BY <2>1, <2>2 DEF TypeOK
  <1>2. keyed[p] = 0 /\ keyed'[p] = 1  BY <1>1 DEF TypeOK
  <1>3. batches = {}  BY <1>2 DEF SharesInv
  <1>4. /\ sent' = sent \cup {[type |-> "GossipVerificationShares", from |-> p, gen |-> 1]}
        /\ UNCHANGED <<verifier, got>>
    BY <1>2 DEF dkg_finish
  <1>5. batches' = {}  BY <1>3, <1>4 DEF batches
  <1>6. SentInv'  BY <1>4 DEF SentInv
  <1>7. CountInv'  BY <1>4, CountKept DEF Signed
  <1>8. ASSUME NEW q \in Provers PROVE ProverShares(q)'
    <2>1. ProverShares(q) /\ q \in 0..N  BY NAssumption DEF SharesInv, Provers
    <2>2. CASE prover'[q] = prover[q]
      BY <1>5, <2>1, <2>2 DEF ProverShares
    <2>3. CASE q = p /\ Up(p)
      <3>1. prover[p].my_node_idx = p /\ prover[p] \in ProverState /\ 1 \in Session
        <4>1. prover[p].n # 0 /\ keyed[p] + 1 \in Session  BY <2>3, FinishFields
        <4>2. QED  BY <1>2, <2>3, <4>1 DEF OwnKeysInv, KeysInv, TypeOK
      <3>2. prover'[p] = store_group_key_and_shares(prover[p], 1)
        BY <1>2, <2>3, FinishFields
      <3>3. /\ prover'[p].shares[p] = 1
            /\ \A i \in 0..N : i # p => prover'[p].shares[i] = prover[p].shares[i]
        BY <3>1, <3>2, StoreFields
      <3>4. ASSUME NEW i \in Provers
            PROVE  prover'[q].shares[i] = 1 \/ prover'[q].shares[i] = 0
        <4>1. i \in 0..N  BY NAssumption DEF Provers
        <4>2. QED  BY <2>1, <2>3, <3>3, <4>1 DEF ProverShares
      <3>5. QED  BY <1>5, <3>4 DEF ProverShares
    <2>4. QED  BY <2>2, <2>3, FinishFields
  <1>9. VerifierShares'  BY <1>4, <1>3, <1>5 DEF VerifierShares, SharesInv
  <1>10. QED  BY <1>5, <1>6, <1>7, <1>8, <1>9 DEF SharesInv

\* A batch is sent when all have all shares.
LEMMA CalmBatch ==
  ASSUME TypeOK, Calm, Calm', SentInv, SharesInv, CountInv, process_txn
  PROVE  SentInv' /\ SharesInv' /\ CountInv'
  <1>1. /\ Shared /\ UNCHANGED <<prover, verifier, keyed, got>>
        /\ \E b : sent' = sent \cup {Batch(b)}
    BY DEF process_txn, Calm
  <1>2. PICK g \in 1..MaxSession :
          /\ \A p, q \in Provers : keyed[p] = g /\ prover[p].shares[q] = g
          /\ \A q \in Provers : verifier.shares[q] = g
    BY <1>1 DEF Shared
  <1>3. 1 \in Provers  BY NAssumption DEF Provers
  <1>4. g = 1
    <2>1. keyed[1] = g /\ keyed[1] <= 1 /\ g \in 1..MaxSession  BY <1>2, <1>3 DEF Calm
    <2>2. QED  BY <2>1, SigningBounds
  <1>5. SentInv'  BY <1>1 DEF SentInv, Batch
  <1>6. SharesInv'
    <2>1. \A p, q \in Provers : keyed'[p] = 1 /\ prover'[p].shares[q] = 1
      BY <1>1, <1>2, <1>4
    <2>2. \A q \in Provers : verifier.shares[q] = 1  BY <1>2, <1>4
    <2>3. VerifierShares'
      BY <1>1, <1>3, <2>2 DEF SharesInv, VerifierShares
    <2>4. QED  BY <2>1, <2>3 DEF SharesInv, ProverShares
  <1>7. QED  BY <1>1, <1>5, <1>6, CountKept DEF Signed

\* Shares that come are of the one session.
LEMMA CalmShares ==
  ASSUME TypeOK, Calm, SentInv, SharesInv, CountInv,
         NEW v \in Nodes, NEW m \in sent, store_verification_shares(v, m)
  PROVE  SentInv' /\ SharesInv' /\ CountInv'
  <1>1. /\ m.type = "GossipVerificationShares" /\ m.gen = 1 /\ Deliver(v, m)
        /\ m.from \in Provers /\ 1 \in Session /\ UNCHANGED <<keyed, sent>>
    BY SharesFields DEF store_verification_shares, SentInv
  <1>2. batches' = batches  BY <1>1 DEF batches
  <1>3. Signed' = Signed  BY <1>1, SignedKept
  <1>4. m.from # 0 /\ m.from \in 0..N  BY <1>1, NAssumption DEF Provers
  <1>5. SentInv'  BY <1>1 DEF SentInv
  <1>6. ASSUME NEW q \in Provers PROVE ProverShares(q)'
    <2>1. ProverShares(q) /\ prover[q] \in ProverState  BY DEF SharesInv, TypeOK
    <2>2. CASE prover'[q] = prover[q]  BY <1>2, <2>1, <2>2 DEF ProverShares
    <2>3. CASE prover'[q] = add_verification_shares(prover[q], m.from, 1)
      <3>1. prover'[q].shares = [prover[q].shares EXCEPT ![m.from] = 1]
        BY <2>1, <2>3 DEF add_verification_shares, ProverState
      <3>2. prover[q].shares \in [0..N -> Session]
        BY <2>1 DEF ProverState, Shares
      <3>3. ASSUME NEW i \in Provers
            PROVE  prover'[q].shares[i] \in {1, prover[q].shares[i]}
        BY <3>1, <3>2, NAssumption DEF Provers
      <3>4. QED  BY <1>2, <2>1, <3>3 DEF ProverShares
    <2>4. QED  BY <1>1, <2>2, <2>3, SharesFields
  <1>7. /\ verifier'.status = verifier.status /\ verifier'.count = verifier.count
        /\ verifier'.data = verifier.data
        /\ \/ verifier'.shares = verifier.shares /\ verifier'.group_key = verifier.group_key
           \/ /\ verifier'.shares = [verifier.shares EXCEPT ![m.from] = 1]
              /\ verifier'.group_key = IF verifier.group_key = 0 THEN 1 ELSE verifier.group_key
    <2>1. verifier' = verifier \/ verifier' = add_verification_shares(verifier, m.from, 1)
      BY <1>1 DEF store_verification_shares
    <2>2. verifier \in VerifierState  BY DEF TypeOK
    <2>3. QED  BY <2>1, <2>2 DEF add_verification_shares, VerifierState
  <1>8. VerifierShares'
    <2>1. VerifierShares /\ verifier.shares \in [0..N -> Session]
      BY DEF SharesInv, TypeOK, VerifierState, Shares
    <2>2. CASE verifier'.shares = verifier.shares /\ verifier'.group_key = verifier.group_key
      BY <1>2, <2>1, <2>2 DEF VerifierShares
    <2>3. CASE /\ verifier'.shares = [verifier.shares EXCEPT ![m.from] = 1]
               /\ verifier'.group_key = IF verifier.group_key = 0 THEN 1
                                         ELSE verifier.group_key
      <3>1. verifier'.group_key = 1  BY <2>1, <2>3 DEF VerifierShares
      <3>2. verifier'.shares[0] = 0
        BY <1>4, <2>1, <2>3, NAssumption DEF VerifierShares
      <3>3. ASSUME NEW i \in Provers
            PROVE  verifier'.shares[i] \in {1, verifier.shares[i]}
        BY <2>1, <2>3, NAssumption DEF Provers
      <3>4. QED  BY <1>2, <2>1, <3>1, <3>2, <3>3 DEF VerifierShares
    <2>4. QED  BY <1>7, <2>2, <2>3
  <1>9. CountInv'  BY <1>3, <1>7, CountKept
  <1>10. QED  BY <1>1, <1>2, <1>5, <1>6, <1>8, <1>9 DEF SharesInv

\* A batch makes a prover sign with all shares.
LEMMA CalmProve ==
  ASSUME TypeOK, OwnKeysInv, Calm, SentInv, SharesInv, CountInv,
         NEW v \in Nodes, NEW m \in sent, prove(v, m)
  PROVE  SentInv' /\ SharesInv' /\ CountInv'
  <1>1. /\ v \in Provers /\ v # Verifier /\ Deliver(v, m) /\ m.type = "GossipTransactions"
        /\ UNCHANGED <<keyed, verifier>>
    BY DEF prove, Nodes
  <1>2. m = Batch(m.batch) /\ m \in batches
    BY <1>1 DEF TypeOK, Message, Batch, batches
  <1>3. \/ sent' = sent
        \/ /\ prover[v].status = "up"
           /\ sent' = sent \cup {[type |-> "BroadcastPartialSig", from |-> v,
                                 batch |-> m.batch, sig |-> sign(v)]}
    BY DEF prove
  <1>4. prover[v].status = "up" => sign(v) = FullSig
    <2>1. SUFFICES ASSUME Up(v) PROVE sign(v) = FullSig
      BY DEF Up
    <2>2. /\ keyed[v] = 1 /\ \A q \in Provers : prover[v].shares[q] = 1
      BY <1>1, <1>2 DEF SharesInv, ProverShares
    <2>3. /\ prover[v].signing_key = 1 /\ prover[v].group_key = 1 /\ prover[v].shares[0] = 0
      BY <1>1, <2>1, <2>2 DEF OwnKeysInv, KeysInv
    <2>4. prover[v].shares \in [0..N -> Session]
      BY <1>1 DEF TypeOK, ProverState, Shares
    <2>5. AllShares = [i \in 0..N |-> prover[v].shares[i]]
      BY <2>2, <2>3 DEF AllShares, Provers
    <2>6. QED  BY <2>3, <2>4, <2>5 DEF sign, FullSig
  <1>5. SentInv'  BY <1>2, <1>3, <1>4 DEF SentInv
  <1>6. batches' = batches  BY <1>3 DEF batches
  <1>7. \A q \in Provers : prover'[q].shares = prover[q].shares
    <2>1. \A q \in Provers : prover'[q] = prover[q] \/ prover'[q] = panic(prover[q])
      BY ProveFields
    <2>2. QED  BY <2>1 DEF panic, TypeOK, ProverState
  <1>8. SharesInv'
    BY <1>1, <1>6, <1>7 DEF SharesInv, ProverShares, VerifierShares
  <1>9. CountInv'  BY <1>1, SignedKept, CountKept
  <1>10. QED  BY <1>5, <1>8, <1>9

\* A signature that comes is counted once, and the last of them makes the verifier
\* aggregate the signatures of all.
LEMMA CalmSignature ==
  ASSUME TypeOK, Calm, SentInv, SharesInv, CountInv, redelivered' = redelivered,
         NEW m \in sent, process_partial_signature(m)
  PROVE  SentInv' /\ SharesInv' /\ CountInv'
  <1> DEFINE v == push_signature(verifier, m)
  <1>1. /\ m.type = "BroadcastPartialSig" /\ UNCHANGED <<prover, keyed, sent>>
        /\ \/ ~enough(v) /\ verifier' = v
           \/ enough(v) /\ aggregates(v) /\ verifier' = v
           \/ enough(v) /\ ~aggregates(v)
    BY Zenon DEF process_partial_signature, CountInv, VerifierUp
  <1>2. m \notin got[Verifier] /\ got' = [got EXCEPT ![Verifier] = got[Verifier] \cup {m}]
    BY DEF process_partial_signature, Deliver, TypeOK
  <1>3. m.from \in Provers /\ m.from \notin Signed /\ m.sig = FullSig
    BY <1>1, <1>2, NewSignature
  <1>4. Signed' = Signed \cup {m.from}
    <2>1. got'[Verifier] = got[Verifier] \cup {m}  BY <1>2 DEF TypeOK, Nodes
    <2>2. QED  BY <1>1, <1>3, <2>1 DEF Signed
  <1>5. Cardinality(Signed') = Cardinality(Signed) + 1
    BY <1>3, <1>4, SignedCount, FS_AddElement DEF Calm
  <1>6. verifier \in VerifierState  BY DEF TypeOK
  <1>7. /\ v.status = "up" /\ v.shares = verifier.shares /\ v.group_key = verifier.group_key
        /\ v.count = Cardinality(Signed')
        /\ v.data = [verifier.data EXCEPT ![m.from] = FullSig]
    BY <1>3, <1>5, <1>6 DEF push_signature, VerifierState, CountInv, VerifierUp
  <1>8. \A p \in Signed' : v.data[p] = FullSig
    BY <1>3, <1>4, <1>6, <1>7 DEF CountInv, VerifierState, Signed
  <1>9. v \in VerifierState
    <2>1. m.sig \in PartialSig  BY <1>1 DEF TypeOK, Message
    <2>2. v.data \in [Provers -> PartialSig]  BY <1>3, <1>6, <1>7, <2>1 DEF VerifierState
    <2>3. verifier.count + 1 \in Nat  BY <1>6 DEF VerifierState
    <2>4. v = [verifier EXCEPT !.count = verifier.count + 1, !.data = v.data]
      BY <1>6 DEF push_signature, VerifierState
    <2> HIDE DEF v
    <2>5. QED  BY <1>6, <2>2, <2>3, <2>4 DEF VerifierState
  <1> HIDE DEF v
  <1>10. ASSUME enough(v) PROVE aggregates(v)
    <2>1. Cardinality(Signed') >= 3  BY <1>7, <1>10 DEF enough
    <2>2. Signed' = Provers
      <3>1. Signed' \subseteq Provers  BY <1>3, <1>4, SignedCount DEF Calm
      <3>2. IsFiniteSet(Provers) /\ Cardinality(Provers) = 3
        BY ProversCount DEF Calm
      <3>3. IsFiniteSet(Signed') /\ Cardinality(Signed') <= 3 /\ Cardinality(Signed') \in Nat
        BY <3>1, <3>2, FS_Subset, FS_CardinalityType
      <3>4. QED  BY <2>1, <3>1, <3>2, <3>3, FS_Subset
    <2>3. batches # {}
      <3>1. Batch(m.batch) \in sent  BY <1>1 DEF SentInv
      <3>2. QED  BY <3>1 DEF batches, Batch
    <2>4. /\ v.group_key = 1 /\ v.shares[0] = 0
          /\ \A q \in Provers : v.shares[q] = 1 /\ v.data[q] = FullSig
      <3>1. 1 \in Provers  BY NAssumption DEF Provers
      <3>2. QED  BY <1>7, <1>8, <2>2, <2>3, <3>1 DEF SharesInv, VerifierShares
    <2>5. QED  BY <1>9, <2>4, AllAggregate DEF Calm
  <1>11. verifier' = v  BY <1>1, <1>10
  <1>12. CountInv'  BY <1>7, <1>8, <1>11 DEF CountInv, VerifierUp
  <1>13. SentInv' /\ SharesInv'
    BY <1>1, <1>7, <1>11 DEF SentInv, SharesInv, ProverShares, VerifierShares, batches
  <1>14. QED  BY <1>12, <1>13

\* Every step preserves the invariant.
LEMMA CalmStep ==
  TypeOK /\ TypeOK' /\ OwnKeysInv /\ CalmInv /\ [Next]_vars => CalmInv'
  <1> SUFFICES ASSUME TypeOK, TypeOK', OwnKeysInv, CalmInv, [Next]_vars, Calm'
               PROVE  SentInv' /\ SharesInv' /\ CountInv'
    BY DEF CalmInv
  <1>1. Calm /\ redelivered' = redelivered  BY CalmBefore
  <1>2. SentInv /\ SharesInv /\ CountInv  BY <1>1 DEF CalmInv
  <1>3. ASSUME NEW p \in Provers, elected(p) PROVE SentInv' /\ SharesInv' /\ CountInv'
    <2>1. /\ UNCHANGED <<verifier, keyed, sent, got>>
          /\ \A q \in Provers : prover'[q].shares = prover[q].shares
      BY <1>3, ElectedFields DEF elected
    <2>2. SentInv' /\ SharesInv'
      BY <1>2, <2>1 DEF SentInv, SharesInv, ProverShares, VerifierShares, batches
    <2>3. QED  BY <1>2, <2>1, <2>2, CountKept DEF Signed
  <1>4. CASE UNCHANGED vars
    <2>1. SentInv' /\ SharesInv'
      BY <1>2, <1>4 DEF vars, SentInv, SharesInv, ProverShares, VerifierShares, batches
    <2>2. QED  BY <1>2, <1>4, <2>1, CountKept DEF vars, Signed
  <1>5. QED
    BY <1>1, <1>2, <1>3, <1>4, CalmFinish, CalmBatch, CalmShares, CalmProve, CalmSignature
    DEF Next, handle

\* The verifier does not die of the signatures of one batch that was sent when all had
\* all shares: each counts once, all are made with all shares, and so they aggregate.
THEOREM VerifierSurvivesCorrect == Spec => []VerifierSurvives
  <1>1. Init => OwnKeysInv /\ CalmInv
    <2> SUFFICES ASSUME Init PROVE OwnKeysInv /\ CalmInv
      OBVIOUS
    <2>1. OwnKeysInv
      BY NAssumption DEF Init, OwnKeysInv, KeysInv, NoShares
    <2>2. sent = {} /\ batches = {}  BY DEF Init, batches
    <2>3. SentInv /\ SharesInv
      BY <2>2, NAssumption
      DEF Init, SentInv, SharesInv, ProverShares, VerifierShares, NoShares, Provers
    <2>4. Signed = {}  BY DEF Init, Signed, Nodes
    <2>5. CountInv
      BY <2>4, FS_EmptySet DEF Init, CountInv, VerifierUp
    <2>6. QED  BY <2>1, <2>3, <2>5 DEF CalmInv
  <1>2. CalmInv => VerifierSurvives
    BY DEF CalmInv, CountInv, VerifierSurvives, Calm
  <1>3. QED  BY <1>1, <1>2, KeysStep, CalmStep, TypeCorrect, PTL DEF Spec
=============================================================================
