------------------------------ MODULE AppState ------------------------------
(***************************************************************************)
(* What the provers and the verifier do with the keys: the AppState actors *)
(* (actors/src/app_state_actor.rs), from the announcement of the elected   *)
(* provers over the key shares and the batches of transactions to the      *)
(* partial signatures that the verifier aggregates.                        *)
(*                                                                         *)
(* Key generation is taken as the DkgEngine module leaves it when elections*)
(* do not overlap: in session g every prover ends with a share of one key. *)
(* Everything made in a session is named by it: the group key, a prover's  *)
(* signing key, its list of nonces and what it publishes of them.  Casts   *)
(* between the actors of a node are handled as they are made: they queue   *)
(* in the mailbox of the AppState actor ahead of what the network brings   *)
(* later, and nothing else reads that actor's state.                       *)
(*                                                                         *)
(* `accounts' starts empty and the guest adds none, so that every batch    *)
(* proves the same state root, and all signatures are filed under it.      *)
(***************************************************************************)
EXTENDS Naturals, FiniteSets

CONSTANTS
  N,              \* how many provers are elected; they are 1 .. N
  MaxSession,     \* bound: key generations
  MaxBatch,       \* bound: batches of transactions sent to the relay's RPC
  MaxRedelivery   \* bound: messages handed to a listener once more

ASSUME NAssumption == N \in Nat \ {0}
ASSUME SigningBounds == MaxSession \in Nat /\ MaxBatch \in Nat /\ MaxRedelivery \in Nat

Provers == 1..N
Verifier == N + 1
Nodes == Provers \cup {Verifier}

VARIABLES
  prover,       \* prover[p]: the NodeState::Prover of p, or that its actor died
  verifier,     \* the NodeState::Verifier, or that its actor died
  keyed,        \* keyed[p]: how many key pairs p's DkgEngine has made
  sent,         \* the messages gossiped so far
  got,          \* got[v]: the messages handed to node v so far
  redelivered,  \* how many messages were handed over once more
  readiness,    \* what every batch could rely on when it was sent (history)
  verified      \* the sets of signers whose threshold signature verified (history)

vars == <<prover, verifier, keyed, sent, got, redelivered, readiness, verified>>

-----------------------------------------------------------------------------
\* A session, or 0 for none.
Session == 0..MaxSession

\* The shares a node holds: of which session, by the index they are filed under.
\* Only a prover's own can be filed under an index that is not its key's: 0.
Shares == [0..N -> Session]
NoShares == [i \in 0..N |-> 0]

\* A partial signature: the session of the signing key and the nonce, and the signers
\* and the group key that the signer computed its binding factor and challenge from.
PartialSig == [gen : Session, group : Session, signers : Shares]
NoSig == [gen |-> 0, group |-> 0, signers |-> NoShares]

Message ==
  [type : {"GossipVerificationShares"}, from : Provers, gen : Session]
    \cup [type : {"GossipTransactions"}, batch : 1..MaxBatch]
    \cup [type : {"BroadcastPartialSig"}, from : Provers, batch : 1..MaxBatch,
          sig : PartialSig]

\* signing_key, sk_list and pk_list are set together: `signing_key' is their session.
ProverState ==
  [status : {"up", "dead"}, my_node_idx : 0..N, n : {0, N},
   group_key : Session, signing_key : Session, shares : Shares]

\* data: how many signatures the list for the root holds, and the last of each signer.
VerifierState ==
  [status : {"up", "dead"}, group_key : Session, shares : Shares,
   count : Nat, data : [Provers -> PartialSig]]

Init ==
  /\ prover = [p \in Provers |->
       [status |-> "up", my_node_idx |-> 0, n |-> 0,
        group_key |-> 0, signing_key |-> 0, shares |-> NoShares]]
  /\ verifier = [status |-> "up", group_key |-> 0, shares |-> NoShares,
                 count |-> 0, data |-> [p \in Provers |-> NoSig]]
  /\ keyed = [p \in Provers |-> 0]
  /\ sent = {}
  /\ got = [v \in Nodes |-> {}]
  /\ redelivered = 0
  /\ readiness = 2
  /\ verified = {}

-----------------------------------------------------------------------------
calculate_threshold(n) == (n + 1) \div 2

\* The indices under which shares are filed.
signers(shares) == {i \in 0..N : shares[i] # 0}

\* Everybody has a key pair; and everybody has everybody's share of the last session.
Keyed == \A p \in Provers : prover[p].signing_key # 0
Shared ==
  \E g \in 1..MaxSession :
    /\ \A p, q \in Provers : keyed[p] = g /\ prover[p].shares[q] = g
    /\ \A q \in Provers : verifier.shares[q] = g

\* Mutant of elected: the index is counted from one once more.
elected_next(p) ==
  /\ prover[p].n = 0 /\ prover[p].status = "up"
  /\ prover' = [prover EXCEPT ![p].n = N, ![p].my_node_idx = p + 1]
  /\ UNCHANGED <<verifier, keyed, sent, got, redelivered, readiness, verified>>

\* ElectedProvers reaches p: UpdatedThreshold, and UpdateNodeIdx from the election
\* actor, which casts it with the Init that starts the key generation.
elected(p) ==
  /\ prover[p].n = 0 /\ prover[p].status = "up"
  /\ prover' = [prover EXCEPT ![p].n = N, ![p].my_node_idx = p]
  /\ UNCHANGED <<verifier, keyed, sent, got, redelivered, readiness, verified>>

\* Mutant of store_group_key_and_shares: the signing key is kept, the shares are not.
store_group_key_only(s, g) == [s EXCEPT !.group_key = g, !.signing_key = g]

\* The key pair of session g, whose public part is filed under the index p was given.
store_group_key_and_shares(s, g) ==
  [s EXCEPT !.group_key = g, !.signing_key = g, !.shares[s.my_node_idx] = g]

\* p's DkgEngine ends a session: it casts StoreKeyShares and gossips what the others
\* need of p to sign and to verify.  Nobody ends one before all have ended the last.
dkg_finish(p) ==
  /\ \A q \in Provers : prover[q].n # 0 \/ prover[q].status = "dead"
  /\ keyed[p] < MaxSession
  /\ \A q \in Provers : keyed[p] <= keyed[q]
  /\ keyed' = [keyed EXCEPT ![p] = @ + 1]
  /\ sent' = sent \cup {[type |-> "GossipVerificationShares", from |-> p, gen |-> keyed'[p]]}
  /\ \/ /\ prover[p].status = "up"
        /\ prover' = [prover EXCEPT ![p] = store_group_key_and_shares(@, keyed'[p])]
     \/ /\ prover[p].status = "dead"
        /\ UNCHANGED prover
  /\ UNCHANGED <<verifier, got, redelivered, readiness, verified>>

Batch(b) == [type |-> "GossipTransactions", batch |-> b]

\* The relay's RPC gossips a batch, whenever a user sends one.
process_txn ==
  \E b \in 1..MaxBatch :
    /\ Batch(b) \notin sent /\ \A c \in 1..(b - 1) : Batch(c) \in sent
    /\ sent' = sent \cup {Batch(b)}
    /\ readiness' = CASE ~Keyed -> 0
                      [] Keyed /\ ~Shared -> IF readiness = 0 THEN 0 ELSE 1
                      [] OTHER -> readiness
    /\ UNCHANGED <<prover, verifier, keyed, got, redelivered, verified>>

\* m reaches node v: for the first time, or again once gossipsub's duplicate cache has
\* forgotten it.  A node never gets its own.
Deliver(v, m) ==
  /\ m.type # "GossipTransactions" => m.from # v
  /\ \/ /\ m \notin got[v]
        /\ got' = [got EXCEPT ![v] = @ \cup {m}]
        /\ UNCHANGED redelivered
     \/ /\ m \in got[v]
        /\ redelivered < MaxRedelivery
        /\ redelivered' = redelivered + 1
        /\ UNCHANGED got

\* Mutant of add_verification_shares: the group key is taken from whoever comes last.
replace_group_key(s, q, g) == [s EXCEPT !.shares[q] = g, !.group_key = g]

\* The first group key that comes is kept.
add_verification_shares(s, q, g) ==
  [s EXCEPT !.shares[q] = g, !.group_key = IF @ = 0 THEN g ELSE @]

store_verification_shares(v, m) ==
  /\ m.type = "GossipVerificationShares"
  /\ Deliver(v, m)
  /\ \/ /\ v # Verifier /\ prover[v].status = "up"
        /\ prover' = [prover EXCEPT ![v] = add_verification_shares(@, m.from, m.gen)]
        /\ UNCHANGED verifier
     \/ /\ v # Verifier /\ prover[v].status = "dead"
        /\ UNCHANGED <<prover, verifier>>
     \/ /\ v = Verifier /\ verifier.status = "up"
        /\ verifier' = add_verification_shares(verifier, m.from, m.gen)
        /\ UNCHANGED prover
     \/ /\ v = Verifier /\ verifier.status = "dead"
        /\ UNCHANGED <<prover, verifier>>
  /\ UNCHANGED <<keyed, sent, readiness, verified>>

\* A handler panics, which stops the actor.
panic(s) == [s EXCEPT !.status = "dead"]

\* Every include_signer succeeds: no share is filed under an index that is not its
\* key's, and the aggregator's parameters allow for that many signers.
include_signers(shares, n) ==
  shares[0] = 0 /\ Cardinality(signers(shares)) <= n

\* What prove unwraps: the group key, the nonces, the threshold parameters, every
\* include_signer, and sign, which looks for itself among the signers.
can_sign(p) ==
  /\ prover[p].group_key # 0 /\ prover[p].signing_key # 0
  /\ prover[p].n # 0
  /\ include_signers(prover[p].shares, prover[p].n)
  /\ prover[p].shares[p] # 0

sign(p) ==
  [gen |-> prover[p].signing_key, group |-> prover[p].group_key,
   signers |-> prover[p].shares]

\* A batch reaches p: it is proved, signed with the first nonce of the list (a copy of
\* which is used up) among the signers known by now, and the signature is broadcast.
prove(p, m) ==
  /\ m.type = "GossipTransactions"
  /\ p # Verifier
  /\ Deliver(p, m)
  /\ \/ /\ prover[p].status = "up" /\ can_sign(p)
        /\ sent' = sent \cup
             {[type |-> "BroadcastPartialSig", from |-> p, batch |-> m.batch,
               sig |-> sign(p)]}
        /\ UNCHANGED prover
     \/ /\ prover[p].status = "up" /\ ~can_sign(p)
        /\ prover' = [prover EXCEPT ![p] = panic(@)]
        /\ UNCHANGED sent
     \/ /\ prover[p].status = "dead"
        /\ UNCHANGED <<prover, sent>>
  /\ UNCHANGED <<verifier, keyed, readiness, verified>>

\* finalize() and aggregate() succeed over the verifier's signers: each has signed, as
\* the verifier sees the signers and the group key, with the key and the nonce whose
\* public parts the verifier has; and there are enough of them to make up the group key.
aggregates(v) ==
  LET S == signers(v.shares) IN
  /\ v.group_key # 0
  /\ include_signers(v.shares, 3)
  /\ Cardinality(S) >= calculate_threshold(N)
  /\ \A i \in S :
       /\ v.data[i] = [gen |-> v.shares[i], group |-> v.group_key, signers |-> v.shares]
       /\ v.shares[i] = v.group_key

\* Mutants of enough: off by one to either side.
enough_two(v) == v.count >= 2
enough_four(v) == v.count > 3

enough(v) == v.count >= 3

push_signature(s, m) == [s EXCEPT !.count = @ + 1, !.data[m.from] = m.sig]

\* A partial signature reaches the verifier.  From the third on, whoever they are from,
\* each makes it aggregate all it has; it does not survive a failure.
process_partial_signature(m) ==
  /\ m.type = "BroadcastPartialSig"
  /\ Deliver(Verifier, m)
  /\ LET v == push_signature(verifier, m) IN
     \/ /\ verifier.status = "up" /\ ~enough(v)
        /\ verifier' = v
        /\ UNCHANGED verified
     \/ /\ verifier.status = "up" /\ enough(v) /\ aggregates(v)
        /\ verifier' = v
        /\ verified' = verified \cup {signers(v.shares)}
     \/ /\ verifier.status = "up" /\ enough(v) /\ ~aggregates(v)
        /\ verifier' = panic(verifier)
        /\ UNCHANGED verified
     \/ /\ verifier.status = "dead"
        /\ UNCHANGED <<verifier, verified>>
  /\ UNCHANGED <<prover, keyed, sent, readiness>>

handle(v, m) ==
  store_verification_shares(v, m) \/ prove(v, m) \/ (v = Verifier /\ process_partial_signature(m))

Next ==
  \/ \E p \in Provers : elected(p) \/ dkg_finish(p)
  \/ process_txn
  \/ \E v \in Nodes : \E m \in sent : handle(v, m)

Spec == Init /\ [][Next]_vars

(***************************************************************************)
(* What is published reaches everybody, and every task of a node is        *)
(* scheduled.  Nothing obliges anybody to send a batch.                    *)
(***************************************************************************)
receive(v) == \E m \in sent \ got[v] : handle(v, m)

Fairness ==
  /\ \A p \in Provers : WF_vars(elected(p)) /\ WF_vars(dkg_finish(p))
  /\ \A v \in Nodes : WF_vars(receive(v))

FairSpec == Spec /\ Fairness

-----------------------------------------------------------------------------
(***************************************************************************)
(* Properties.                                                             *)
(***************************************************************************)
TypeOK ==
  /\ prover \in [Provers -> ProverState]
  /\ verifier \in VerifierState
  /\ keyed \in [Provers -> Session]
  /\ sent \subseteq Message
  /\ got \in [Nodes -> SUBSET sent]
  /\ redelivered \in 0..MaxRedelivery
  /\ readiness \in 0..2
  /\ verified \subseteq SUBSET Provers

batches == {m \in sent : m.type = "GossipTransactions"}

Up(p) == prover[p].status = "up"
VerifierUp == verifier.status = "up"

\* What a prover signs with belongs together, in whatever order the shares of the other
\* provers come, of this session or late ones of the last: its signing key, the group
\* key, and its own share, filed under its index (store_group_key_and_shares).
OwnKeys ==
  \A p \in Provers : Up(p) /\ keyed[p] # 0 =>
    /\ prover[p].signing_key = keyed[p] /\ prover[p].group_key = keyed[p]
    /\ prover[p].shares[p] = keyed[p] /\ prover[p].shares[0] = 0

\* No prover dies of a batch (the unwraps of prove) that was sent when all had keys.
ProversSurvive == readiness # 0 => \A p \in Provers : Up(p)

\* The verifier does not die of the signatures of one batch, if the batch was sent when
\* all had all shares of one session, no message came twice, and it is a verifier for
\* as many provers as ThresholdParameters::new(3, 2) says.
VerifierSurvives ==
  /\ N = 3 /\ readiness = 2 /\ redelivered = 0
  /\ Cardinality(batches) <= 1 /\ \A p \in Provers : keyed[p] <= 1
  => VerifierUp

\* A batch that was sent when all had all shares of a session ends with a threshold
\* signature of all the provers that verifies.
EventuallyVerified == (batches # {} /\ readiness = 2) ~> (verified = {Provers})

\* When all have all shares of a session, the verifier aggregates them for the group key
\* of that session (store_verification_shares keeps the first group key that came).
GroupKeyOfSigners == Shared => \A p \in Provers : verifier.shares[p] = verifier.group_key
=============================================================================
