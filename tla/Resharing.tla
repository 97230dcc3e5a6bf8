----------------------------- MODULE Resharing -----------------------------
(***************************************************************************)
(* Resharing a group key from its holders, the dealers, to new signers     *)
(* (Participant::reshare of ice-frost/src/dkg/participant.rs and           *)
(* DistributedKeyGeneration::new of dkg/key_generation.rs), with dealers   *)
(* that deal another secret, another degree, a wrong proof or wrong        *)
(* shares, and with signers that complain without a cause.                 *)
(*                                                                         *)
(* Dealers and signers are numbered apart, each from one: the same number  *)
(* may be a dealer and a signer that have nothing to do with each other.   *)
(* The callers keep to what the library asks of them, as in KeyGeneration; *)
(* the dealers are given the new parameters, the signers the old ones.     *)
(***************************************************************************)
EXTENDS SecretSharing

CONSTANTS
  N, T,          \* the old ThresholdParameters
  N2, T2,        \* the new ones
  OldRandoms,    \* what the coefficients of the old key are drawn from
  Randoms,       \* what the dealers' random coefficients are drawn from
  Nonces,        \* the nonces of proofs
  Hashes,        \* the values of hashes
  MaxFaulty,     \* bound: dealers and signers that misbehave
  MaxDishonest,  \* bound: signers that misbehave
  MaxFalse       \* bound: complaints that these make

ASSUME ParametersAssumption ==
  /\ N \in Nat /\ T \in Nat /\ 1 <= T /\ T <= N
  /\ N2 \in Nat /\ T2 \in Nat /\ 1 <= T2 /\ T2 <= N2
  /\ N < Q /\ N2 < Q  \* An index is a u32, and Q has some 250 bits.
  /\ OldRandoms \subseteq Scalar /\ Randoms \subseteq Scalar /\ Nonces \subseteq Scalar
  /\ Hashes \subseteq Scalar \ {0}
  /\ MaxFaulty \in Nat /\ MaxDishonest \in Nat /\ MaxFalse \in Nat

Dealers == 1..N
Signers == 1..N2

VARIABLES
  polynomial,  \* the coefficients of the polynomial whose values are the dealers' keys
  faulty,      \* which dealers misbehave
  dishonest,   \* which signers misbehave
  unproved,    \* whose proof of the Diffie-Hellman key is wrong, of these
  deal,        \* deal[d]: what dealer d has dealt
  state,       \* state[j]: the DistributedKeyGeneration of signer j
  complaints   \* all complaints made so far

cast == <<polynomial, faulty, dishonest, unproved>>
vars == <<cast, deal, state, complaints>>

HonestDealers == Dealers \ faulty
Honest == Signers \ dishonest

-----------------------------------------------------------------------------
\* A share: what the dealer's coefficients say, something else, or undecryptable.
EncryptedShare == {"right", "off", "garbled"}
Share == {"none", "right", "off"}

Proof == [s : Nat \X Scalar \X Scalar, h : Scalar, r : Scalar]
Deal == [coefficients : Seq(Scalar), proof : {<<>>} \cup Proof]
NoDeal == [coefficients |-> <<>>, proof |-> <<>>]

\* Named by the receiver and the sender of the share it is about: a signer and a dealer.
Complaint ==
  [maker : Signers, accused : 0..(N + 1), proof : BOOLEAN, share : EncryptedShare]

State ==
  [status : {"start", "round_one", "round_two", "blamed", "finished", "aborted"},
   n : {0} \cup T..N,
   their_commitments : SUBSET Dealers,
   my_secret_shares : [Dealers -> Share]]

Init ==
  /\ polynomial \in [1..T -> OldRandoms]
  /\ faulty \in {F \in SUBSET Dealers : Cardinality(F) <= MaxFaulty}
  /\ dishonest \in {F \in SUBSET Signers : Cardinality(F) <= MaxDishonest}
  /\ Cardinality(faulty) + Cardinality(dishonest) <= MaxFaulty
  /\ unproved \in SUBSET dishonest
  /\ deal = [d \in Dealers |-> NoDeal]
  /\ state = [j \in Signers |->
       [status |-> "start", n |-> 0, their_commitments |-> {},
        my_secret_shares |-> [d \in Dealers |-> "none"]]]
  /\ complaints = {}

-----------------------------------------------------------------------------
\* The dealers' keys, as key generation leaves them.
secret_key(d) == evaluate_polynomial(d, polynomial)

Dealt(d) == deal[d].coefficients # <<>>
commitments(d) == Commitments(deal[d].coefficients)

\* Mutant of enough_signers: one more is asked for.
enough_signers_more == Cardinality(Signers \ unproved) > T2

\* The shares are made for all signers listed, if enough of them have a valid proof.
enough_signers == Cardinality(Signers \ unproved) >= T2

\* Dealer d publishes commitments to these coefficients, and a proof.  The dealers do not
\* wait for each other; as nobody looks before all have dealt, they deal by their numbers.
publish(d, coefficients, proof) ==
  /\ ~Dealt(d) /\ \A e \in 1..(d - 1) : Dealt(e)
  /\ enough_signers
  /\ deal' = [deal EXCEPT ![d] = [coefficients |-> coefficients, proof |-> proof]]
  /\ UNCHANGED <<cast, state, complaints>>

\* The coefficients after the first.
Rest(degree) == [1..(degree - 1) -> Randoms]

proof_of(d, secret, coefficients, k, h) ==
  prove(d, secret, Times(G, coefficients[1]), k, h)

\* reshare() deals the old key: its coefficients are the key and random ones.
reshare(d) ==
  /\ d \in HonestDealers
  /\ \E rest \in Rest(T2), k \in Nonces, h \in Hashes :
       LET coefficients == <<secret_key(d)>> \o rest IN
       publish(d, coefficients, proof_of(d, secret_key(d), coefficients, k, h))

\* A faulty dealer deals another secret, deals another degree, or proves another secret
\* than it deals; or it deals right, and sends shares that are not what it committed to.
misdeal(d) ==
  /\ d \in faulty
  /\ \E k \in Nonces, h \in Hashes :
       \/ \E secret \in Randoms, rest \in Rest(T2) :
            publish(d, <<secret>> \o rest, proof_of(d, secret, <<secret>> \o rest, k, h))
       \/ \E rest \in Rest(T2 + 1) :
            publish(d, <<secret_key(d)>> \o rest,
                    proof_of(d, secret_key(d), <<secret_key(d)>> \o rest, k, h))
       \/ \E rest \in Rest(T2), other \in Randoms :
            publish(d, <<secret_key(d)>> \o rest,
                    proof_of(d, other, <<secret_key(d)>> \o rest, k, h))

-----------------------------------------------------------------------------
AllDealt == \A d \in Dealers : Dealt(d)

valid(d) == verify_proof(deal[d].proof, d, public_key(commitments(d)))
Valid == {d \in Dealers : Dealt(d) /\ valid(d)}

\* Mutant of enough_dealers: valid or not, all count.
enough_dealers_listed == Cardinality(Dealers) >= T

enough_dealers == Cardinality(Valid) >= T

\* new() checks the dealers' proofs, and does not look at the degree of what they dealt.
new(j) ==
  /\ j \in Honest /\ state[j].status = "start"
  /\ AllDealt
  /\ \/ /\ ~enough_dealers
        /\ state' = [state EXCEPT ![j].status = "aborted"]
     \/ /\ enough_dealers
        /\ state' = [state EXCEPT ![j].status = "round_one",
                                  ![j].n = Cardinality(Valid),
                                  ![j].their_commitments = Valid]
  /\ UNCHANGED <<cast, deal, complaints>>

\* The number that a share of d for j decrypts to.
decrypt_share(j, d, share) ==
  LET right == evaluate_polynomial(j, deal[d].coefficients) IN
  IF share = "off" THEN Plus(right, 1) ELSE right

bad_share(j, d, share) ==
  share = "garbled" \/ ~verify_share(decrypt_share(j, d, share), j, commitments(d))

Received(j) ==
  {r \in [state[j].their_commitments -> EncryptedShare] :
     \A d \in state[j].their_commitments \ faulty : r[d] = "right"}

to_round_two(j) ==
  /\ j \in Honest /\ state[j].status = "round_one"
  /\ \E r \in Received(j) :
       LET accused == {d \in DOMAIN r : bad_share(j, d, r[d])} IN
       /\ complaints' = complaints \cup
            {[maker |-> j, accused |-> d, proof |-> TRUE, share |-> r[d]] : d \in accused}
       /\ \/ /\ state[j].n - Cardinality(accused) < T
             /\ state' = [state EXCEPT ![j].status = "aborted"]
          \/ /\ state[j].n - Cardinality(accused) >= T
             /\ state' = [state EXCEPT ![j].status = "round_two",
                  ![j].my_secret_shares = [d \in Dealers |->
                     IF d \in DOMAIN r /\ r[d] # "garbled" THEN r[d] ELSE "none"]]
  /\ UNCHANGED <<cast, deal>>

\* Mutant of AllComplained: nobody waits for the others' complaints.
AllComplained_unawaited == TRUE

AllComplained == \A j \in Honest : state[j].status \notin {"start", "round_one"}

Removed(j) == state[j].status \in {"blamed", "finished"}
Finished(j) == state[j].status = "finished"

\* A dishonest signer accuses any dealer, or one there is not.  Nobody looks at complaints
\* before all are there: it makes them after the honest ones.
false_complaint(s) ==
  /\ s \in dishonest /\ AllComplained
  /\ Cardinality({c \in complaints : c.maker \in dishonest}) < MaxFalse
  /\ \A j \in Honest : ~Removed(j)
  /\ \E a \in 0..(N + 1), p \in BOOLEAN, k \in EncryptedShare :
       /\ a \in HonestDealers => k = "right"
       /\ complaints' = complaints \cup
            {[maker |-> s, accused |-> a, proof |-> p, share |-> k]}
  /\ UNCHANGED <<cast, deal, state>>

\* Mutant of upheld: the share in the complaint is not looked at.
upheld_unseen(s, c) == c.accused \in s.their_commitments /\ c.accused <= s.n /\ c.proof

\* The accused is one of n, with commitments, and the share in the complaint is bad.
upheld(s, c) ==
  /\ c.accused # 0 /\ c.accused <= s.n
  /\ c.accused \in s.their_commitments
  /\ c.proof
  /\ bad_share(c.maker, c.accused, c.share)

\* The number of the accused, a dealer, or that of the maker, a signer.
pending_removals(s) ==
  {IF upheld(s, c) THEN c.accused ELSE c.maker : c \in complaints}

\* Mutant of remove_malicious: the shares of the blamed are left.
remove_commitments(s, R) == [s EXCEPT !.their_commitments = @ \ R]

\* Whatever the number is of, it is the dealer of that number that is removed.
remove_malicious(s, R) ==
  [s EXCEPT !.their_commitments = @ \ R,
            !.my_secret_shares = [d \in Dealers |-> IF d \in R THEN "none" ELSE @[d]]]

blame(j) ==
  /\ j \in Honest /\ state[j].status = "round_two"
  /\ AllComplained
  /\ state' = [state EXCEPT ![j] =
       [remove_malicious(@, pending_removals(@)) EXCEPT !.status = "blamed"]]
  /\ UNCHANGED <<cast, deal, complaints>>

finish(j) ==
  /\ j \in Honest /\ state[j].status = "blamed"
  /\ state' = [state EXCEPT ![j].status = "finished"]
  /\ UNCHANGED <<cast, deal, complaints>>

sign_up(j) == new(j) \/ to_round_two(j) \/ blame(j) \/ finish(j)

Next ==
  \/ \E d \in Dealers : reshare(d) \/ misdeal(d)
  \/ \E j \in Signers : sign_up(j) \/ false_complaint(j)

Spec == Init /\ [][Next]_vars

\* Everybody deals, and honest signers go on as soon as they may.
FairSpec ==
  /\ Spec
  /\ \A d \in Dealers : WF_vars(reshare(d) \/ misdeal(d))
  /\ \A j \in Signers : WF_vars(sign_up(j))

-----------------------------------------------------------------------------
(***************************************************************************)
(* The keys that finish() returns.                                         *)
(***************************************************************************)
my_commitments(j) == [d \in state[j].their_commitments |-> commitments(d)]
group_key_of(j) == calculate_group_key(my_commitments(j))

my_shares(j) ==
  LET D == {d \in Dealers : state[j].my_secret_shares[d] # "none"} IN
  [d \in D |-> decrypt_share(j, d, state[j].my_secret_shares[d])]
signing_key_of(j) == calculate_signing_key(my_shares(j))

-----------------------------------------------------------------------------
(***************************************************************************)
(* Properties.                                                             *)
(***************************************************************************)
TypeOK ==
  /\ polynomial \in [1..T -> OldRandoms]
  /\ faulty \subseteq Dealers
  /\ unproved \subseteq dishonest /\ dishonest \subseteq Signers
  /\ deal \in [Dealers -> Deal]
  /\ state \in [Signers -> State]
  /\ complaints \subseteq Complaint

\* Honest signers remove the same dealers, and so agree on the group key, whatever the
\* dealers deal and the others complain about: resharing implements KeyAgreement, too.
Agreement == INSTANCE KeyAgreement WITH
  Provers <- Signers,
  GroupKeys <- {{D} : D \in SUBSET Dealers},
  NoGroup <- {},
  group_key <- [j \in Signers |->
                  IF j \in Honest /\ Finished(j) THEN {state[j].their_commitments} ELSE {}]

AgreementSpec == Agreement!Spec

\* No dealer with a valid proof has an index past their number (see KeyGeneration).
InRange == \A d \in Valid : d <= Cardinality(Valid)

\* A complaint that is refused removes the dealer with its maker's number, who may be
\* honest: remove_malicious does not know which of the two groups an index is of.
SharedNumber == \E s \in dishonest : s \in HonestDealers

\* But for that, no honest dealer is removed.
HonestDealersKept ==
  InRange /\ ~SharedNumber =>
    \A j \in Honest : Removed(j) => HonestDealers \subseteq state[j].their_commitments

\* What a signer signs with after blame() is the secret part of the public key that
\* everybody computes for it from the commitments (IndividualVerifyingKey): no bad share
\* is left in it, and no good one is missing.
KeysBelong ==
  InRange =>
    \A j \in Honest : Finished(j) =>
      verify_individual(to_public(signing_key_of(j)), j, my_commitments(j))

\* At least as many dealers are left as the old threshold; and who is left dealt its key
\* (which no code checks), of the degree of the new threshold (which `new' does not).
Enough(j) == Cardinality(state[j].their_commitments) >= T
OwnKeysDealt(j) ==
  \A d \in state[j].their_commitments : deal[d].coefficients[1] = secret_key(d)
DegreeDealt(j) ==
  \A d \in state[j].their_commitments : Len(deal[d].coefficients) = T2

\* The group key is static: with enough dealers left that dealt their keys, whichever
\* they are, it is the one before.
GroupKeyKept ==
  \A j \in Honest : Finished(j) /\ Enough(j) /\ OwnKeysDealt(j) =>
    group_key_of(j) = Times(G, evaluate_polynomial(0, polynomial))

\* What any T2 new signers sign verifies under the group key that they hold, whichever
\* dealers were removed, if the rest dealt the right degree (sign, aggregate, verify).
Signature(S, challenge) ==
  LET hiding == [i \in S |-> Times(i, i)]
      binding == [i \in S |-> Plus(i, 1)]
      factors == [i \in S |-> Plus(i, challenge)]
  IN [R |-> compute_group_commitment(hiding, binding, factors),
      z |-> aggregate_z([i \in S |-> partial_signature(i, signing_key_of(i), hiding[i],
                                       binding[i], factors, challenge, S)])]

ThresholdSigns ==
  InRange =>
    \A S \in {X \in SUBSET Honest : Cardinality(X) = T2} :
      (\A j \in S : Finished(j) /\ DegreeDealt(j)) =>
        \A challenge \in Hashes, j \in S :
          LET sig == Signature(S, challenge) IN
          verify_signature(sig.R, sig.z, group_key_of(j), challenge)

\* The library's promise of a static key, for new signers of which fewer than the new
\* threshold misbehave, where all the dealers are honest.
StaticKey ==
  faulty = {} /\ Cardinality(dishonest) < T2 =>
    \A j \in Honest : Finished(j) =>
      group_key_of(j) = Times(G, evaluate_polynomial(0, polynomial))

\* With enough dealers and signers that behave, every honest signer ends with a key.
Robust ==
  Cardinality(faulty) <= N - T /\ Cardinality(dishonest) <= N2 - T2
    => <>(\A j \in Honest : Finished(j))
=============================================================================
