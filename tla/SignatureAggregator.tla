------------------------ MODULE SignatureAggregator ------------------------
(***************************************************************************)
(* Signing with the ice-frost library (ice-frost/src/sign): the lists of   *)
(* nonces that signers make in advance, and an aggregator that includes    *)
(* signers and partial signatures in any order, finalizes and aggregates.  *)
(*                                                                         *)
(* One message is signed after the other; a signer keeps its list of       *)
(* nonces, the aggregator starts afresh.  A nonce is the position of its   *)
(* commitment in the signer's published list.  Callers heed the warning of *)
(* sign(): the nonce they name is the one whose commitment the aggregator  *)
(* has included.  Signers in `faulty' may hand in anything.                *)
(***************************************************************************)
EXTENDS Naturals, Sequences, FiniteSets, SequencesExt

CONSTANTS
  N, T,        \* the aggregator's ThresholdParameters
  Holders,     \* the indices of those who have a share of the group key
  Nonces,      \* how many nonces each of them has made
  Copied,      \* whether sign() is given a copy of the list of nonces
  MaxFaulty,   \* bound: signers that hand in malformed signatures
  MaxMessage   \* bound: messages that are signed

ASSUME SigningAssumption ==
  /\ N \in Nat /\ T \in 1..N /\ Nonces \in Nat
  /\ 0 \notin Holders /\ IsFiniteSet(Holders)
  /\ Copied \in BOOLEAN /\ MaxFaulty \in Nat /\ MaxMessage \in Nat

VARIABLES
  faulty,      \* signers that hand in malformed signatures
  commitments, \* commitments[i]: the SecretCommitmentShareList of signer i
  aggregator,  \* the SignatureAggregator
  made         \* all partial signatures made so far

vars == <<faulty, commitments, aggregator, made>>

-----------------------------------------------------------------------------
\* The commitment under which each holder is included, 0 for who is not.
Signers == [Holders -> 0..Nonces]
NoSigners == [i \in Holders |-> 0]
indices(signers) == {i \in Holders : signers[i] # 0}

\* A partial signature and what went into it: the signer's key and nonce, and the message
\* and the signers' commitments, from which binding factor and challenge are computed.
\* The malformed ones have nonce 0.
PartialSignature ==
  [index : Holders, nonce : 0..Nonces, message : 0..MaxMessage, signers : Signers]

\* The typestate and the AggregatorState; `misbehaving' is what the last error names.
Aggregator ==
  [status : {"initial", "refused", "finalized", "failed", "signed"},
   message : 0..MaxMessage,
   signers : Signers,
   public_keys : SUBSET Holders,
   partial_signatures : SUBSET PartialSignature,
   misbehaving : SUBSET (Holders \cup {0})]

new(m) ==
  [status |-> "initial", message |-> m, signers |-> NoSigners, public_keys |-> {},
   partial_signatures |-> {}, misbehaving |-> {}]

\* Mutant of generate_commitment_share_lists: counted from zero.
generate_from_zero == [k \in 1..Nonces |-> k - 1]

generate_commitment_share_lists == [k \in 1..Nonces |-> k]

Init ==
  /\ faulty \in {F \in SUBSET Holders : Cardinality(F) <= MaxFaulty}
  /\ commitments = [i \in Holders |-> generate_commitment_share_lists]
  /\ aggregator = new(0)
  /\ made = {}

-----------------------------------------------------------------------------
\* The next message, whether the last one was signed or given up.
next_message ==
  /\ aggregator.message < MaxMessage
  /\ aggregator' = new(aggregator.message + 1)
  /\ UNCHANGED <<faulty, commitments, made>>

\* Mutant of with_signer: the last commitment of a signer counts.
with_signer_last(signers, i, k) == [signers EXCEPT ![i] = k]

\* sort() is stable and dedup() keeps the first of equal signers: who is included again
\* stays with its first commitment.
with_signer(signers, i, k) == [signers EXCEPT ![i] = IF @ = 0 THEN k ELSE @]

\* Mutant of included: the public key is stored before the signers are counted.
included_uncounted(a, i, s) ==
  [a EXCEPT !.signers = s, !.public_keys = @ \cup {i}]

\* The signer stays though it is one too many, but its public key is not stored.
included(a, i, s) ==
  [a EXCEPT !.signers = s,
            !.public_keys = IF Cardinality(indices(s)) > N THEN @ ELSE @ \cup {i}]

\* include_signer() with the public key of index i and commitment k of its list.
include_signer(i, k) ==
  /\ aggregator.status = "initial" /\ aggregator.message # 0
  /\ aggregator' = included(aggregator, i, with_signer(aggregator.signers, i, k))
  /\ UNCHANGED <<faulty, commitments, made>>

\* Mutant of drop_share: the first nonce is dropped, whichever was used.
drop_share_first(list, x) == Tail(list)

drop_share(list, x) == RemoveAt(list, x)

\* Signer i signs with the nonce at x of its list, among the signers the aggregator shows
\* by now.  Who is not among them, or has no nonce there, gets an error.
sign(i, x) ==
  LET nonce == commitments[i][x] IN
  /\ x \in 1..Len(commitments[i])
  /\ nonce = aggregator.signers[i]
  /\ made' = made \cup
       {[index |-> i, nonce |-> nonce, message |-> aggregator.message,
         signers |-> aggregator.signers]}
  /\ commitments' =
       IF Copied THEN commitments ELSE [commitments EXCEPT ![i] = drop_share(@, x)]
  /\ UNCHANGED <<faulty, aggregator>>

\* A faulty signer that is included sends what is made of nothing in particular.
false_signature(i) ==
  /\ i \in faulty /\ aggregator.signers[i] # 0
  /\ made' = made \cup {[index |-> i, nonce |-> 0, message |-> 0, signers |-> NoSigners]}
  /\ UNCHANGED <<faulty, commitments, aggregator>>

\* The last one of a signer replaces the one before, of whatever message it is.
include_partial_signature(z) ==
  /\ aggregator.status = "initial"
  /\ aggregator' = [aggregator EXCEPT !.partial_signatures =
       {y \in @ : y.index # z.index} \cup {z}]
  /\ UNCHANGED <<faulty, commitments, made>>

\* Signers without a partial signature, and without a public key.
remaining_signers(a) == indices(a.signers) \ {z.index : z \in a.partial_signatures}
keyless_signers(a) == indices(a.signers) \ a.public_keys

\* finalize() refuses, naming itself (0) if a partial signature is missing.  Without any
\* signer, aggregate() would panic on the first commitment: nobody calls it so.
finalize ==
  LET a == aggregator
      missing == remaining_signers(a) \cup keyless_signers(a) IN
  /\ a.status = "initial" /\ indices(a.signers) # {}
  /\ \/ /\ missing # {}
        /\ aggregator' = [a EXCEPT
             !.status = "refused",
             !.misbehaving = missing \cup IF remaining_signers(a) # {} THEN {0} ELSE {}]
     \/ /\ missing = {}
        /\ aggregator' = [a EXCEPT !.status = "finalized"]
  /\ UNCHANGED <<faulty, commitments, made>>

\* Whose partial signature is not what key, commitment, signers and message make it.
malformed(a) ==
  {i \in indices(a.signers) :
     [index |-> i, nonce |-> a.signers[i], message |-> a.message, signers |-> a.signers]
       \notin a.partial_signatures}

\* The sum verifies if all its parts are well formed and it has enough of them to make up
\* the group key.  Otherwise aggregate() looks for the malformed ones.
aggregate ==
  LET a == aggregator IN
  /\ a.status = "finalized"
  /\ \/ /\ malformed(a) = {} /\ Cardinality(indices(a.signers)) >= T
        /\ aggregator' = [a EXCEPT !.status = "signed"]
     \/ /\ malformed(a) # {} \/ Cardinality(indices(a.signers)) < T
        /\ aggregator' = [a EXCEPT !.status = "failed", !.misbehaving = malformed(a)]
  /\ UNCHANGED <<faulty, commitments, made>>

Next ==
  \/ next_message
  \/ \E i \in Holders :
       \/ \E k \in 1..Nonces : include_signer(i, k)
       \/ \E x \in 1..Nonces : sign(i, x)
       \/ false_signature(i)
  \/ \E z \in made : include_partial_signature(z)
  \/ finalize
  \/ aggregate

Spec == Init /\ [][Next]_vars

-----------------------------------------------------------------------------
(***************************************************************************)
(* Properties.                                                             *)
(***************************************************************************)
TypeOK ==
  /\ faulty \subseteq Holders
  /\ commitments \in [Holders -> Seq(1..Nonces)]
  /\ aggregator \in Aggregator
  /\ made \subseteq PartialSignature

\* No nonce makes two partial signatures, whatever messages are signed and however often
\* the aggregator shows the same commitment: what sign() removes from the shrinking list
\* is what it has used (drop_share).
NonceOnce ==
  \A y, z \in made : y.index = z.index /\ y.nonce = z.nonce => y = z

\* An aggregator that has ever had more signers than its parameters allow for is never
\* finalized, though include_signer() leaves the one too many in the list: one signer of
\* the list has no public key, in whatever order they were included, even again.
FinalizedInBounds ==
  aggregator.status \in {"finalized", "failed", "signed"}
    => Cardinality(indices(aggregator.signers)) <= N

\* aggregate() names a signer that is not faulty only if another signer was included after
\* it had signed, or the signature handed in for it is of another message: including a
\* signer again takes nothing from under those who have signed.
HonestNotNamed ==
  aggregator.status = "failed" =>
    \A i \in aggregator.misbehaving \ faulty :
      \E z \in aggregator.partial_signatures :
        /\ z.index = i
        /\ \/ z.message # aggregator.message
           \/ indices(z.signers) # indices(aggregator.signers)
=============================================================================
