--------------------------- MODULE SecretSharing ---------------------------
(***************************************************************************)
(* The arithmetic of the ice-frost library: shares of a secret, their      *)
(* commitments, the keys interpolated from them, proofs of knowledge and   *)
(* threshold signatures (ice-frost/src/utils.rs, keys.rs,                  *)
(* dkg/secret_share.rs, dkg/nizkpok.rs, sign/signature.rs).                *)
(*                                                                         *)
(* A cipher suite's group of prime order is the group of residues modulo   *)
(* the prime Q under addition, with generator G: a scalar times a group    *)
(* element is a product, a sum of group elements a sum.  The code only     *)
(* adds, multiplies and compares.  What a hash function returns is a       *)
(* parameter, arbitrary where it is used in a sum; where two hashes are    *)
(* compared, it is the tuple of what was hashed.                           *)
(***************************************************************************)
EXTENDS Naturals, Sequences, FiniteSets, Functions

CONSTANTS Q, G

ASSUME GroupAssumption ==
  /\ Q \in Nat /\ Q >= 2
  /\ G \in 1..(Q - 1)

Scalar == 0..(Q - 1)

Plus(x, y) == (x + y) % Q
Times(x, y) == (x * y) % Q
Minus(x, y) == (x + Q - (y % Q)) % Q

\* Q is prime: every scalar but 0 has an inverse.
ASSUME FieldAssumption == \A x \in Scalar \ {0} : \E y \in Scalar : Times(x, y) = 1

SumOver(f) == FoldFunction(Plus, 0, f)
ProductOver(f) == FoldFunction(Times, 1, f)

\* The inverse of a denominator is there because Q is prime.
inverse(x) == CHOOSE y \in Scalar : Times(x, y) = 1

\* The coefficient of index i in an interpolation at 0.  The callers' indices are the keys
\* of a map, so that none comes twice; none is 0, as no participant has index 0.
calculate_lagrange_coefficients(i, indices) ==
  Times(ProductOver([j \in indices \ {i} |-> j % Q]),
        inverse(ProductOver([j \in indices \ {i} |-> Minus(j, i)])))

-----------------------------------------------------------------------------
\* The loop that evaluates a polynomial, or the commitments to one, at x: it adds the
\* next lower coefficient and, but for the last, multiplies by x.
Horner(coefficients, x) ==
  LET from[k \in 1..Len(coefficients)] ==
        IF k = Len(coefficients) THEN coefficients[k]
        ELSE Plus(coefficients[k], Times(x, from[k + 1]))
  IN IF coefficients = <<>> THEN 0 ELSE from[1]

\* The share that the dealer of these coefficients makes for an index.
evaluate_polynomial(receiver_index, coefficients) == Horner(coefficients, receiver_index % Q)

\* A dealer's commitments to its coefficients.
Commitments(coefficients) == [k \in DOMAIN coefficients |-> Times(G, coefficients[k])]

public_key(points) == points[1]

evaluate_hiding(points, term) == Horner(points, term % Q)

\* SecretShare::verify: the share is what was committed to.
verify_share(share, receiver_index, points) ==
  Times(G, share) = evaluate_hiding(points, receiver_index)

-----------------------------------------------------------------------------
\* The signing key, of shares by their dealers' indices; and the group key, of commitments.
calculate_signing_key(shares) ==
  SumOver([d \in DOMAIN shares |->
    Times(shares[d], calculate_lagrange_coefficients(d, DOMAIN shares))])

\* Mutant of calculate_group_key: the sum of the dealers' public keys, as if each had dealt
\* a part of the key and not a share of it.
group_key_sum(commitments) ==
  SumOver([d \in DOMAIN commitments |-> public_key(commitments[d])])

calculate_group_key(commitments) ==
  SumOver([d \in DOMAIN commitments |->
    Times(public_key(commitments[d]),
          calculate_lagrange_coefficients(d, DOMAIN commitments))])

\* IndividualSigningKey::to_public.
to_public(key) == Times(G, key)

\* IndividualVerifyingKey: what anybody computes, of the dealers' commitments, for an index.
generate_from_commitments(participant_index, commitments) ==
  SumOver([d \in DOMAIN commitments |->
    Times(evaluate_hiding(commitments[d], participant_index),
          calculate_lagrange_coefficients(d, DOMAIN commitments))])

\* IndividualVerifyingKey::verify: the key of an index is what the dealers committed to.
verify_individual(share, participant_index, commitments) ==
  share = generate_from_commitments(participant_index, commitments)

-----------------------------------------------------------------------------
\* NizkPokOfSecretKey: `s' is the hash of what `prove' hashed, and `h' its value.
prove(index, secret_key, key, k, h) ==
  [s |-> <<index, key, Times(G, k)>>, h |-> h, r |-> Plus(k, Times(secret_key, h))]

retrieved_m(proof, key) == Minus(Times(G, proof.r), Times(key, proof.h))

\* The same hash comes out only if the commitment that is retrieved was hashed.
verify_proof(proof, index, key) == proof.s = <<index, key, retrieved_m(proof, key)>>

-----------------------------------------------------------------------------
\* Mutant of partial_signature: the key share is not weighted by its Lagrange coefficient.
partial_unweighted(i, key, hiding, binding, factors, challenge, signers) ==
  Plus(Plus(hiding, Times(binding, factors[i])), Times(key, challenge))

\* IndividualSigningKey::sign: nonces, binding factors by signer, and challenge.
partial_signature(i, key, hiding, binding, factors, challenge, signers) ==
  Plus(Plus(hiding, Times(binding, factors[i])),
       Times(Times(calculate_lagrange_coefficients(i, signers), key), challenge))

compute_group_commitment(hiding, binding, factors) ==
  SumOver([i \in DOMAIN hiding |->
    Plus(Times(G, hiding[i]), Times(Times(G, binding[i]), factors[i]))])

\* SignatureAggregator::aggregate adds the partial signatures up.
aggregate_z(partial_signatures) == SumOver(partial_signatures)

\* ThresholdSignature::verify and GroupVerifyingKey::verify_signature.
verify_signature(group_commitment, z, group_key, challenge) ==
  group_commitment = Minus(Times(G, z), Times(group_key, challenge))
=============================================================================
